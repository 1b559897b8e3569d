------------------------ MODULE ConversationStoreProofs ------------------------
(***************************************************************************)
(* Proofs about ConversationStore for any number of conversations, runs    *)
(* and damages: whatever is opened, migrated, set aside, recovered, copied *)
(* or deleted, a message is as finished as its run, the model is told      *)
(* whole exchanges, and none that was told is lost.                        *)
(***************************************************************************)
EXTENDS ConversationStore, FiniteSetTheorems, WellFoundedInduction, TLAPS

RunStatuses == Terminal \cup {"running"}
RunRow == [conversation : Conversations \cup {None}, status : RunStatuses \cup {"absent"}]

IsMessage(m) ==
    /\ m = [f \in {"conversation", "ordinal", "role", "run", "status", "text"} |-> m[f]]
    /\ m.run \in Runs \cup {None} /\ m.status \in RunStatuses

(* A row of a run belongs to the conversation of the run, so that they are *)
(* deleted together; and it has the status of the run.                     *)
OfItsRun(runs, m) ==
    IF m.run = None THEN m.status \in Terminal
    ELSE m.status = runs[m.run].status /\ m.conversation = runs[m.run].conversation

HasTables(t) ==
    t = [f \in {"conversations", "runs", "messages", "audits", "goal", "history"} |-> t[f]]
Rows(t) ==
    /\ HasTables(t)
    /\ t.runs \in [Runs -> RunRow]
    /\ \A m \in t.messages : IsMessage(m) /\ OfItsRun(t.runs, m)

(* Ids are given out once; only a process that is up has an active run,    *)
(* and no other row is running.                                            *)
Running(r) == tables.runs[r].status = "running"
ActiveInv ==
    /\ begun \in 0 .. MaxRuns
    /\ \A r \in Runs : r > begun => tables.runs[r] = NoRow
    /\ active \in Handles \cup {None}
    /\ active # None => pc = "up" /\ Running(active.run)
    /\ pc = "up" => \A r \in Runs : Running(r) => active # None /\ active.run = r

IInv == Rows(tables) /\ ActiveInv

-----------------------------------------------------------------------------
LEMMA EmptyRows == Rows(Empty)
BY StoreAssumption DEF Rows, HasTables, Empty, NoRow, RunRow, Runs

LEMMA InitializedRows ==
    ASSUME NEW t, Rows(t), NEW c \in Conversations, NEW r \in Runs, t.runs[r] = NoRow
    PROVE  /\ Rows(InitializedRun(t, c, r))
           /\ InitializedRun(t, c, r).runs =
                [t.runs EXCEPT ![r] = [conversation |-> c, status |-> "running"]]
<1> DEFINE u == InitializedRun(t, c, r)
           first == Message(c, NextOrdinal(t, c), "user", r, "running", r)
           second == Message(c, NextOrdinal(t, c) + 1, "assistant", r, "running", None)
<1>1. /\ u.runs = [t.runs EXCEPT ![r] = [conversation |-> c, status |-> "running"]]
      /\ u.messages = t.messages \cup {first, second}
      /\ HasTables(u)
  BY DEF Rows, HasTables, InitializedRun
<1>2. r # None
  BY StoreAssumption DEF Runs
<1>3. u.runs \in [Runs -> RunRow]
  BY <1>1 DEF Rows, RunRow, RunStatuses
<1>4. ASSUME NEW m \in t.messages PROVE IsMessage(m) /\ OfItsRun(u.runs, m)
  <2>1. IsMessage(m) /\ OfItsRun(t.runs, m)
    BY DEF Rows
  <2>2. m.run # r
    BY <1>2, <2>1 DEF IsMessage, OfItsRun, NoRow, RunStatuses, Terminal
  <2> QED
    BY <1>1, <2>1, <2>2 DEF IsMessage, OfItsRun, Rows
<1>5. ASSUME NEW m \in {first, second} PROVE IsMessage(m) /\ OfItsRun(u.runs, m)
  <2>1. m.run = r /\ m.status = "running" /\ m.conversation = c
    BY DEF Message
  <2>2. IsMessage(m)
    BY <2>1 DEF Message, IsMessage, RunStatuses
  <2>3. u.runs[r] = [conversation |-> c, status |-> "running"]
    BY <1>1 DEF Rows
  <2> QED
    BY <1>2, <2>1, <2>2, <2>3 DEF OfItsRun
<1> QED
  BY <1>1, <1>3, <1>4, <1>5 DEF Rows

LEMMA NotedRows ==
    ASSUME NEW t, Rows(t), NEW owner, NEW r
    PROVE  Rows(Noted(t, owner, r)) /\ Noted(t, owner, r).runs = t.runs
<1> DEFINE u == Noted(t, owner, r)
<1>1. u.runs = t.runs /\ u.messages = t.messages
  BY DEF Rows, HasTables, Noted
<1>2. HasTables(u)
  BY DEF Rows, HasTables, Noted
<1> QED
  BY <1>1, <1>2 DEF Rows

LEMMA AnsweredRows ==
    ASSUME NEW t, Rows(t), NEW r \in Runs
    PROVE  Rows(WithAnswer(t, r)) /\ WithAnswer(t, r).runs = t.runs
<1> DEFINE u == WithAnswer(t, r)
           Answer(m) == IF m.run = r /\ m.role = "assistant" THEN [m EXCEPT !.text = r] ELSE m
<1>1. /\ u.runs = t.runs /\ u.messages = {Answer(m) : m \in t.messages}
      /\ HasTables(u)
  BY DEF Rows, HasTables, WithAnswer
<1>2. ASSUME NEW m \in t.messages PROVE IsMessage(Answer(m)) /\ OfItsRun(u.runs, Answer(m))
  <2>1. IsMessage(m) /\ OfItsRun(t.runs, m)
    BY DEF Rows
  <2> QED
    BY <1>1, <2>1 DEF IsMessage, OfItsRun, Message
<1> QED
  BY <1>1, <1>2 DEF Rows

LEMMA FinishedRows ==
    ASSUME NEW t, Rows(t), NEW r \in Runs, NEW status \in Terminal, t.runs[r].status = "running"
    PROVE  /\ Rows(FinishedRun(t, r, status))
           /\ FinishedRun(t, r, status).runs = [t.runs EXCEPT ![r].status = status]
<1> DEFINE u == FinishedRun(t, r, status)
           Finish(m) == IF m.run = r /\ m.status \in Unfinished
                        THEN [m EXCEPT !.status = status] ELSE m
<1>1. /\ u.runs = [t.runs EXCEPT ![r].status = status]
      /\ u.messages = {Finish(m) : m \in t.messages}
      /\ HasTables(u)
  BY DEF Rows, HasTables, FinishedRun
<1>2. t.runs[r] \in RunRow /\ t.runs \in [Runs -> RunRow]
  BY DEF Rows
<1>3. u.runs \in [Runs -> RunRow]
  BY <1>1, <1>2 DEF RunRow, RunStatuses
<1>4. ASSUME NEW m \in t.messages PROVE IsMessage(Finish(m)) /\ OfItsRun(u.runs, Finish(m))
  <2>1. IsMessage(m) /\ OfItsRun(t.runs, m)
    BY DEF Rows
  <2>2. CASE m.run = r
    <3>1. m.run # None /\ m.status = "running" /\ m.conversation = t.runs[r].conversation
      BY <2>1, <2>2, StoreAssumption DEF OfItsRun, Runs
    <3>2. Finish(m) = [m EXCEPT !.status = status]
      BY <2>2, <3>1 DEF Unfinished
    <3>3. u.runs[r].status = status /\ u.runs[r].conversation = t.runs[r].conversation
      BY <1>1, <1>2 DEF RunRow
    <3> QED
      BY <2>1, <2>2, <3>1, <3>2, <3>3 DEF IsMessage, OfItsRun, Message, RunStatuses
  <2>3. CASE m.run # r
    BY <1>1, <1>2, <2>1, <2>3 DEF IsMessage, OfItsRun
  <2> QED
    BY <2>2, <2>3
<1> QED
  BY <1>1, <1>3, <1>4 DEF Rows

LEMMA SummarisedRows ==
    ASSUME NEW t, Rows(t), NEW r \in Runs, t.runs[r].status = "running"
    PROVE  /\ Rows(SummarisedRun(t, r))
           /\ SummarisedRun(t, r).runs = [t.runs EXCEPT ![r].status = "interrupted"]
<1> DEFINE v == FinishedRun(WithAnswer(t, r), r, "interrupted")
<1>1. Rows(v) /\ v.runs = [t.runs EXCEPT ![r].status = "interrupted"]
  <2>1. Rows(WithAnswer(t, r)) /\ WithAnswer(t, r).runs = t.runs
    BY AnsweredRows
  <2>2. "interrupted" \in Terminal
    BY DEF Terminal
  <2> QED
    BY <2>1, <2>2, FinishedRows
<1>2. SummarisedRun(t, r) = [v EXCEPT !.audits = @ \cup {r}]
  BY DEF SummarisedRun
<1> HIDE DEF v
<1> QED
  BY <1>1, <1>2 DEF Rows, HasTables

LEMMA RecoveredRows ==
    ASSUME NEW t, Rows(t)
    PROVE  /\ Rows(Recovered(t))
           /\ \A r \in Runs : /\ Recovered(t).runs[r].status # "running"
                              /\ t.runs[r] = NoRow => Recovered(t).runs[r] = NoRow
<1> DEFINE u == Recovered(t)
           Recover(m) == IF m.status \in Unfinished THEN [m EXCEPT !.status = "interrupted"] ELSE m
           Ended(row) == IF row.status = "running" THEN [row EXCEPT !.status = "interrupted"] ELSE row
<1>1. /\ u.runs = [r \in Runs |-> Ended(t.runs[r])]
      /\ u.messages = {Recover(m) : m \in t.messages}
      /\ HasTables(u)
  <2>1. u.runs = [r \in Runs |-> Ended(t.runs[r])]
    BY DEF Rows, HasTables, Recovered
  <2>2. u.messages = {Recover(m) : m \in t.messages}
    BY DEF Rows, HasTables, Recovered
  <2>3. HasTables(u)
    BY DEF Rows, HasTables, Recovered
  <2> QED
    BY <2>1, <2>2, <2>3
<1>2. t.runs \in [Runs -> RunRow]
  BY DEF Rows
<1>3. ASSUME NEW row \in RunRow
      PROVE  /\ Ended(row) \in RunRow /\ Ended(row).status # "running"
             /\ Ended(row).conversation = row.conversation
             /\ row.status = "running" => Ended(row).status = "interrupted"
             /\ row.status # "running" => Ended(row) = row
  BY DEF RunRow, RunStatuses, Terminal
<1>4. u.runs \in [Runs -> RunRow] /\ \A r \in Runs : u.runs[r] = Ended(t.runs[r])
  BY <1>1, <1>2, <1>3
<1>5. ASSUME NEW m \in t.messages PROVE IsMessage(Recover(m)) /\ OfItsRun(u.runs, Recover(m))
  <2>1. IsMessage(m) /\ OfItsRun(t.runs, m)
    BY DEF Rows
  <2>2. m.status \in Unfinished <=> m.status = "running"
    BY <2>1 DEF IsMessage, Unfinished, RunStatuses, Terminal
  <2>3. IsMessage(Recover(m)) /\ Recover(m).run = m.run /\ Recover(m).conversation = m.conversation
        /\ Recover(m).status = IF m.status = "running" THEN "interrupted" ELSE m.status
    BY <2>1, <2>2 DEF IsMessage, RunStatuses, Terminal
  <2> HIDE DEF Recover, Ended, u
  <2>4. CASE m.run = None
    BY <2>1, <2>3, <2>4 DEF OfItsRun, Terminal
  <2>5. CASE m.run # None
    <3>1. m.run \in Runs /\ t.runs[m.run] \in RunRow
      BY <1>2, <2>1, <2>5 DEF IsMessage
    <3> QED
      BY <1>3, <1>4, <2>1, <2>3, <2>5, <3>1 DEF OfItsRun
  <2> QED
    BY <2>4, <2>5
<1>6. Rows(u)
  BY <1>1, <1>4, <1>5 DEF Rows
<1>7. ASSUME NEW r \in Runs
      PROVE  u.runs[r].status # "running" /\ (t.runs[r] = NoRow => u.runs[r] = NoRow)
  <2>1. t.runs[r] \in RunRow /\ u.runs[r] = Ended(t.runs[r])
    BY <1>2, <1>4
  <2>2. NoRow.status # "running"
    BY DEF NoRow
  <2> HIDE DEF u, Ended
  <2> QED
    BY <1>3, <2>1, <2>2
<1> QED
  BY <1>6, <1>7

LEMMA ForkedRows ==
    ASSUME NEW t, Rows(t), NEW c, NEW target
    PROVE  Rows(Forked(t, c, target)) /\ Forked(t, c, target).runs = t.runs
<1> DEFINE u == Forked(t, c, target)
<1>1. /\ u.runs = t.runs /\ HasTables(u)
      /\ u.messages = t.messages \cup {Copied(t, m, target) : m \in Of(t, c)}
  <2>1. u.runs = t.runs
    BY DEF Rows, HasTables, Forked
  <2>2. u.messages = t.messages \cup {Copied(t, m, target) : m \in Of(t, c)}
    BY DEF Rows, HasTables, Forked
  <2>3. HasTables(u)
    BY DEF Rows, HasTables, Forked
  <2> QED
    BY <2>1, <2>2, <2>3
<1>2. ASSUME NEW m \in Of(t, c)
      PROVE  IsMessage(Copied(t, m, target)) /\ OfItsRun(t.runs, Copied(t, m, target))
  <2>1. IsMessage(m)
    BY DEF Of, Rows
  <2>2. /\ Copied(t, m, target).run = None
        /\ Copied(t, m, target).status = IF m.status \in Unfinished THEN "interrupted" ELSE m.status
        /\ Copied(t, m, target) =
             [f \in {"conversation", "ordinal", "role", "run", "status", "text"} |-> Copied(t, m, target)[f]]
    BY <2>1 DEF Copied, IsMessage
  <2>3. Copied(t, m, target).status \in Terminal
    BY <2>1, <2>2 DEF IsMessage, RunStatuses, Terminal, Unfinished
  <2> QED
    BY <2>2, <2>3 DEF IsMessage, OfItsRun, RunStatuses
<1> QED
  BY <1>1, <1>2 DEF Rows, Of

LEMMA DeletedRows ==
    ASSUME NEW t, Rows(t), NEW c
    PROVE  /\ Rows(Deleted(t, c))
           /\ \A r \in Runs : Deleted(t, c).runs[r] \in {NoRow, t.runs[r]}
<1> DEFINE u == Deleted(t, c)
           gone == {r \in Runs : t.runs[r].conversation = c}
<1>1. /\ u.runs = [r \in Runs |-> IF r \in gone THEN NoRow ELSE t.runs[r]]
      /\ u.messages = t.messages \ Of(t, c) /\ HasTables(u)
  BY DEF Rows, HasTables, Deleted
<1>2. u.runs \in [Runs -> RunRow]
  BY <1>1 DEF Rows, RunRow, NoRow
<1>3. ASSUME NEW m \in u.messages PROVE IsMessage(m) /\ OfItsRun(u.runs, m)
  <2>1. m \in t.messages /\ m.conversation # c /\ IsMessage(m) /\ OfItsRun(t.runs, m)
    BY <1>1 DEF Of, Rows
  <2>2. m.run # None => m.run \in Runs \ gone
    BY <2>1 DEF IsMessage, OfItsRun
  <2> QED
    BY <1>1, <2>1, <2>2 DEF OfItsRun
<1> QED
  BY <1>1, <1>2, <1>3 DEF Rows

-----------------------------------------------------------------------------
LEMMA StoreInit == Init => IInv
<1> SUFFICES ASSUME Init PROVE IInv
  OBVIOUS
<1>1. ASSUME tables = Empty, begun = 0 PROVE IInv
  <2>1. \A r \in Runs : tables.runs[r] = NoRow
    BY <1>1 DEF Empty
  <2> QED
    BY <1>1, <2>1, EmptyRows, StoreAssumption DEF Init, IInv, ActiveInv
<1>2. ASSUME NEW c \in Conversations, NEW ending \in {"answered", "summarised", "begun"},
             NEW owner, tables \in {Left(c, ending), Noted(Left(c, ending), owner, 1)}, begun = 1
      PROVE  IInv
  <2> DEFINE first == InitializedRun(Empty, c, 1)
             answered == WithAnswer(first, 1)
  <2>1. 1 \in Runs /\ Empty.runs = [r \in Runs |-> NoRow]
    BY StoreAssumption DEF Runs, Empty
  <2>2. Rows(first) /\ first.runs = [Empty.runs EXCEPT ![1] = [conversation |-> c, status |-> "running"]]
    BY <2>1, EmptyRows, InitializedRows
  <2> HIDE DEF first, answered
  <2>3. first.runs[1].status = "running" /\ \A r \in Runs : r > 1 => first.runs[r] = NoRow
    BY <2>1, <2>2 DEF Runs
  <2>4. Rows(answered) /\ answered.runs = first.runs
    BY <2>1, <2>2, AnsweredRows DEF answered
  <2>5. "completed" \in Terminal
    BY DEF Terminal
  <2>6. /\ Rows(FinishedRun(answered, 1, "completed"))
        /\ FinishedRun(answered, 1, "completed").runs = [first.runs EXCEPT ![1].status = "completed"]
    BY <2>1, <2>3, <2>4, <2>5, FinishedRows
  <2>7. /\ Rows(SummarisedRun(first, 1))
        /\ SummarisedRun(first, 1).runs = [first.runs EXCEPT ![1].status = "interrupted"]
    BY <2>1, <2>2, <2>3, SummarisedRows
  <2>8. Left(c, ending) \in {FinishedRun(answered, 1, "completed"), SummarisedRun(first, 1), first}
    BY DEF Left, first, answered
  <2> DEFINE left == Left(c, ending)
  <2>9. Rows(left) /\ \A r \in Runs : r > 1 => left.runs[r] = NoRow
    BY <2>2, <2>3, <2>6, <2>7, <2>8 DEF Runs, Rows
  <2> HIDE DEF left
  <2>10. Rows(tables) /\ tables.runs = left.runs
    BY <1>2, <2>9, NotedRows DEF left
  <2> QED
    BY <1>2, <2>9, <2>10, StoreAssumption DEF Init, IInv, ActiveInv
<1>3. CASE tables = Empty /\ begun = 0
  BY <1>1, <1>3
<1>4. CASE begun = 1 /\ \E c \in Conversations, ending \in {"answered", "summarised", "begun"} :
              \/ tables = Left(c, ending)
              \/ \E owner \in Owners(file.version, c) : tables = Noted(Left(c, ending), owner, 1)
  BY <1>2, <1>4
<1> QED
  BY <1>3, <1>4 DEF Init

(* Opening the database, and what the environment does, leave no active run. *)
LEMMA OpeningStep ==
    ASSUME IInv,
           Open \/ Migrate \/ Opened \/ Quarantine \/ QuarantineFails \/ Replace \/ Crash \/ Damage
    PROVE  IInv'
<1>1. tables' \in {tables, Empty}
  BY DEF Open, Migrate, RebuiltGoals, RebuiltRuns, Opened, Quarantine, QuarantineFails, Replace, Crash, Damage
<1>2. Rows(tables)' /\ \A r \in Runs : tables.runs[r] = NoRow => tables'.runs[r] = NoRow
  BY <1>1, EmptyRows DEF IInv, Empty
<1>3. pc' # "up" /\ active' = None /\ begun' = begun
  BY DEF Open, Migrate, Opened, Quarantine, QuarantineFails, Replace, Crash, Damage, bounds,
         IInv, ActiveInv
<1> QED
  BY <1>2, <1>3 DEF IInv, ActiveInv

LEMMA RecoveryStep ==
    ASSUME IInv, RecoverInterruptedRuns
    PROVE  IInv'
<1>1. tables' = Recovered(tables) /\ active' = None /\ begun' = begun
  BY DEF RecoverInterruptedRuns, bounds, IInv, ActiveInv
<1>2. Rows(tables')
  BY <1>1, RecoveredRows DEF IInv
<1>3. ASSUME NEW r \in Runs PROVE tables'.runs[r].status # "running"
  BY <1>1, RecoveredRows DEF IInv
<1>4. ASSUME NEW r \in Runs, r > begun PROVE tables'.runs[r] = NoRow
  BY <1>1, <1>4, RecoveredRows DEF IInv, ActiveInv
<1> QED
  BY <1>1, <1>2, <1>3, <1>4 DEF IInv, ActiveInv, Running

LEMMA StartStep ==
    ASSUME IInv, NEW c \in Conversations, StartRun(c)
    PROVE  IInv'
<1> DEFINE r == begun + 1
<1>1. r \in Runs /\ r > begun /\ begun \in Nat /\ begun' = r /\ r \in 0 .. MaxRuns
  BY StoreAssumption DEF IInv, ActiveInv, StartRun, Runs
<1>2. tables.runs[r] = NoRow
  BY <1>1 DEF IInv, ActiveInv
<1>3. /\ Rows(tables)'
      /\ tables'.runs = [tables.runs EXCEPT ![r] = [conversation |-> c, status |-> "running"]]
  BY <1>1, <1>2, InitializedRows DEF IInv, StartRun
<1>4. tables.runs \in [Runs -> RunRow]
  BY DEF IInv, Rows
<1>5. /\ tables'.runs[r].status = "running"
      /\ \A s \in Runs : s # r => tables'.runs[s] = tables.runs[s]
  BY <1>1, <1>3, <1>4
<1>6. active' = [run |-> r, closing |-> "no"] /\ active = None /\ pc = "up" /\ pc' = "up"
  BY <1>1 DEF StartRun, Busy
<1>7. \A s \in Runs : s > r => tables'.runs[s] = NoRow
  BY <1>1, <1>5 DEF IInv, ActiveInv, Runs
<1>8. \A s \in Runs : tables'.runs[s].status = "running" => s = r
  BY <1>5, <1>6 DEF IInv, ActiveInv, Running
<1>9. active' \in Handles /\ active' # None /\ active'.run = r
  BY <1>1, <1>6, StoreAssumption DEF Handles
<1> HIDE DEF r
<1> QED
  BY <1>1, <1>3, <1>5, <1>6, <1>7, <1>8, <1>9 DEF IInv, ActiveInv, Running

(* The active run writes, or ends. *)
LEMMA RunStep ==
    ASSUME IInv, RecordGoal \/ FlushText \/ (\E status \in Terminal : FinishMessage(status)) \/ FinishRun
                 \/ FinishInterruptedWithHostSummary
    PROVE  IInv'
<1> DEFINE r == active.run
<1>1. pc = "up" /\ pc' = "up" /\ active \in Handles /\ active # None /\ begun' = begun
  BY DEF RecordGoal, FlushText, FinishMessage, FinishRun, FinishInterruptedWithHostSummary, Busy, bounds,
         IInv, ActiveInv
<1>2. r \in Runs /\ tables.runs[r].status = "running" /\ tables.runs \in [Runs -> RunRow]
  BY <1>1 DEF Handles, IInv, ActiveInv, Running, Rows
<1>3. ASSUME tables' \in {tables, WithAnswer(tables, r), Noted(tables, tables.goal, r)},
             active' \in Handles, active'.run = r
      PROVE  IInv'
  <2>1. Rows(tables)' /\ tables'.runs = tables.runs
    BY <1>2, <1>3, AnsweredRows, NotedRows DEF IInv
  <2>2. active' # None
    BY <1>3, StoreAssumption
  <2> QED
    BY <1>1, <1>3, <2>1, <2>2 DEF IInv, ActiveInv, Running
<1>4. ASSUME NEW status \in Terminal, active' = None, Rows(tables)',
             tables'.runs = [tables.runs EXCEPT ![r].status = status]
      PROVE  IInv'
  <2>1. \A s \in Runs : tables'.runs[s].status # "running"
    BY <1>1, <1>2, <1>4 DEF IInv, ActiveInv, Running, Terminal, RunRow
  <2>2. \A s \in Runs : tables.runs[s] = NoRow => tables'.runs[s] = NoRow
    BY <1>2, <1>4 DEF NoRow
  <2> QED
    BY <1>1, <1>4, <2>1, <2>2 DEF IInv, ActiveInv, Running
<1>5. CASE FlushText
  BY <1>1, <1>3, <1>5 DEF FlushText
<1>6. CASE \E status \in Terminal : FinishMessage(status)
  <2>1. PICK status \in Terminal : FinishMessage(status)
    BY <1>6
  <2>2. active' \in Handles /\ active'.run = r
    BY <1>1, <2>1 DEF FinishMessage, Handles
  <2> QED
    BY <1>3, <2>1, <2>2 DEF FinishMessage
<1>7. CASE FinishRun
  <2>1. active.closing \in Terminal
    BY <1>1, <1>7 DEF FinishRun, Handles
  <2>2. tables' = FinishedRun(tables, r, active.closing) /\ active' = None /\ Rows(tables)
    BY <1>7 DEF FinishRun, IInv
  <2>3. Rows(tables') /\ tables'.runs = [tables.runs EXCEPT ![r].status = active.closing]
    BY <1>2, <2>1, <2>2, FinishedRows
  <2> QED
    BY <1>4, <2>1, <2>2, <2>3
<1>8. CASE FinishInterruptedWithHostSummary
  <2>1. "interrupted" \in Terminal
    BY DEF Terminal
  <2> QED
    BY <1>2, <1>4, <1>8, <2>1, SummarisedRows DEF FinishInterruptedWithHostSummary, IInv
<1>9. CASE RecordGoal
  BY <1>1, <1>3, <1>9 DEF RecordGoal
<1> QED
  BY <1>5, <1>6, <1>7, <1>8, <1>9

LEMMA GoalStep ==
    ASSUME IInv, CreateGoal
    PROVE  IInv'
<1>1. tables' = [tables EXCEPT !.goal = None] /\ Rows(tables)
  BY DEF CreateGoal, IInv
<1>2. HasTables(tables')
  BY <1>1 DEF Rows, HasTables
<1>3. tables'.runs = tables.runs /\ tables'.messages = tables.messages
  BY <1>1 DEF Rows, HasTables
<1> QED
  BY <1>1, <1>2, <1>3 DEF CreateGoal, bounds, IInv, Rows, ActiveInv, Running

LEMMA UserStep ==
    ASSUME IInv, NEW c \in Conversations, NEW target \in Conversations,
           Fork(c, target) \/ Archive(c) \/ Delete(c)
    PROVE  IInv'
<1>1. pc' = pc /\ pc = "up" /\ active' = active /\ begun' = begun
  BY DEF Fork, Archive, Delete, bounds
<1>2. ASSUME Rows(tables)', tables'.runs = tables.runs PROVE IInv'
  BY <1>1, <1>2 DEF IInv, ActiveInv, Running
<1>3. CASE Fork(c, target)
  BY <1>2, <1>3, ForkedRows DEF Fork, IInv
<1>4. CASE Archive(c)
  <2>1. Rows(tables)' /\ tables'.runs = tables.runs
    <3>1. tables' = [tables EXCEPT !.conversations[c] = "archived"] /\ Rows(tables)
      BY <1>4 DEF Archive, IInv
    <3>2. HasTables(tables')
      BY <3>1 DEF Rows, HasTables
    <3>3. tables'.runs = tables.runs /\ tables'.messages = tables.messages
      BY <3>1 DEF Rows, HasTables
    <3> QED
      BY <3>1, <3>2, <3>3 DEF Rows
  <2> QED
    BY <1>2, <2>1
<1>5. CASE Delete(c)
  <2>1. Rows(tables)' /\ \A r \in Runs : tables'.runs[r] \in {NoRow, tables.runs[r]}
    BY <1>5, DeletedRows DEF Delete, IInv
  <2>2. active = None /\ \A r \in Runs : tables'.runs[r].status # "running"
    BY <1>1, <1>5, <2>1 DEF Delete, Busy, IInv, ActiveInv, Running, NoRow
  <2> QED
    BY <1>1, <2>1, <2>2 DEF IInv, ActiveInv, Running
<1> QED
  BY <1>3, <1>4, <1>5

LEMMA StoreStep == IInv /\ [Next]_vars => IInv'
<1>1. CASE UNCHANGED vars
  BY <1>1 DEF vars, bounds, IInv, ActiveInv, Running
<1>2. IInv /\ Next => IInv'
  BY OpeningStep, RecoveryStep, StartStep, RunStep, GoalStep, UserStep DEF Next
<1> QED
  BY <1>1, <1>2

(* Every message has the status of its run, a copy has none that is        *)
(* unfinished, and once the process is up only the active run is running:  *)
(* over every migration, quarantine, crash, recovery, fork and deletion,   *)
(* and for any number of conversations and runs.                           *)
THEOREM MessagesFollowRuns == Spec => []RowsAgree
<1>1. IInv => RowsAgree
  <2> SUFFICES ASSUME IInv PROVE RowsAgree
    OBVIOUS
  <2>1. ASSUME NEW m \in tables.messages
        PROVE  IF m.run = None THEN m.status \in Terminal ELSE m.status = tables.runs[m.run].status
    BY DEF IInv, Rows, OfItsRun
  <2> QED
    BY <2>1 DEF IInv, ActiveInv, Running, RowsAgree
<1> QED
  BY <1>1, StoreInit, StoreStep, PTL DEF Spec
-----------------------------------------------------------------------------
(* An exchange: the question at one ordinal and its answer at the next, as *)
(* finished as each other; an answer that is there is to its question.     *)
Exchange(q, a) ==
    /\ q.role = "user" /\ a.role = "assistant"
    /\ q.conversation = a.conversation /\ a.ordinal = q.ordinal + 1
    /\ q.run = a.run /\ q.status = a.status
    /\ q.text # None /\ a.text \in {None, q.text}
    /\ q.run # None => q.text = q.run
    /\ a.status = "completed" => a.text # None

Paired(t) ==
    \A m \in t.messages :
        \/ \E a \in t.messages : Exchange(m, a)
        \/ \E q \in t.messages : Exchange(q, m)

\* Ordinals are unique in a conversation, and a run has one question and one answer.
Unique(t) ==
    \A m, n \in t.messages :
        \/ m.conversation = n.conversation /\ m.ordinal = n.ordinal
        \/ m.run # None /\ m.run = n.run /\ m.role = n.role
        => m = n

Located(t) ==
    /\ t.conversations \in [Conversations -> {"absent", "active", "archived"}]
    /\ t.audits \subseteq Runs
    /\ \A m \in t.messages : /\ m.ordinal \in Nat \ {0}
                             /\ m.conversation \in Conversations
                             /\ t.conversations[m.conversation] # "absent"
    /\ \E k \in Nat : \A m \in t.messages : m.ordinal <= k

Whole(t) == Located(t) /\ Unique(t) /\ Paired(t)

\* The answer of a run that is about to be completed has been written.
ClosingInv ==
    active # None /\ active.closing = "completed" =>
        \A m \in tables.messages : m.run = active.run /\ m.role = "assistant" => m.text # None

ExchangeInv == Whole(tables) /\ ClosingInv

-----------------------------------------------------------------------------
(* Numbers and sets of messages.                                           *)
LEMMA SmallestNumber ==
    ASSUME NEW T \in SUBSET Nat, T # {}
    PROVE  \E x \in T : \A y \in T : x <= y
<1> DEFINE R == OpToRel(<, Nat)
<1>1. IsWellFoundedOn(R, Nat)
  BY NatLessThanWellFounded
<1>2. \A x, y \in Nat : y < x => <<y, x>> \in R
  BY DEF OpToRel
<1> HIDE DEF R
<1>3. PICK x \in T : \A y \in T : ~(<<y, x>> \in R)
  BY <1>1, WFMin
<1>4. \A y \in T : ~(y < x)
  BY <1>2, <1>3
<1> QED
  BY <1>4

LEMMA LargestNumber ==
    ASSUME NEW T \in SUBSET Nat, T # {}, NEW k \in Nat, \A y \in T : y <= k
    PROVE  Max(T) \in T /\ \A y \in T : y <= Max(T)
<1> DEFINE U == {b \in Nat : \A y \in T : y <= b}
<1>1. PICK b \in U : \A y \in U : b <= y
  <2>1. U \in SUBSET Nat /\ U # {}
    OBVIOUS
  <2> QED
    BY <2>1, SmallestNumber
<1>2. b \in T
  <2> SUFFICES ASSUME b \notin T PROVE FALSE
    OBVIOUS
  <2>1. PICK z \in T : TRUE
    OBVIOUS
  <2>2. z <= b /\ z # b
    BY <2>1
  <2>3. b - 1 \in Nat
    BY <2>2
  <2>4. \A y \in T : y <= b - 1
    OBVIOUS
  <2>5. b - 1 \in U
    BY <2>3, <2>4
  <2> QED
    BY <1>1, <2>5
<1>3. \E x \in T : \A y \in T : x >= y
  BY <1>1, <1>2
<1> QED
  BY <1>3 DEF Max

\* What ByOrdinal is given: messages with ordinals of their own.
Ordered(S) ==
    /\ \A m \in S : m.ordinal \in Nat
    /\ \A m, n \in S : m.ordinal = n.ordinal => m = n
    /\ \E k \in Nat : \A m \in S : m.ordinal <= k

UpTo(S, m) == {o \in S : o.ordinal <= m.ordinal}

LEMMA OrderedIsFinite ==
    ASSUME NEW S, Ordered(S)
    PROVE  IsFiniteSet(S)
<1> PICK k \in Nat : \A m \in S : m.ordinal <= k
  BY DEF Ordered
<1> DEFINE f == [m \in S |-> m.ordinal]
<1>1. f \in Injection(S, 0 .. k)
  BY DEF Ordered, Injection, IsInjective
<1>2. IsFiniteSet(0 .. k)
  BY FS_Interval
<1> QED
  BY <1>1, <1>2, FS_Injection

LEMMA RankIsInjective ==
    ASSUME NEW S, Ordered(S), NEW m \in S, NEW n \in S, m.ordinal < n.ordinal
    PROVE  /\ Cardinality(UpTo(S, m)) \in Nat /\ Cardinality(UpTo(S, n)) \in Nat
           /\ Cardinality(UpTo(S, m)) < Cardinality(UpTo(S, n))
<1>1. IsFiniteSet(UpTo(S, n)) /\ IsFiniteSet(UpTo(S, m))
  BY OrderedIsFinite, FS_Subset DEF UpTo
<1>2. UpTo(S, m) \subseteq UpTo(S, n) /\ n \in UpTo(S, n) /\ n \notin UpTo(S, m)
  BY DEF UpTo, Ordered
<1>3. /\ Cardinality(UpTo(S, m)) <= Cardinality(UpTo(S, n))
      /\ Cardinality(UpTo(S, m)) # Cardinality(UpTo(S, n))
  BY <1>1, <1>2, FS_Subset
<1> QED
  BY <1>1, <1>3, FS_CardinalityType

LEMMA RankType ==
    ASSUME NEW S, Ordered(S), NEW m \in S
    PROVE  Cardinality(UpTo(S, m)) \in 1 .. Cardinality(S)
<1>1. IsFiniteSet(S)
  BY OrderedIsFinite
<1>2. UpTo(S, m) \subseteq S /\ m \in UpTo(S, m)
  BY DEF UpTo, Ordered
<1>3. IsFiniteSet(UpTo(S, m)) /\ Cardinality(UpTo(S, m)) <= Cardinality(S)
  BY <1>1, <1>2, FS_Subset
<1>4. Cardinality(UpTo(S, m)) # 0
  BY <1>2, <1>3, FS_EmptySet
<1> QED
  BY <1>1, <1>3, <1>4, FS_CardinalityType

(* ByOrdinal lists every message once, and the next ordinal comes next.    *)
LEMMA ListedByOrdinal ==
    ASSUME NEW S, Ordered(S)
    PROVE  /\ Cardinality(S) \in Nat
           /\ ByOrdinal(S) \in [1 .. Cardinality(S) -> S]
           /\ \A k \in 1 .. Cardinality(S) : Cardinality(UpTo(S, ByOrdinal(S)[k])) = k
           /\ \A m \in S : ByOrdinal(S)[Cardinality(UpTo(S, m))] = m
<1> DEFINE n == Cardinality(S)
           rank == [m \in S |-> Cardinality(UpTo(S, m))]
<1>1. IsFiniteSet(S) /\ n \in Nat
  BY OrderedIsFinite, FS_CardinalityType
<1>2. rank \in [S -> 1 .. n]
  BY RankType
<1>3. ASSUME NEW a \in S, NEW b \in S, rank[a] = rank[b]
      PROVE  a = b
  <2>1. ~(a.ordinal < b.ordinal) /\ ~(b.ordinal < a.ordinal)
    BY <1>3, RankIsInjective
  <2> QED
    BY <2>1 DEF Ordered
<1>4. rank \in Injection(S, 1 .. n)
  BY <1>2, <1>3 DEF Injection, IsInjective
<1>5. IsFiniteSet(1 .. n) /\ Cardinality(1 .. n) = n
  BY <1>1, FS_Interval
<1>6. rank \in Surjection(S, 1 .. n)
  BY <1>1, <1>4, <1>5, FS_Injection
<1>7. \A k \in 1 .. n : \E m \in S : Cardinality(UpTo(S, m)) = k
  BY <1>6 DEF Surjection
<1>8. ByOrdinal(S) = [k \in 1 .. n |-> CHOOSE m \in S : Cardinality(UpTo(S, m)) = k]
  BY Zenon DEF ByOrdinal, UpTo
<1>9. \A k \in 1 .. n : ByOrdinal(S)[k] \in S /\ rank[ByOrdinal(S)[k]] = k
  <2> SUFFICES ASSUME NEW k \in 1 .. n
               PROVE  ByOrdinal(S)[k] \in S /\ rank[ByOrdinal(S)[k]] = k
    OBVIOUS
  <2> DEFINE first == CHOOSE m \in S : Cardinality(UpTo(S, m)) = k
  <2>1. first \in S /\ Cardinality(UpTo(S, first)) = k
    BY <1>7
  <2>2. ByOrdinal(S)[k] = first
    BY <1>8
  <2> HIDE DEF first
  <2> QED
    BY <2>1, <2>2
<1>10. ByOrdinal(S) \in [1 .. n -> S]
  BY <1>8, <1>9
<1>11. \A m \in S : ByOrdinal(S)[rank[m]] = m
  BY <1>2, <1>3, <1>9
<1>12. \A m \in S : rank[m] = Cardinality(UpTo(S, m))
  OBVIOUS
<1> HIDE DEF n, rank
<1> QED
  BY <1>1, <1>9, <1>10, <1>11, <1>12 DEF n

LEMMA NextByOrdinal ==
    ASSUME NEW S, Ordered(S), NEW q \in S, NEW a \in S, a.ordinal = q.ordinal + 1
    PROVE  Cardinality(UpTo(S, a)) = Cardinality(UpTo(S, q)) + 1
<1>1. IsFiniteSet(UpTo(S, q))
  BY OrderedIsFinite, FS_Subset DEF UpTo
<1>2. UpTo(S, a) = UpTo(S, q) \cup {a} /\ a \notin UpTo(S, q)
  BY DEF UpTo, Ordered
<1> QED
  BY <1>1, <1>2, FS_AddElement

-----------------------------------------------------------------------------
(* What the model is told.                                                 *)
LEMMA IncludedTogether ==
    ASSUME NEW t, Whole(t), NEW q \in t.messages, NEW a \in t.messages, Exchange(q, a)
    PROVE  Included(t, q) <=> Included(t, a)
<1>1. q.run = a.run /\ q.conversation = a.conversation /\ q.status = a.status /\ q.text # None
  BY DEF Exchange
<1>2. Summarised(t, q) <=> Summarised(t, a)
  BY <1>1 DEF Summarised
<1>3. ASSUME q.status = "interrupted", Summarised(t, q)
      PROVE  a.text # None
  <2>1. PICK s \in Of(t, q.conversation) : s.run = q.run /\ s.role = "assistant" /\ s.text # None
    BY <1>3 DEF Summarised
  <2>2. q.run # None
    BY <1>3, StoreAssumption DEF Summarised, Whole, Located
  <2>3. s \in t.messages /\ s.run = a.run /\ a.run # None /\ s.role = a.role
    BY <1>1, <2>1, <2>2 DEF Of, Exchange
  <2>4. s = a
    BY <2>3 DEF Whole, Unique
  <2> QED
    BY <2>1, <2>4
<1>4. a.status = "completed" => a.text # None
  BY DEF Exchange
<1> QED
  BY <1>1, <1>2, <1>3, <1>4 DEF Included

\* The rows of a conversation that are included, by ordinal.
Told(t, c) == {m \in Of(t, c) : Included(t, m)}

LEMMA ToldIsOrdered ==
    ASSUME NEW t, Whole(t), NEW c
    PROVE  Ordered(Told(t, c))
<1>1. \A m \in Told(t, c) : m \in t.messages /\ m.conversation = c
  BY DEF Told, Of
<1>2. \A m \in Told(t, c) : m.ordinal \in Nat
  BY <1>1 DEF Whole, Located
<1>3. \A m, n \in Told(t, c) : m.ordinal = n.ordinal => m = n
  BY <1>1 DEF Whole, Unique
<1>4. \E k \in Nat : \A m \in Told(t, c) : m.ordinal <= k
  BY <1>1 DEF Whole, Located
<1> QED
  BY <1>2, <1>3, <1>4 DEF Ordered

\* In a sequence of rows a question is followed by its answer, an answer follows its question.
Alternating(s) ==
    \A i \in DOMAIN s :
        \/ s[i].role = "user" /\ i + 1 \in DOMAIN s /\ Exchange(s[i], s[i + 1])
        \/ s[i].role = "assistant" /\ i - 1 \in DOMAIN s /\ Exchange(s[i - 1], s[i])

LEMMA ToldAlternates ==
    ASSUME NEW t, Whole(t), NEW c
    PROVE  /\ Alternating(ByOrdinal(Told(t, c)))
           /\ ByOrdinal(Told(t, c)) \in Seq(Told(t, c))
<1> DEFINE S == Told(t, c)
           rows == ByOrdinal(S)
           n == Cardinality(S)
<1>1. Ordered(S)
  BY ToldIsOrdered
<1>2. /\ n \in Nat /\ rows \in [1 .. n -> S]
      /\ \A k \in 1 .. n : Cardinality(UpTo(S, rows[k])) = k
      /\ \A m \in S : rows[Cardinality(UpTo(S, m))] = m
  BY <1>1, ListedByOrdinal
<1>3. \A m \in S : m \in t.messages /\ m.conversation = c /\ Included(t, m)
  BY DEF Told, Of
<1>4. \A m \in t.messages : m.conversation = c /\ Included(t, m) => m \in S
  BY DEF Told, Of
<1>5. \A m \in S : Cardinality(UpTo(S, m)) \in 1 .. n
  BY <1>1, RankType
<1>6. ASSUME NEW q \in S, NEW a \in S, Exchange(q, a)
      PROVE  Cardinality(UpTo(S, a)) = Cardinality(UpTo(S, q)) + 1
  BY <1>1, <1>6, NextByOrdinal DEF Exchange
<1> HIDE DEF S, rows, n
<1>7. ASSUME NEW i \in 1 .. n
      PROVE  \/ rows[i].role = "user" /\ i + 1 \in 1 .. n /\ Exchange(rows[i], rows[i + 1])
             \/ rows[i].role = "assistant" /\ i - 1 \in 1 .. n /\ Exchange(rows[i - 1], rows[i])
  <2> DEFINE m == rows[i]
  <2>1. m \in S /\ Cardinality(UpTo(S, m)) = i /\ m \in t.messages
    BY <1>2, <1>3
  <2> HIDE DEF m
  <2>2. CASE \E a \in t.messages : Exchange(m, a)
    <3>1. PICK a \in t.messages : Exchange(m, a)
      BY <2>2
    <3>2. a \in S
      BY <1>3, <1>4, <2>1, <3>1, IncludedTogether DEF Exchange
    <3>3. Cardinality(UpTo(S, a)) = i + 1
      BY <1>6, <2>1, <3>1, <3>2
    <3>4. rows[i + 1] = a /\ i + 1 \in 1 .. n
      BY <1>2, <1>5, <3>2, <3>3
    <3> QED
      BY <3>1, <3>4 DEF Exchange, m
  <2>3. CASE \E q \in t.messages : Exchange(q, m)
    <3>1. PICK q \in t.messages : Exchange(q, m)
      BY <2>3
    <3>2. q \in S
      BY <1>3, <1>4, <2>1, <3>1, IncludedTogether DEF Exchange
    <3>3. i = Cardinality(UpTo(S, q)) + 1 /\ Cardinality(UpTo(S, q)) \in 1 .. n
      BY <1>5, <1>6, <2>1, <3>1, <3>2
    <3>4. rows[i - 1] = q /\ i - 1 \in 1 .. n
      BY <1>2, <3>2, <3>3
    <3> QED
      BY <3>1, <3>4 DEF Exchange, m
  <2> QED
    BY <2>1, <2>2, <2>3 DEF Whole, Paired
<1>8. DOMAIN rows = 1 .. n
  BY <1>2
<1>9. Alternating(rows)
  BY <1>7, <1>8 DEF Alternating
<1>10. rows \in Seq(S)
  BY <1>2
<1> QED
  BY <1>9, <1>10 DEF rows, S

LEMMA Parity ==
    ASSUME NEW i \in Nat, i > 1
    PROVE  (i - 1) % 2 = 1 <=> i % 2 # 1
OBVIOUS

(* From a question on, a suffix of such rows is questions at odd places    *)
(* and answers at even ones.                                               *)
LEMMA SuffixAlternates ==
    ASSUME NEW S, NEW rows \in Seq(S), Alternating(rows), NEW history \in Seq(S), NEW b \in Nat,
           Len(rows) = b + Len(history),
           \A i \in 1 .. Len(history) : history[i] = rows[b + i],
           history # <<>> => history[1].role = "user"
    PROVE  \A i \in DOMAIN history :
               IF i % 2 = 1 THEN history[i].role = "user" /\ i < Len(history) /\ Exchange(history[i], history[i + 1])
               ELSE history[i].role = "assistant" /\ i > 1 /\ Exchange(history[i - 1], history[i])
<1> DEFINE L == Len(history)
           role(i) == IF i % 2 = 1 THEN "user" ELSE "assistant"
           T == {i \in 1 .. L : history[i].role # role(i)}
<1>1. L \in Nat /\ DOMAIN history = 1 .. L /\ DOMAIN rows = 1 .. (b + L)
  OBVIOUS
<1>2. \A i \in 1 .. L :
        \/ /\ history[i].role = "user" /\ i + 1 \in 1 .. L /\ Exchange(history[i], history[i + 1])
        \/ /\ history[i].role = "assistant"
           /\ i > 1 => Exchange(history[i - 1], history[i])
  <2> SUFFICES ASSUME NEW i \in 1 .. L
               PROVE  \/ /\ history[i].role = "user" /\ i + 1 \in 1 .. L /\ Exchange(history[i], history[i + 1])
                      \/ /\ history[i].role = "assistant"
                         /\ i > 1 => Exchange(history[i - 1], history[i])
    OBVIOUS
  <2>1. b + i \in DOMAIN rows /\ history[i] = rows[b + i]
    BY <1>1
  <2>2. CASE /\ rows[b + i].role = "user" /\ b + i + 1 \in DOMAIN rows
             /\ Exchange(rows[b + i], rows[b + i + 1])
    <3>1. i + 1 \in 1 .. L /\ b + (i + 1) = b + i + 1
      BY <1>1, <2>2
    <3>2. history[i + 1] = rows[b + i + 1]
      BY <3>1
    <3> QED
      BY <2>1, <2>2, <3>1, <3>2
  <2>3. CASE rows[b + i].role = "assistant" /\ Exchange(rows[b + i - 1], rows[b + i])
    <3>1. i > 1 => i - 1 \in 1 .. L /\ b + (i - 1) = b + i - 1
      BY <1>1
    <3>2. i > 1 => history[i - 1] = rows[b + i - 1]
      BY <3>1
    <3> QED
      BY <2>1, <2>3, <3>2
  <2> QED
    BY <2>1, <2>2, <2>3 DEF Alternating
<1>3. T = {}
  <2> SUFFICES ASSUME T # {} PROVE FALSE
    OBVIOUS
  <2>1. T \in SUBSET Nat
    OBVIOUS
  <2>2. PICK i \in T : \A j \in T : i <= j
    BY <2>1, SmallestNumber
  <2>3. i \in 1 .. L /\ history[i].role # role(i)
    OBVIOUS
  <2>4. i # 1
    BY <1>1, <2>3
  <2>5. i - 1 \in 1 .. L /\ i - 1 \notin T
    BY <2>2, <2>3, <2>4
  <2>6. history[i - 1].role = role(i - 1)
    BY <2>5
  <2> HIDE DEF T
  <2>7. CASE i % 2 = 1
    <3>1. (i - 1) % 2 # 1
      BY <2>3, <2>4, <2>7, Parity
    <3>2. history[i - 1].role = "assistant" /\ history[i].role # "user"
      BY <2>3, <2>6, <2>7, <3>1
    <3>3. Exchange(history[i - 1], history[i])
      BY <1>2, <2>3, <2>4, <3>2
    <3> QED
      BY <3>2, <3>3 DEF Exchange
  <2>8. CASE i % 2 # 1
    <3>1. (i - 1) % 2 = 1
      BY <2>3, <2>4, <2>8, Parity
    <3>2. history[i - 1].role = "user" /\ history[i].role # "assistant"
      BY <2>3, <2>6, <2>8, <3>1
    <3>3. Exchange(history[i - 1], history[i - 1 + 1])
      BY <1>2, <2>5, <3>2
    <3> QED
      BY <2>3, <3>2, <3>3 DEF Exchange
  <2> QED
    BY <2>7, <2>8
<1> SUFFICES ASSUME NEW i \in 1 .. L
             PROVE  IF i % 2 = 1 THEN history[i].role = "user" /\ i < L /\ Exchange(history[i], history[i + 1])
                    ELSE history[i].role = "assistant" /\ i > 1 /\ Exchange(history[i - 1], history[i])
  BY <1>1
<1>4. history[i].role = role(i)
  BY <1>3
<1>5. i % 2 # 1 => i > 1
  OBVIOUS
<1> HIDE DEF T
<1> QED
  BY <1>1, <1>2, <1>4, <1>5

LEMMA SubSeqFacts ==
    ASSUME NEW S, NEW s \in Seq(S), NEW m \in 1 .. Len(s) + 1
    PROVE  /\ SubSeq(s, m, Len(s)) \in Seq(S)
           /\ Len(SubSeq(s, m, Len(s))) = Len(s) - m + 1
           /\ \A i \in 1 .. (Len(s) - m + 1) : SubSeq(s, m, Len(s))[i] = s[m - 1 + i]
<1>1. Len(s) \in Nat /\ DOMAIN s = 1 .. Len(s) /\ \A i \in 1 .. Len(s) : s[i] \in S
  OBVIOUS
<1>2. SubSeq(s, m, Len(s)) = [i \in 1 .. (Len(s) - m + 1) |-> s[i + m - 1]]
  BY <1>1
<1>3. \A i \in 1 .. (Len(s) - m + 1) : i + m - 1 \in 1 .. Len(s) /\ i + m - 1 = m - 1 + i
  BY <1>1
<1>4. [i \in 1 .. (Len(s) - m + 1) |-> s[i + m - 1]] \in Seq(S)
  BY <1>1, <1>3
<1> QED
  BY <1>1, <1>2, <1>3, <1>4

LEMMA WholeHistory ==
    ASSUME NEW t, Whole(t), NEW c, NEW limit \in Nat \ {0}
    PROVE  LET history == ModelHistory(t, c, limit)
           IN \A i \in DOMAIN history :
               IF i % 2 = 1
               THEN history[i].role = "user" /\ i < Len(history)
               ELSE history[i].role = "assistant" /\ history[i].text = history[i - 1].text
<1> DEFINE S == Told(t, c)
           rows == ByOrdinal(S)
           cut == Len(rows) - (IF limit < Len(rows) THEN limit ELSE Len(rows)) + 1
           window == SubSeq(rows, cut, Len(rows))
           history == FromUser(window)
           users == {i \in DOMAIN window : window[i].role = "user"}
<1>1. rows \in Seq(S) /\ Alternating(rows)
  BY ToldAlternates
<1>2. history = ModelHistory(t, c, limit)
  BY DEF ModelHistory, Told
<1> HIDE DEF rows
<1>3. Len(rows) \in Nat /\ cut \in 1 .. Len(rows) + 1
  <2>1. Len(rows) \in Nat
    BY <1>1
  <2>2. CASE limit < Len(rows)
    <3>1. cut = Len(rows) - limit + 1
      BY <2>2
    <3> QED
      BY <2>1, <2>2, <3>1
  <2>3. CASE ~(limit < Len(rows))
    <3>1. cut = Len(rows) - Len(rows) + 1
      BY <2>3
    <3> HIDE DEF cut
    <3> QED
      BY <2>1, <3>1
  <2> QED
    BY <2>2, <2>3
<1> HIDE DEF cut
<1>4. /\ window \in Seq(S) /\ Len(window) = Len(rows) - cut + 1
      /\ \A i \in 1 .. Len(window) : window[i] = rows[cut - 1 + i]
  BY <1>1, <1>3, SubSeqFacts
<1> HIDE DEF window
<1>5. CASE users = {}
  <2>1. history = <<>>
    BY <1>5 DEF FromUser
  <2>2. DOMAIN history = {}
    BY <2>1
  <2> QED
    BY <1>2, <2>2
<1>6. CASE users # {}
  <2> DEFINE from == CHOOSE i \in users : \A j \in users : i <= j
  <2>1. users \in SUBSET Nat /\ users \subseteq 1 .. Len(window)
    BY <1>4
  <2>2. \E i \in users : \A j \in users : i <= j
    BY <1>6, <2>1, SmallestNumber
  <2>3. from \in users
    BY <2>2
  <2>4. history = SubSeq(window, from, Len(window))
    BY <1>6 DEF FromUser
  <2> HIDE DEF from, users
  <2>5. from \in 1 .. Len(window) /\ window[from].role = "user"
    BY <2>1, <2>3 DEF users
  <2>6. /\ history \in Seq(S) /\ Len(history) = Len(window) - from + 1
        /\ \A i \in 1 .. Len(history) : history[i] = window[from - 1 + i]
    BY <1>4, <2>4, <2>5, SubSeqFacts
  <2> HIDE DEF history
  <2> DEFINE b == (cut - 1) + (from - 1)
  <2>7. b \in Nat /\ Len(rows) = b + Len(history) /\ Len(history) \in Nat
    BY <1>3, <1>4, <2>5, <2>6
  <2>8. \A i \in 1 .. Len(history) : history[i] = rows[b + i]
    <3> SUFFICES ASSUME NEW i \in 1 .. Len(history)
                 PROVE  history[i] = rows[b + i]
      OBVIOUS
    <3>1. from - 1 + i \in 1 .. Len(window) /\ cut - 1 + (from - 1 + i) = b + i
      BY <1>3, <1>4, <2>5, <2>6
    <3> QED
      BY <1>4, <2>6, <3>1
  <2>9. history[1].role = "user"
    BY <1>3, <1>4, <2>5, <2>6, <2>8
  <2> HIDE DEF b
  <2>10. \A i \in DOMAIN history :
           IF i % 2 = 1 THEN history[i].role = "user" /\ i < Len(history) /\ Exchange(history[i], history[i + 1])
           ELSE history[i].role = "assistant" /\ i > 1 /\ Exchange(history[i - 1], history[i])
    BY <1>1, <2>6, <2>7, <2>8, <2>9, SuffixAlternates
  <2>11. \A i \in DOMAIN history : history[i].text # None
    BY <2>6 DEF Told, Included
  <2>12. \A i \in DOMAIN history :
           IF i % 2 = 1 THEN history[i].role = "user" /\ i < Len(history)
           ELSE history[i].role = "assistant" /\ history[i].text = history[i - 1].text
    BY <2>10, <2>11 DEF Exchange
  <2> QED
    BY <1>2, <2>12
<1> QED
  BY <1>5, <1>6

-----------------------------------------------------------------------------
(* The transactions keep the exchanges whole.                              *)
LEMMA EmptyWhole == Whole(Empty)
BY DEF Whole, Located, Unique, Paired, Empty

\* Messages are rewritten where they are, answers with their questions.
LEMMA RewrittenWhole ==
    ASSUME NEW t, Whole(t), NEW u, NEW f,
           u.conversations = t.conversations, u.audits \subseteq Runs,
           u.messages = {f[m] : m \in t.messages},
           \A m \in t.messages : /\ f[m].conversation = m.conversation /\ f[m].ordinal = m.ordinal
                                 /\ f[m].role = m.role /\ f[m].run = m.run,
           \A q, a \in t.messages : Exchange(q, a) => Exchange(f[q], f[a])
    PROVE  Whole(u)
<1>1. Located(u)
  BY DEF Whole, Located
<1>2. Unique(u)
  <2> SUFFICES ASSUME NEW m \in t.messages, NEW n \in t.messages,
                      \/ f[m].conversation = f[n].conversation /\ f[m].ordinal = f[n].ordinal
                      \/ f[m].run # None /\ f[m].run = f[n].run /\ f[m].role = f[n].role
               PROVE  f[m] = f[n]
    BY DEF Unique
  <2>1. \/ m.conversation = n.conversation /\ m.ordinal = n.ordinal
        \/ m.run # None /\ m.run = n.run /\ m.role = n.role
    OBVIOUS
  <2> QED
    BY <2>1 DEF Whole, Unique
<1>3. Paired(u)
  <2> SUFFICES ASSUME NEW m \in t.messages
               PROVE  \/ \E a \in u.messages : Exchange(f[m], a)
                      \/ \E q \in u.messages : Exchange(q, f[m])
    BY DEF Paired
  <2>1. CASE \E a \in t.messages : Exchange(m, a)
    BY <2>1
  <2>2. CASE \E q \in t.messages : Exchange(q, m)
    BY <2>2
  <2> QED
    BY <2>1, <2>2 DEF Whole, Paired
<1> QED
  BY <1>1, <1>2, <1>3 DEF Whole

LEMMA AnsweredWhole ==
    ASSUME NEW t, Rows(t), Whole(t), NEW r \in Runs
    PROVE  /\ Whole(WithAnswer(t, r))
           /\ \A m \in WithAnswer(t, r).messages : m.run = r /\ m.role = "assistant" => m.text = r
<1> DEFINE u == WithAnswer(t, r)
           f == [m \in t.messages |->
                   IF m.run = r /\ m.role = "assistant" THEN [m EXCEPT !.text = r] ELSE m]
<1>1. /\ u.conversations = t.conversations /\ u.audits = t.audits
      /\ u.messages = {f[m] : m \in t.messages}
  BY DEF Rows, HasTables, WithAnswer
<1>2. ASSUME NEW m \in t.messages
      PROVE  /\ f[m].conversation = m.conversation /\ f[m].ordinal = m.ordinal
             /\ f[m].role = m.role /\ f[m].run = m.run /\ f[m].status = m.status
             /\ f[m].text = IF m.run = r /\ m.role = "assistant" THEN r ELSE m.text
  BY DEF Rows, IsMessage
<1> HIDE DEF f, u
<1>3. ASSUME NEW q \in t.messages, NEW a \in t.messages, Exchange(q, a)
      PROVE  Exchange(f[q], f[a])
  <2>1. r # None
    BY StoreAssumption DEF Runs
  <2> QED
    BY <1>2, <1>3, <2>1 DEF Exchange
<1>4. u.audits \subseteq Runs
  BY <1>1 DEF Whole, Located
<1>5. Whole(u)
  BY <1>1, <1>2, <1>3, <1>4, RewrittenWhole
<1>6. \A m \in u.messages : m.run = r /\ m.role = "assistant" => m.text = r
  BY <1>1, <1>2
<1> QED
  BY <1>5, <1>6 DEF u

LEMMA FinishedWhole ==
    ASSUME NEW t, Rows(t), Whole(t), NEW r \in Runs, NEW status \in Terminal,
           status = "completed" =>
             \A m \in t.messages : m.run = r /\ m.role = "assistant" => m.text # None
    PROVE  Whole(FinishedRun(t, r, status))
<1> DEFINE u == FinishedRun(t, r, status)
           f == [m \in t.messages |->
                   IF m.run = r /\ m.status \in Unfinished THEN [m EXCEPT !.status = status] ELSE m]
<1>1. /\ u.conversations = t.conversations /\ u.audits = t.audits
      /\ u.messages = {f[m] : m \in t.messages}
  BY DEF Rows, HasTables, FinishedRun
<1>2. ASSUME NEW m \in t.messages
      PROVE  /\ f[m].conversation = m.conversation /\ f[m].ordinal = m.ordinal
             /\ f[m].role = m.role /\ f[m].run = m.run /\ f[m].text = m.text
             /\ f[m].status = IF m.run = r /\ m.status \in Unfinished THEN status ELSE m.status
  BY DEF Rows, IsMessage
<1> HIDE DEF f, u
<1>3. ASSUME NEW q \in t.messages, NEW a \in t.messages, Exchange(q, a)
      PROVE  Exchange(f[q], f[a])
  BY <1>2, <1>3 DEF Exchange
<1>4. u.audits \subseteq Runs
  BY <1>1 DEF Whole, Located
<1>5. Whole(u)
  BY <1>1, <1>2, <1>3, <1>4, RewrittenWhole
<1> QED
  BY <1>5 DEF u

LEMMA SummarisedWhole ==
    ASSUME NEW t, Rows(t), Whole(t), NEW r \in Runs
    PROVE  Whole(SummarisedRun(t, r))
<1> DEFINE v == FinishedRun(WithAnswer(t, r), r, "interrupted")
           u == SummarisedRun(t, r)
<1>1. Rows(WithAnswer(t, r)) /\ Whole(WithAnswer(t, r))
  BY AnsweredRows, AnsweredWhole
<1>2. Whole(v)
  BY <1>1, FinishedWhole DEF Terminal
<1>3. HasTables(v)
  <2>1. HasTables(WithAnswer(t, r))
    BY <1>1 DEF Rows
  <2> QED
    BY <2>1 DEF HasTables, FinishedRun
<1>4. u = [v EXCEPT !.audits = @ \cup {r}]
  BY DEF SummarisedRun
<1> HIDE DEF u, v
<1>5. /\ u.conversations = v.conversations /\ u.messages = v.messages
      /\ u.audits = v.audits \cup {r}
  BY <1>3, <1>4 DEF HasTables
<1>6. Whole(u)
  BY <1>2, <1>5 DEF Whole, Located, Unique, Paired
<1> QED
  BY <1>6 DEF u

LEMMA RecoveredWhole ==
    ASSUME NEW t, Rows(t), Whole(t)
    PROVE  Whole(Recovered(t))
<1> DEFINE u == Recovered(t)
           f == [m \in t.messages |->
                   IF m.status \in Unfinished THEN [m EXCEPT !.status = "interrupted"] ELSE m]
<1>1. /\ u.conversations = t.conversations /\ u.audits = t.audits
      /\ u.messages = {f[m] : m \in t.messages}
  BY DEF Rows, HasTables, Recovered
<1>2. ASSUME NEW m \in t.messages
      PROVE  /\ f[m].conversation = m.conversation /\ f[m].ordinal = m.ordinal
             /\ f[m].role = m.role /\ f[m].run = m.run /\ f[m].text = m.text
             /\ f[m].status = IF m.status \in Unfinished THEN "interrupted" ELSE m.status
  BY DEF Rows, IsMessage
<1> HIDE DEF f, u
<1>3. ASSUME NEW q \in t.messages, NEW a \in t.messages, Exchange(q, a)
      PROVE  Exchange(f[q], f[a])
  BY <1>2, <1>3 DEF Exchange
<1>4. u.audits \subseteq Runs
  BY <1>1 DEF Whole, Located
<1>5. Whole(u)
  BY <1>1, <1>2, <1>3, <1>4, RewrittenWhole
<1> QED
  BY <1>5 DEF u

LEMMA DeletedWhole ==
    ASSUME NEW t, Rows(t), Whole(t), NEW c \in Conversations
    PROVE  Whole(Deleted(t, c))
<1> DEFINE u == Deleted(t, c)
           gone == {r \in Runs : t.runs[r].conversation = c}
<1>1. /\ u.conversations = [t.conversations EXCEPT ![c] = "absent"]
      /\ u.audits = t.audits \ gone
      /\ u.messages = t.messages \ Of(t, c)
  BY DEF Rows, HasTables, Deleted
<1> HIDE DEF u, gone
<1>2. \A m : m \in u.messages <=> m \in t.messages /\ m.conversation # c
  BY <1>1 DEF Of
<1>3. Located(u)
  BY <1>1, <1>2 DEF Whole, Located
<1>4. Unique(u)
  BY <1>2 DEF Whole, Unique
<1>5. Paired(u)
  BY <1>2 DEF Whole, Paired, Exchange
<1>6. Whole(u)
  BY <1>3, <1>4, <1>5 DEF Whole
<1> QED
  BY <1>6 DEF u

\* A copy of an exchange is an exchange, as finished as a copy can be.
LEMMA ForkedWhole ==
    ASSUME NEW t, Rows(t), Whole(t), NEW c \in Conversations, NEW target \in Conversations,
           t.conversations[target] = "absent"
    PROVE  Whole(Forked(t, c, target))
<1> DEFINE u == Forked(t, c, target)
           f == [m \in Of(t, c) |-> Copied(t, m, target)]
<1>1. /\ u.conversations = [t.conversations EXCEPT ![target] = "active"]
      /\ u.audits = t.audits
      /\ u.messages = t.messages \cup {f[m] : m \in Of(t, c)}
  BY DEF Rows, HasTables, Forked
<1>2. ASSUME NEW m \in Of(t, c)
      PROVE  /\ m \in t.messages /\ m.conversation = c
             /\ f[m].conversation = target /\ f[m].ordinal = m.ordinal
             /\ f[m].role = m.role /\ f[m].run = None /\ f[m].text = m.text
             /\ f[m].status = IF m.status \in Unfinished THEN "interrupted" ELSE m.status
  <2>1. m \in t.messages /\ m.conversation = c
    BY DEF Of
  <2>2. IsMessage(m)
    BY <2>1 DEF Rows
  <2> QED
    BY <2>1, <2>2 DEF Copied, IsMessage
<1>3. \A m \in t.messages : m.conversation # target
  BY DEF Whole, Located
<1>4. \A m \in t.messages : m.conversation = c => m \in Of(t, c)
  BY DEF Of
<1> HIDE DEF f, u
<1>5. ASSUME NEW q \in Of(t, c), NEW a \in Of(t, c), Exchange(q, a)
      PROVE  Exchange(f[q], f[a])
  BY <1>2, <1>5 DEF Exchange
<1>6. Located(u)
  <2>1. u.conversations \in [Conversations -> {"absent", "active", "archived"}] /\ u.audits \subseteq Runs
    BY <1>1 DEF Whole, Located
  <2>2. ASSUME NEW m \in u.messages
        PROVE  /\ m.ordinal \in Nat \ {0} /\ m.conversation \in Conversations
               /\ u.conversations[m.conversation] # "absent"
    <3>1. CASE m \in t.messages
      BY <1>1, <3>1 DEF Whole, Located
    <3>2. CASE \E o \in Of(t, c) : m = f[o]
      BY <1>1, <1>2, <3>2 DEF Whole, Located
    <3> QED
      BY <1>1, <3>1, <3>2
  <2>3. \E k \in Nat : \A m \in u.messages : m.ordinal <= k
    BY <1>1, <1>2 DEF Whole, Located
  <2> QED
    BY <2>1, <2>2, <2>3 DEF Located
<1>7. Unique(u)
  <2> SUFFICES ASSUME NEW m \in u.messages, NEW n \in u.messages,
                      \/ m.conversation = n.conversation /\ m.ordinal = n.ordinal
                      \/ m.run # None /\ m.run = n.run /\ m.role = n.role
               PROVE  m = n
    BY DEF Unique
  <2>1. CASE m \in t.messages /\ n \in t.messages
    BY <2>1 DEF Whole, Unique
  <2>2. CASE \E o, p \in Of(t, c) : m = f[o] /\ n = f[p]
    <3>1. PICK o \in Of(t, c), p \in Of(t, c) : m = f[o] /\ n = f[p]
      BY <2>2
    <3>2. o.ordinal = p.ordinal /\ o.conversation = p.conversation
      BY <1>2, <3>1
    <3>3. o = p
      BY <1>2, <3>2 DEF Whole, Unique
    <3> QED
      BY <3>1, <3>3
  <2>3. CASE m \in t.messages /\ \E p \in Of(t, c) : n = f[p]
    BY <1>2, <1>3, <2>3
  <2>4. CASE n \in t.messages /\ \E p \in Of(t, c) : m = f[p]
    BY <1>2, <1>3, <2>4
  <2> QED
    BY <1>1, <2>1, <2>2, <2>3, <2>4
<1>8. Paired(u)
  <2> SUFFICES ASSUME NEW m \in u.messages
               PROVE  \/ \E a \in u.messages : Exchange(m, a)
                      \/ \E q \in u.messages : Exchange(q, m)
    BY DEF Paired
  <2>1. CASE m \in t.messages
    BY <1>1, <2>1 DEF Whole, Paired
  <2>2. CASE \E o \in Of(t, c) : m = f[o]
    <3>1. PICK o \in Of(t, c) : m = f[o]
      BY <2>2
    <3>2. o \in t.messages /\ o.conversation = c
      BY <1>2
    <3>3. CASE \E a \in t.messages : Exchange(o, a)
      <4>1. PICK a \in t.messages : Exchange(o, a)
        BY <3>3
      <4>2. a \in Of(t, c)
        BY <1>4, <3>2, <4>1 DEF Exchange
      <4> QED
        BY <1>1, <1>5, <3>1, <4>1, <4>2
    <3>4. CASE \E q \in t.messages : Exchange(q, o)
      <4>1. PICK q \in t.messages : Exchange(q, o)
        BY <3>4
      <4>2. q \in Of(t, c)
        BY <1>4, <3>2, <4>1 DEF Exchange
      <4> QED
        BY <1>1, <1>5, <3>1, <4>1, <4>2
    <3> QED
      BY <3>2, <3>3, <3>4 DEF Whole, Paired
  <2> QED
    BY <1>1, <2>1, <2>2
<1>9. Whole(u)
  BY <1>6, <1>7, <1>8 DEF Whole
<1> QED
  BY <1>9 DEF u

LEMMA NotedWhole ==
    ASSUME NEW t, Rows(t), Whole(t), NEW owner, NEW r
    PROVE  Whole(Noted(t, owner, r)) /\ Noted(t, owner, r).messages = t.messages
<1> DEFINE u == Noted(t, owner, r)
<1>1. u.conversations = t.conversations /\ u.audits = t.audits /\ u.messages = t.messages
  BY DEF Rows, HasTables, Noted
<1> QED
  BY <1>1 DEF Whole, Located, Unique, Paired

\* A new exchange comes after all others of its conversation.
LEMMA InitializedWhole ==
    ASSUME NEW t, Rows(t), Whole(t), NEW c \in Conversations, NEW r \in Runs, t.runs[r] = NoRow
    PROVE  Whole(InitializedRun(t, c, r))
<1> DEFINE u == InitializedRun(t, c, r)
           next == NextOrdinal(t, c)
           first == Message(c, next, "user", r, "running", r)
           second == Message(c, next + 1, "assistant", r, "running", None)
           ordinals == {0} \cup {m.ordinal : m \in Of(t, c)}
<1>1. /\ u.conversations = [t.conversations EXCEPT ![c] = "active"]
      /\ u.audits = t.audits
      /\ u.messages = t.messages \cup {first, second}
  BY DEF Rows, HasTables, InitializedRun, Ensured
<1>2. next \in Nat \ {0} /\ \A m \in t.messages : m.conversation = c => m.ordinal < next
  <2>1. PICK k \in Nat : \A m \in t.messages : m.ordinal <= k
    BY DEF Whole, Located
  <2>2. ordinals \in SUBSET Nat /\ ordinals # {} /\ \A y \in ordinals : y <= k
    BY <2>1 DEF Of, Whole, Located
  <2>3. Max(ordinals) \in ordinals /\ \A y \in ordinals : y <= Max(ordinals)
    BY <2>2, LargestNumber
  <2>4. next = Max(ordinals) + 1
    BY DEF NextOrdinal
  <2>5. \A m \in t.messages : m.conversation = c => m.ordinal \in ordinals
    BY DEF Of
  <2> DEFINE last == Max(ordinals)
  <2>6. last \in Nat /\ next = last + 1 /\ \A y \in ordinals : y <= last /\ y \in Nat
    BY <2>2, <2>3, <2>4
  <2> HIDE DEF ordinals, next, last
  <2> QED
    BY <2>5, <2>6
<1>3. \A m \in t.messages : m.run # r
  <2> SUFFICES ASSUME NEW m \in t.messages, m.run = r PROVE FALSE
    OBVIOUS
  <2>1. r # None
    BY StoreAssumption DEF Runs
  <2> QED
    BY <2>1 DEF Rows, IsMessage, OfItsRun, NoRow, RunStatuses, Terminal
<1>4. /\ first.conversation = c /\ first.ordinal = next /\ first.role = "user" /\ first.run = r
      /\ second.conversation = c /\ second.ordinal = next + 1 /\ second.role = "assistant"
      /\ second.run = r
      /\ Exchange(first, second)
  <2>1. r # None
    BY StoreAssumption DEF Runs
  <2> HIDE DEF next
  <2> QED
    BY <2>1 DEF Message, Exchange
<1> HIDE DEF first, second, next, u, ordinals
<1>5. Located(u)
  <2>1. u.conversations \in [Conversations -> {"absent", "active", "archived"}] /\ u.audits \subseteq Runs
    BY <1>1 DEF Whole, Located
  <2>2. \A m \in u.messages : /\ m.ordinal \in Nat \ {0} /\ m.conversation \in Conversations
                              /\ u.conversations[m.conversation] # "absent"
    BY <1>1, <1>2, <1>4 DEF Whole, Located
  <2>3. \E k \in Nat : \A m \in u.messages : m.ordinal <= k
    <3>1. PICK k \in Nat : \A m \in t.messages : m.ordinal <= k
      BY DEF Whole, Located
    <3>2. k + next + 1 \in Nat /\ \A m \in u.messages : m.ordinal <= k + next + 1
      BY <1>1, <1>2, <1>4, <3>1 DEF Whole, Located
    <3> QED
      BY <3>2
  <2> QED
    BY <2>1, <2>2, <2>3 DEF Located
<1>6. Unique(u)
  BY <1>1, <1>2, <1>3, <1>4 DEF Whole, Located, Unique
<1>7. Paired(u)
  BY <1>1, <1>4 DEF Whole, Paired
<1>8. Whole(u)
  BY <1>5, <1>6, <1>7 DEF Whole
<1> QED
  BY <1>8 DEF u

LEMMA ExchangeInit == Init => ExchangeInv
<1> SUFFICES ASSUME Init PROVE Whole(tables)
  BY DEF Init, ExchangeInv, ClosingInv
<1>1. CASE tables = Empty
  BY <1>1, EmptyWhole
<1>2. ASSUME NEW c \in Conversations, NEW ending \in {"answered", "summarised", "begun"},
             NEW owner, tables \in {Left(c, ending), Noted(Left(c, ending), owner, 1)}
      PROVE  Whole(tables)
  <2> DEFINE first == InitializedRun(Empty, c, 1)
             answered == WithAnswer(first, 1)
             left == Left(c, ending)
  <2>1. 1 \in Runs /\ Empty.runs = [r \in Runs |-> NoRow]
    BY StoreAssumption DEF Runs, Empty
  <2>2. Rows(first) /\ Whole(first) /\ first.runs[1].status = "running"
    <3>1. Rows(first) /\ first.runs = [Empty.runs EXCEPT ![1] = [conversation |-> c, status |-> "running"]]
      BY <2>1, EmptyRows, InitializedRows
    <3>2. Whole(first)
      BY <2>1, EmptyRows, EmptyWhole, InitializedWhole
    <3> QED
      BY <2>1, <3>1, <3>2
  <2> HIDE DEF first, answered
  <2>3. Rows(answered) /\ Whole(answered) /\ answered.runs = first.runs
        /\ \A m \in answered.messages : m.run = 1 /\ m.role = "assistant" => m.text = 1
    BY <2>1, <2>2, AnsweredRows, AnsweredWhole DEF answered
  <2>4. /\ Rows(FinishedRun(answered, 1, "completed")) /\ Whole(FinishedRun(answered, 1, "completed"))
    <3>1. "completed" \in Terminal /\ 1 # None
      BY <2>1, StoreAssumption DEF Terminal
    <3> QED
      BY <2>1, <2>2, <2>3, <3>1, FinishedRows, FinishedWhole
  <2>5. Rows(SummarisedRun(first, 1)) /\ Whole(SummarisedRun(first, 1))
    BY <2>1, <2>2, SummarisedRows, SummarisedWhole
  <2>6. left \in {FinishedRun(answered, 1, "completed"), SummarisedRun(first, 1), first}
    BY DEF Left, first, answered
  <2> HIDE DEF left
  <2>7. Rows(left) /\ Whole(left)
    BY <2>2, <2>4, <2>5, <2>6
  <2>8. tables = left \/ tables = Noted(left, owner, 1)
    BY <1>2 DEF left
  <2> QED
    BY <2>7, <2>8, NotedWhole
<1>3. CASE \E c \in Conversations, ending \in {"answered", "summarised", "begun"} :
              \/ tables = Left(c, ending)
              \/ \E owner \in Owners(file.version, c) : tables = Noted(Left(c, ending), owner, 1)
  BY <1>2, <1>3
<1> QED
  BY <1>1, <1>3 DEF Init

(* What a step writes to the tables that takes no row away: one            *)
(* transaction, or none.                                                   *)
Writes(t, u) ==
    \/ u = t
    \/ u = Recovered(t)
    \/ \E c \in Conversations, r \in Runs : t.runs[r] = NoRow /\ u = InitializedRun(t, c, r)
    \/ \E r \in Runs : \/ t.runs[r].status = "running" /\ u = WithAnswer(t, r)
                       \/ t.runs[r].status = "running" /\ u = SummarisedRun(t, r)
                       \/ u = Noted(t, t.goal, r)
    \/ \E r \in Runs, status \in Terminal :
           /\ t.runs[r].status = "running" /\ u = FinishedRun(t, r, status)
           /\ status = "completed" =>
                \A m \in t.messages : m.run = r /\ m.role = "assistant" => m.text # None
    \/ \E c, target \in Conversations : t.conversations[target] = "absent" /\ u = Forked(t, c, target)
    \/ \E c \in Conversations : t.conversations[c] # "absent" /\ u = [t EXCEPT !.conversations[c] = "archived"]
    \/ u = [t EXCEPT !.goal = None]

LEMMA WritesWhole ==
    ASSUME NEW t, NEW u, Rows(t), Whole(t), Writes(t, u)
    PROVE  Whole(u)
<1>1. CASE u = t \/ u = Recovered(t)
  BY <1>1, RecoveredWhole
<1>2. CASE \E c \in Conversations, r \in Runs : t.runs[r] = NoRow /\ u = InitializedRun(t, c, r)
  BY <1>2, InitializedWhole
<1>3. CASE \E r \in Runs : \/ t.runs[r].status = "running" /\ u = WithAnswer(t, r)
                           \/ t.runs[r].status = "running" /\ u = SummarisedRun(t, r)
                           \/ u = Noted(t, t.goal, r)
  BY <1>3, AnsweredWhole, SummarisedWhole, NotedWhole
<1>4. CASE \E r \in Runs, status \in Terminal :
             /\ t.runs[r].status = "running" /\ u = FinishedRun(t, r, status)
             /\ status = "completed" =>
                  \A m \in t.messages : m.run = r /\ m.role = "assistant" => m.text # None
  BY <1>4, FinishedWhole
<1>5. CASE \E c, target \in Conversations : t.conversations[target] = "absent" /\ u = Forked(t, c, target)
  BY <1>5, ForkedWhole
<1>7. CASE \E c \in Conversations : t.conversations[c] # "absent" /\ u = [t EXCEPT !.conversations[c] = "archived"]
  <2>1. PICK c \in Conversations : t.conversations[c] # "absent" /\ u = [t EXCEPT !.conversations[c] = "archived"]
    BY <1>7
  <2>2. /\ u.conversations = [t.conversations EXCEPT ![c] = "archived"]
        /\ u.audits = t.audits /\ u.messages = t.messages
    BY <2>1 DEF Rows, HasTables
  <2> QED
    BY <2>2 DEF Whole, Located, Unique, Paired
<1>8. CASE u = [t EXCEPT !.goal = None]
  <2>1. u.conversations = t.conversations /\ u.audits = t.audits /\ u.messages = t.messages
    BY <1>8 DEF Rows, HasTables
  <2> QED
    BY <2>1 DEF Whole, Located, Unique, Paired
<1> QED
  BY <1>1, <1>2, <1>3, <1>4, <1>5, <1>7, <1>8 DEF Writes

LEMMA StepWrites ==
    ASSUME IInv, ExchangeInv, [Next]_vars
    PROVE  \/ Quarantine
           \/ \E c \in Conversations : Delete(c)
           \/ Writes(tables, tables')
<1>1. CASE Open \/ Migrate \/ Opened \/ QuarantineFails \/ Replace \/ Crash \/ Damage
           \/ RecoverInterruptedRuns \/ CreateGoal \/ UNCHANGED vars
  <2>1. tables' \in {tables, Recovered(tables), [tables EXCEPT !.goal = None]}
    BY <1>1 DEF Open, Migrate, RebuiltGoals, RebuiltRuns, Opened, QuarantineFails, Replace,
       Crash, Damage, RecoverInterruptedRuns, CreateGoal, vars
  <2> QED
    BY <2>1 DEF Writes
<1>2. ASSUME NEW c \in Conversations, StartRun(c)
      PROVE  Writes(tables, tables')
  <2>1. begun + 1 \in Runs /\ begun + 1 > begun
    BY <1>2, StoreAssumption DEF IInv, ActiveInv, StartRun, Runs
  <2>2. tables.runs[begun + 1] = NoRow /\ tables' = InitializedRun(tables, c, begun + 1)
    BY <1>2, <2>1 DEF IInv, ActiveInv, StartRun
  <2> QED
    BY <2>1, <2>2 DEF Writes
<1>3. ASSUME \/ RecordGoal \/ FlushText \/ FinishRun \/ FinishInterruptedWithHostSummary
             \/ \E status \in Terminal : FinishMessage(status)
      PROVE  Writes(tables, tables')
  <2> DEFINE r == active.run
  <2>1. active \in Handles /\ active # None
    BY <1>3 DEF RecordGoal, FlushText, FinishMessage, FinishRun, FinishInterruptedWithHostSummary, Busy,
       IInv, ActiveInv
  <2>2. r \in Runs /\ tables.runs[r].status = "running" /\ active.closing \in Terminal \cup {"no"}
    BY <2>1 DEF Handles, IInv, ActiveInv, Running
  <2>3. CASE tables' \in {tables, WithAnswer(tables, r), SummarisedRun(tables, r), Noted(tables, tables.goal, r)}
    BY <2>2, <2>3 DEF Writes
  <2>4. CASE FinishRun
    <3>1. tables' = FinishedRun(tables, r, active.closing) /\ active.closing \in Terminal
      BY <2>2, <2>4 DEF FinishRun
    <3>2. active.closing = "completed" =>
            \A m \in tables.messages : m.run = r /\ m.role = "assistant" => m.text # None
      BY <2>1 DEF ExchangeInv, ClosingInv
    <3> QED
      BY <2>2, <3>1, <3>2 DEF Writes
  <2> QED
    BY <1>3, <2>3, <2>4 DEF RecordGoal, FlushText, FinishMessage, FinishInterruptedWithHostSummary
<1>4. ASSUME NEW c \in Conversations, NEW target \in Conversations,
             Fork(c, target) \/ Archive(c)
      PROVE  Writes(tables, tables')
  BY <1>4 DEF Fork, Archive, Writes
<1> QED
  BY <1>1, <1>2, <1>3, <1>4 DEF Next

LEMMA ClosingStep ==
    ASSUME IInv, ExchangeInv, [Next]_vars
    PROVE  ClosingInv'
<1> SUFFICES ASSUME active' # None, active'.closing = "completed",
                    NEW m \in tables'.messages, m.run = active'.run, m.role = "assistant"
             PROVE  m.text # None
  BY DEF ClosingInv
<1>1. ASSUME active' = active, active # None =>
               \A n \in tables'.messages : n.run = active.run /\ n.role = "assistant" =>
                   n \in tables.messages
      PROVE  m.text # None
  BY <1>1 DEF ExchangeInv, ClosingInv
<1>2. CASE UNCHANGED vars
  BY <1>1, <1>2 DEF vars
<1>3. CASE Open \/ Migrate \/ Opened \/ Quarantine \/ QuarantineFails \/ Replace \/ Crash \/ Damage
           \/ RecoverInterruptedRuns \/ FinishRun \/ FinishInterruptedWithHostSummary
  BY <1>3 DEF Open, Migrate, Opened, Quarantine, QuarantineFails, Replace, Crash, Damage,
     RecoverInterruptedRuns, FinishRun, FinishInterruptedWithHostSummary, IInv, ActiveInv
<1>4. CASE \E c \in Conversations : StartRun(c)
  BY <1>4 DEF StartRun
<1>5. CASE RecordGoal \/ FlushText
  BY <1>5 DEF RecordGoal, FlushText
<1>6. ASSUME NEW status \in Terminal, FinishMessage(status)
      PROVE  m.text # None
  <2>1. active \in Handles /\ active' = [active EXCEPT !.closing = status]
    BY <1>6 DEF FinishMessage, Busy, IInv, ActiveInv
  <2>2. active'.run = active.run /\ active'.closing = status /\ active.run \in Runs
    BY <2>1 DEF Handles
  <2>3. tables' = WithAnswer(tables, active.run)
    BY <1>6, <2>2 DEF FinishMessage
  <2>4. m.text = active.run
    BY <2>2, <2>3, AnsweredWhole DEF IInv, ExchangeInv
  <2> QED
    BY <2>2, <2>4, StoreAssumption
<1>7. CASE CreateGoal
  <2>1. tables'.messages = tables.messages
    BY <1>7 DEF CreateGoal, IInv, Rows, HasTables
  <2> QED
    BY <1>1, <1>7, <2>1 DEF CreateGoal
<1>8. ASSUME NEW c \in Conversations, NEW target \in Conversations, Fork(c, target)
      PROVE  m.text # None
  <2>1. tables'.messages = tables.messages \cup {Copied(tables, o, target) : o \in Of(tables, c)}
    BY <1>8 DEF Fork, Forked, IInv, Rows, HasTables
  <2>2. \A o \in Of(tables, c) : Copied(tables, o, target).run = None
    BY DEF Copied, Of, IInv, Rows, IsMessage
  <2>3. active # None => active.run # None
    BY StoreAssumption DEF IInv, ActiveInv, Handles
  <2> QED
    BY <1>1, <1>8, <2>1, <2>2, <2>3 DEF Fork
<1>9. CASE \E c \in Conversations : Archive(c) \/ Delete(c)
  BY <1>9 DEF Archive, Delete, Busy
<1> QED
  BY <1>2, <1>3, <1>4, <1>5, <1>6, <1>7, <1>8, <1>9 DEF Next

LEMMA ExchangeStep == IInv /\ ExchangeInv /\ [Next]_vars => ExchangeInv'
<1> SUFFICES ASSUME IInv, ExchangeInv, [Next]_vars PROVE ExchangeInv'
  OBVIOUS
<1>1. Whole(tables')
  <2>1. CASE Quarantine
    BY <2>1, EmptyWhole DEF Quarantine
  <2>2. CASE \E c \in Conversations : Delete(c)
    BY <2>2, DeletedWhole DEF Delete, IInv, ExchangeInv
  <2>3. CASE Writes(tables, tables')
    BY <2>3, WritesWhole DEF IInv, ExchangeInv
  <2> QED
    BY <2>1, <2>2, <2>3, StepWrites
<1> QED
  BY <1>1, ClosingStep DEF ExchangeInv

(* WholeExchanges: for any number of conversations and runs and any limit, *)
(* what modelHistory returns is questions each followed by its answer,     *)
(* whatever was interrupted, recovered, copied, deleted or set aside.      *)
THEOREM HistoryIsWhole == Spec => []WholeExchanges
<1>1. Init => IInv /\ ExchangeInv
  BY StoreInit, ExchangeInit
<1>2. IInv /\ ExchangeInv /\ [Next]_vars => (IInv /\ ExchangeInv)'
  BY StoreStep, ExchangeStep
<1>3. IInv /\ ExchangeInv => WholeExchanges
  <2> SUFFICES ASSUME ExchangeInv, NEW c \in Conversations, NEW limit \in 1 .. Limit
               PROVE  LET history == ModelHistory(tables, c, limit)
                      IN \A i \in DOMAIN history :
                           IF i % 2 = 1
                           THEN history[i].role = "user" /\ i < Len(history)
                           ELSE history[i].role = "assistant" /\ history[i].text = history[i - 1].text
    BY DEF WholeExchanges
  <2>1. limit \in Nat \ {0}
    BY StoreAssumption
  <2> QED
    BY <2>1, WholeHistory DEF ExchangeInv
<1> QED
  BY <1>1, <1>2, <1>3, PTL DEF Spec

-----------------------------------------------------------------------------
(* What was told stays told.                                               *)
KeepsFinished(t, u) ==
    /\ \A m \in t.messages : m.status \in {"completed", "interrupted"} => m \in u.messages
    /\ t.audits \subseteq u.audits

LEMMA KeptRecords ==
    ASSUME NEW t, NEW u, KeepsFinished(t, u), NEW c
    PROVE  Recorded(t, c) \subseteq Recorded(u, c)
<1> SUFFICES ASSUME NEW m \in Of(t, c), Included(t, m)
             PROVE  m \in Of(u, c) /\ Included(u, m)
  BY DEF Recorded
<1>1. m \in Of(u, c)
  BY DEF Of, Included, KeepsFinished
<1>2. Summarised(t, m) => Summarised(u, m)
  BY DEF Summarised, Of, KeepsFinished
<1> QED
  BY <1>1, <1>2 DEF Included

LEMMA AnsweringKeeps ==
    ASSUME NEW t, Rows(t), NEW r \in Runs, t.runs[r].status = "running"
    PROVE  KeepsFinished(t, WithAnswer(t, r))
<1> DEFINE u == WithAnswer(t, r)
           Answer(m) == IF m.run = r /\ m.role = "assistant" THEN [m EXCEPT !.text = r] ELSE m
<1>1. u.messages = {Answer(m) : m \in t.messages} /\ u.audits = t.audits
  BY DEF Rows, HasTables, WithAnswer
<1>2. ASSUME NEW m \in t.messages, m.status # "running"
      PROVE  Answer(m) = m
  <2>1. r # None
    BY StoreAssumption DEF Runs
  <2>2. m.run # r
    BY <1>2, <2>1 DEF Rows, OfItsRun
  <2> QED
    BY <2>2
<1> QED
  BY <1>1, <1>2 DEF KeepsFinished

LEMMA FinishingKeeps ==
    ASSUME NEW t, HasTables(t), NEW r, NEW status
    PROVE  KeepsFinished(t, FinishedRun(t, r, status))
<1> DEFINE u == FinishedRun(t, r, status)
           Finish(m) == IF m.run = r /\ m.status \in Unfinished
                        THEN [m EXCEPT !.status = status] ELSE m
<1>1. u.messages = {Finish(m) : m \in t.messages} /\ u.audits = t.audits
  BY DEF HasTables, FinishedRun
<1>2. \A m \in t.messages : m.status \in {"completed", "interrupted"} => Finish(m) = m
  BY DEF Unfinished
<1> HIDE DEF Finish
<1> QED
  BY <1>1, <1>2 DEF KeepsFinished

LEMMA SummarisingKeeps ==
    ASSUME NEW t, Rows(t), NEW r \in Runs, t.runs[r].status = "running"
    PROVE  KeepsFinished(t, SummarisedRun(t, r))
<1> DEFINE a == WithAnswer(t, r)
           v == FinishedRun(a, r, "interrupted")
           u == SummarisedRun(t, r)
<1>1. KeepsFinished(t, a) /\ HasTables(a)
  BY AnsweringKeeps, AnsweredRows DEF Rows
<1>2. KeepsFinished(a, v) /\ HasTables(v)
  <2> HIDE DEF a
  <2>1. KeepsFinished(a, v)
    BY <1>1, FinishingKeeps
  <2>2. HasTables(v)
    BY <1>1 DEF HasTables, FinishedRun
  <2> QED
    BY <2>1, <2>2
<1>3. u = [v EXCEPT !.audits = @ \cup {r}]
  BY DEF SummarisedRun
<1> HIDE DEF a, v, u
<1>4. u.messages = v.messages /\ u.audits = v.audits \cup {r}
  BY <1>2, <1>3 DEF HasTables
<1>5. KeepsFinished(t, u)
  BY <1>1, <1>2, <1>4 DEF KeepsFinished
<1> QED
  BY <1>5 DEF u

LEMMA RecoveringKeeps ==
    ASSUME NEW t, Rows(t)
    PROVE  KeepsFinished(t, Recovered(t))
<1> DEFINE u == Recovered(t)
           Recover(m) == IF m.status \in Unfinished THEN [m EXCEPT !.status = "interrupted"] ELSE m
<1>1. u.messages = {Recover(m) : m \in t.messages} /\ u.audits = t.audits
  BY DEF Rows, HasTables, Recovered
<1>2. \A m \in t.messages : m.status \in {"completed", "interrupted"} => Recover(m) = m
  BY DEF Unfinished
<1> HIDE DEF Recover
<1> QED
  BY <1>1, <1>2 DEF KeepsFinished

Histories(t) == t.history \in [Runs -> {"absent", "recorded", "orphaned"}]
HistoryKept(t, u) ==
    Histories(u) /\ \A r \in Runs : t.history[r] # "absent" => u.history[r] # "absent"

LEMMA WritesKeep ==
    ASSUME NEW t, NEW u, Rows(t), Histories(t), Writes(t, u)
    PROVE  KeepsFinished(t, u) /\ HistoryKept(t, u)
<1>1. HasTables(t)
  BY DEF Rows
<1>2. CASE u = t \/ u = [t EXCEPT !.goal = None]
           \/ \E c \in Conversations : u = [t EXCEPT !.conversations[c] = "archived"]
  <2>1. u.messages = t.messages /\ u.audits = t.audits /\ u.history = t.history
    BY <1>1, <1>2 DEF HasTables
  <2> QED
    BY <2>1 DEF KeepsFinished, HistoryKept, Histories
<1>3. CASE u = Recovered(t)
  <2>1. u.history = t.history
    BY <1>1, <1>3 DEF HasTables, Recovered
  <2> QED
    BY <1>3, <2>1, RecoveringKeeps DEF HistoryKept, Histories
<1>4. CASE \E c \in Conversations, r \in Runs : u = InitializedRun(t, c, r)
  <2>1. t.messages \subseteq u.messages /\ u.audits = t.audits /\ u.history = t.history
    BY <1>1, <1>4 DEF HasTables, InitializedRun
  <2> QED
    BY <2>1 DEF KeepsFinished, HistoryKept, Histories
<1>5. CASE \E c, target \in Conversations : u = Forked(t, c, target)
  <2>1. PICK c, target \in Conversations : u = Forked(t, c, target)
    BY <1>5
  <2>2. u.messages = t.messages \cup {Copied(t, m, target) : m \in Of(t, c)}
    BY <1>1, <2>1 DEF HasTables, Forked
  <2>3. u.audits = t.audits /\ u.history = t.history
    BY <1>1, <2>1 DEF HasTables, Forked
  <2> QED
    BY <2>2, <2>3 DEF KeepsFinished, HistoryKept, Histories
<1>6. CASE \E r \in Runs : u = Noted(t, t.goal, r)
  <2>1. PICK r \in Runs : u = Noted(t, t.goal, r)
    BY <1>6
  <2>2. /\ u.messages = t.messages /\ u.audits = t.audits
        /\ u.history = [t.history EXCEPT ![r] = "recorded"]
    BY <1>1, <2>1 DEF HasTables, Noted
  <2> QED
    BY <2>2 DEF KeepsFinished, HistoryKept, Histories
<1>7. CASE \E r \in Runs : t.runs[r].status = "running" /\ u = WithAnswer(t, r)
  <2>1. u.history = t.history
    BY <1>1, <1>7 DEF HasTables, WithAnswer
  <2> QED
    BY <1>7, <2>1, AnsweringKeeps DEF HistoryKept, Histories
<1>8. CASE \E r \in Runs, status \in Terminal : u = FinishedRun(t, r, status)
  <2>1. u.history = t.history
    BY <1>1, <1>8 DEF HasTables, FinishedRun
  <2> QED
    BY <1>1, <1>8, <2>1, FinishingKeeps DEF HistoryKept, Histories
<1>9. CASE \E r \in Runs : t.runs[r].status = "running" /\ u = SummarisedRun(t, r)
  <2>1. u.history = t.history
    BY <1>1, <1>9 DEF HasTables, SummarisedRun, FinishedRun, WithAnswer
  <2> QED
    BY <1>9, <2>1, SummarisingKeeps DEF HistoryKept, Histories
<1> QED
  BY <1>2, <1>3, <1>4, <1>5, <1>6, <1>7, <1>8, <1>9 DEF Writes

(* Deleting one conversation takes nothing from another, nor from the      *)
(* history of the goal.                                                    *)
LEMMA DeletingKeeps ==
    ASSUME NEW t, Rows(t), Whole(t), Histories(t), NEW d \in Conversations
    PROVE  /\ \A c \in Conversations : c # d => Recorded(t, c) \subseteq Recorded(Deleted(t, d), c)
           /\ HistoryKept(t, Deleted(t, d))
<1> DEFINE u == Deleted(t, d)
           gone == {r \in Runs : t.runs[r].conversation = d}
<1>1. /\ u.messages = t.messages \ Of(t, d) /\ u.audits = t.audits \ gone
      /\ u.history = [r \in Runs |-> IF r \in gone /\ t.history[r] = "recorded" THEN "orphaned"
                                     ELSE t.history[r]]
  BY DEF Rows, HasTables, Deleted
<1> HIDE DEF u
<1>2. ASSUME NEW c \in Conversations, c # d, NEW m \in Of(t, c), Included(t, m)
      PROVE  m \in Of(u, c) /\ Included(u, m)
  <2>1. \A o \in Of(t, c) : o \in Of(u, c)
    BY <1>1, <1>2 DEF Of
  <2>2. m.conversation = c /\ m \in t.messages
    BY DEF Of
  <2>3. Summarised(t, m) => m.run \in u.audits
    <3> SUFFICES ASSUME m.run \in t.audits PROVE m.run \notin gone
      BY <1>1 DEF Summarised
    <3>1. m.run # None
      BY StoreAssumption DEF Whole, Located
    <3> QED
      BY <1>2, <2>2, <3>1 DEF Rows, OfItsRun
  <2>4. Summarised(t, m) => Summarised(u, m)
    BY <2>1, <2>2, <2>3 DEF Summarised
  <2> QED
    BY <1>2, <2>1, <2>4 DEF Included
<1>3. HistoryKept(t, u)
  BY <1>1 DEF HistoryKept, Histories
<1>4. \A c \in Conversations : c # d => Recorded(t, c) \subseteq Recorded(u, c)
  BY <1>2 DEF Recorded
<1> QED
  BY <1>3, <1>4 DEF u

LEMMA HistoriesInit == Init => Histories(tables)
<1> SUFFICES ASSUME Init PROVE Histories(tables)
  OBVIOUS
<1>1. Histories(Empty)
  BY DEF Histories, Empty, NoHistory
<1>2. ASSUME NEW c \in Conversations, NEW ending \in {"answered", "summarised", "begun"}
      PROVE  Left(c, ending).history = Empty.history
  BY DEF Left, SummarisedRun, FinishedRun, WithAnswer, InitializedRun, Empty
<1>3. ASSUME NEW c \in Conversations, NEW ending \in {"answered", "summarised", "begun"}, NEW owner
      PROVE  Noted(Left(c, ending), owner, 1).history = [Empty.history EXCEPT ![1] = "recorded"]
  BY DEF Left, SummarisedRun, FinishedRun, WithAnswer, InitializedRun, Empty, Noted
<1>4. [Empty.history EXCEPT ![1] = "recorded"] \in [Runs -> {"absent", "recorded", "orphaned"}]
  BY <1>1 DEF Histories
<1> QED
  BY <1>1, <1>2, <1>3, <1>4 DEF Init, Histories

KeptInv == IInv /\ ExchangeInv /\ Histories(tables)

(* One step takes nothing from what is kept in the database or set aside,  *)
(* unless a -wal file was separated from its database.                     *)
LEMMA StepKeeps ==
    ASSUME KeptInv, [Next]_vars
    PROVE  /\ Histories(tables)'
           /\ \/ Separated
              \/ /\ \A c \in Conversations : KeptSomewhere(c) \subseteq (KeptSomewhere(c))' \/ Delete(c)
                 /\ HistorySomewhere \subseteq HistorySomewhere'
<1> USE DEF KeptInv
<1>1. CASE Quarantine
  <2>1. tables' = Empty /\ Aside' = Aside \cup {tables}
    BY <1>1 DEF Quarantine, Aside
  <2>2. Histories(Empty)
    BY DEF Histories, Empty, NoHistory
  <2> QED
    BY <2>1, <2>2 DEF KeptSomewhere, HistorySomewhere
<1>2. ASSUME Aside' = Aside, HistoryKept(tables, tables')
      PROVE  Histories(tables)' /\ HistorySomewhere \subseteq HistorySomewhere'
  BY <1>2 DEF HistorySomewhere, HistoryKept, Histories
<1>3. ASSUME Aside' = Aside, NEW c, Recorded(tables, c) \subseteq Recorded(tables', c)
      PROVE  KeptSomewhere(c) \subseteq (KeptSomewhere(c))'
  BY <1>3 DEF KeptSomewhere
<1>4. ASSUME NEW d \in Conversations, Delete(d)
      PROVE  /\ Histories(tables)'
             /\ \A c \in Conversations : KeptSomewhere(c) \subseteq (KeptSomewhere(c))' \/ Delete(c)
             /\ HistorySomewhere \subseteq HistorySomewhere'
  <2>1. Aside' = Aside /\ tables' = Deleted(tables, d)
    BY <1>4 DEF Delete, Aside
  <2>2. /\ \A c \in Conversations : c # d => Recorded(tables, c) \subseteq Recorded(tables', c)
        /\ HistoryKept(tables, tables')
    BY <2>1, DeletingKeeps DEF IInv, ExchangeInv
  <2> QED
    BY <1>2, <1>3, <1>4, <2>1, <2>2
<1>5. CASE Writes(tables, tables') /\ ~Quarantine /\ ~(Open /\ Separated)
  <2>1. Aside' = Aside
    <3>1. CASE Open \/ Replace
      BY <1>5, <3>1 DEF Open, Replace, Separated, Aside
    <3>2. CASE ~(Open \/ Replace)
      <4>1. UNCHANGED <<backups, wal>>
        BY <1>5, <3>2 DEF Next, vars, Migrate, Opened, QuarantineFails, RecoverInterruptedRuns,
           StartRun, Archive, Delete, CreateGoal, RecordGoal, FlushText, FinishRun,
           FinishInterruptedWithHostSummary, FinishMessage, Fork, Crash, Damage
      <4> QED
        BY <4>1 DEF Aside
    <3> QED
      BY <3>1, <3>2
  <2>2. KeepsFinished(tables, tables') /\ HistoryKept(tables, tables')
    BY <1>5, WritesKeep DEF IInv
  <2>3. \A c \in Conversations : KeptSomewhere(c) \subseteq (KeptSomewhere(c))'
    BY <1>3, <2>1, <2>2, KeptRecords
  <2> QED
    BY <1>2, <2>1, <2>2, <2>3
<1>6. CASE Open /\ Separated
  <2>1. tables' = tables
    BY <1>6 DEF Open
  <2> QED
    BY <1>6, <2>1
<1> QED
  BY <1>1, <1>4, <1>5, <1>6, StepWrites

(* RecordsAreKept: over every migration, recovery, crash and quarantine,   *)
(* and whatever other conversations do, an exchange the model was told of  *)
(* stays in the database or a file set aside until its conversation is     *)
(* deleted, and the history of the goal longer than that; only what a -wal *)
(* file alone holds goes if a crash leaves it without its database.        *)
THEOREM NothingIsForgotten == Spec => RecordsAreKept
<1> DEFINE A == \/ Separated
                \/ /\ \A c \in Conversations : KeptSomewhere(c) \subseteq (KeptSomewhere(c))' \/ Delete(c)
                   /\ HistorySomewhere \subseteq HistorySomewhere'
<1>1. Init => KeptInv
  BY StoreInit, ExchangeInit, HistoriesInit DEF KeptInv
<1>2. KeptInv /\ [Next]_vars => KeptInv' /\ [A]_vars
  BY StoreStep, ExchangeStep, StepKeeps DEF KeptInv
<1> QED
  BY <1>1, <1>2, PTL DEF Spec, RecordsAreKept
=============================================================================
