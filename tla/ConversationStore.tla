--------------------------- MODULE ConversationStore ---------------------------
(***************************************************************************)
(* The conversation database (services/conversations.ts) as the main       *)
(* process uses it: it is opened, migrated or set aside and replaced;      *)
(* unfinished runs are recovered; then one run at a time writes its two    *)
(* messages and its row (PersistentRun in services/agent.ts), and the user *)
(* forks, archives and deletes conversations (ipc.ts).  The process may    *)
(* die between any two transactions.                                       *)
(*                                                                         *)
(* A message is a row with its text abstracted to the run that wrote it.   *)
(* Of one goal there is its owner and which runs left rows in its history  *)
(* (plan revisions and checkpoints); what these say is in GoalStore.       *)
(***************************************************************************)
EXTENDS Integers, SequencesExt

CONSTANTS Conversations, \* ids of conversations
          None,          \* NULL
          Limit,         \* options.limit of modelHistory
          MaxRuns,       \* bound: runs that are begun
          MaxDamages     \* bound: times the file is damaged while the process is down

Runs == 1 .. MaxRuns
Unfinished == {"starting", "running"}
Terminal == {"completed", "cancelled", "error", "interrupted"}
Handles == [run : Runs, closing : Terminal \cup {"no"}]

ASSUME StoreAssumption ==
    /\ {Limit, MaxRuns} \subseteq Nat \ {0} /\ MaxDamages \in Nat
    /\ None \notin Conversations \cup Runs /\ None \notin Handles

VARIABLES
    file,      \* the database file: its schema version, whether it is intact, or None
    tables,    \* its rows
    backups,   \* the rows of the files set aside
    wal,       \* rows that only a -wal file has whose database was set aside
    pc,        \* where the process is
    active,    \* the run of the process that has not ended
    begun,     \* how many runs were begun; a run's id is its place among them
    damages    \* how often the file was damaged

bounds == <<begun, damages>>
vars == <<file, tables, backups, wal, pc, active, bounds>>

SchemaVersion == 5
\* The history of the goal: runs that left a row there; "orphaned" when its run_id is NULL.
NoHistory == [r \in Runs |-> "absent"]
NoRow == [conversation |-> None, status |-> "absent"]
Empty == [conversations |-> [c \in Conversations |-> "absent"], runs |-> [r \in Runs |-> NoRow],
          messages |-> {}, audits |-> {}, goal |-> "absent", history |-> NoHistory]

Of(t, c) == {m \in t.messages : m.conversation = c}
NextOrdinal(t, c) == Max({0} \cup {m.ordinal : m \in Of(t, c)}) + 1
Message(c, ordinal, role, run, status, text) ==
    [conversation |-> c, ordinal |-> ordinal, role |-> role, run |-> run,
     status |-> status, text |-> text]

------------------------------- (* Queries *) ---------------------------------

\* The host ended the run with a summary of its effects: the audit event is there,
\* and an interrupted assistant message with a text.
Summarised(t, m) ==
    /\ m.run \in t.audits
    /\ \E s \in Of(t, m.conversation) :
        s.run = m.run /\ s.role = "assistant" /\ s.status = "interrupted" /\ s.text # None
Included(t, m) ==
    /\ m.text # None
    /\ m.status = "completed" \/ (m.status = "interrupted" /\ Summarised(t, m))

\* Answers without the question before them are shifted off.
\* Mutant: the window is returned as it was cut.
Uncut(history) == history
FromUser(history) ==
    LET users == {i \in DOMAIN history : history[i].role = "user"}
    IN IF users = {} THEN <<>>
       ELSE SubSeq(history, CHOOSE i \in users : \A j \in users : i <= j, Len(history))

\* ORDER BY ordinal: the k-th message is the one with k ordinals up to its own.
ByOrdinal(S) ==
    [k \in 1 .. Cardinality(S) |->
        CHOOSE m \in S : Cardinality({o \in S : o.ordinal <= m.ordinal}) = k]

ModelHistory(t, c, limit) ==
    LET rows == ByOrdinal({m \in Of(t, c) : Included(t, m)})
    IN FromUser(SubSeq(rows, Len(rows) - (IF limit < Len(rows) THEN limit ELSE Len(rows)) + 1,
                       Len(rows)))

---------------------------- (* Transactions *) -------------------------------

\* ensureConversation, which is asked for an active one.
Ensured(conversations, c) == [conversations EXCEPT ![c] = "active"]

\* initializeRun: the conversation, the run and its two messages, or nothing.
InitializedRun(t, c, r) ==
    [t EXCEPT !.conversations = Ensured(@, c),
              !.runs[r] = [conversation |-> c, status |-> "running"],
              !.messages = @ \cup
                {Message(c, NextOrdinal(t, c), "user", r, "running", r),
                 Message(c, NextOrdinal(t, c) + 1, "assistant", r, "running", None)}]

\* updateMessage of the assistant's message, which must belong to the run.
WithAnswer(t, r) ==
    [t EXCEPT !.messages =
        {IF m.run = r /\ m.role = "assistant" THEN [m EXCEPT !.text = r] ELSE m : m \in @}]

\* finishRun: the row, and the messages of the run that are not finished.
FinishedRun(t, r, status) ==
    [t EXCEPT !.runs[r].status = status,
              !.messages = {IF m.run = r /\ m.status \in Unfinished
                            THEN [m EXCEPT !.status = status] ELSE m : m \in @}]

\* finishInterruptedWithHostSummary
SummarisedRun(t, r) ==
    [FinishedRun(WithAnswer(t, r), r, "interrupted") EXCEPT !.audits = @ \cup {r}]

\* recoverInterruptedRuns
Recovered(t) ==
    [t EXCEPT !.runs = [r \in Runs |->
                          IF @[r].status = "running" THEN [@[r] EXCEPT !.status = "interrupted"]
                          ELSE @[r]],
              !.messages = {IF m.status \in Unfinished THEN [m EXCEPT !.status = "interrupted"]
                            ELSE m : m \in @}]

\* Mutant: a copy keeps the status of its source.
CopiedAsIs(t, m, target) == [m EXCEPT !.conversation = target, !.run = None]
Copied(t, m, target) ==
    [m EXCEPT !.conversation = target, !.run = None,
              !.status = IF @ \in Unfinished THEN "interrupted" ELSE @]
Forked(t, c, target) ==
    [t EXCEPT !.conversations[target] = "active",
              !.messages = @ \cup {Copied(t, m, target) : m \in Of(t, c)}]

\* appendGoalPlan and appendGoalCheckpoint of run r, for the goal of this owner.
Noted(t, owner, r) == [t EXCEPT !.goal = owner, !.history[r] = "recorded"]

\* DELETE FROM conversations, with what cascades from it; a goal and its history stay, without
\* what they referred to.
Deleted(t, c) ==
    LET gone == {r \in Runs : t.runs[r].conversation = c}
    IN [t EXCEPT !.conversations[c] = "absent", !.messages = @ \ Of(t, c), !.audits = @ \ gone,
                 !.runs = [r \in Runs |-> IF r \in gone THEN NoRow ELSE @[r]],
                 !.goal = IF @ = c THEN None ELSE @,
                 !.history = [r \in Runs |-> IF r \in gone /\ @[r] = "recorded" THEN "orphaned"
                                             ELSE @[r]]]

----------------------------- (* Opening *) -----------------------------------

\* What an earlier process left: nothing, a new database, or one of an older version with an
\* exchange that was answered, summarised by the host, or never ended.  There are goals since
\* version 3; up to then they belonged to a conversation.
Left(c, ending) ==
    LET first == InitializedRun(Empty, c, 1)
    IN CASE ending = "answered" -> FinishedRun(WithAnswer(first, 1), 1, "completed")
         [] ending = "summarised" -> SummarisedRun(first, 1)
         [] ending = "begun" -> first

Owners(version, c) == IF version = 3 THEN {c} ELSE {c, None}

Init ==
    /\ \/ file = None /\ tables = Empty /\ begun = 0
       \/ /\ begun = 1
          /\ \E v \in 1 .. SchemaVersion + 1 : file = [version |-> v, intact |-> TRUE]
          /\ \E c \in Conversations, ending \in {"answered", "summarised", "begun"} :
                \/ tables = Left(c, ending)
                \/ /\ file.version >= 3
                   /\ \E owner \in Owners(file.version, c) : tables = Noted(Left(c, ending), owner, 1)
    /\ backups = {} /\ wal = {} /\ pc = "down" /\ active = None /\ damages = 0

Fresh == [version |-> 0, intact |-> TRUE]

\* new DatabaseSync and the pragmas of configureDatabase.  A database that is newer than the
\* program is left alone.  Where there is none, SQLite makes an empty one and removes the -wal
\* file it finds beside it.
Open ==
    /\ pc = "down"
    /\ file' = IF file = None THEN Fresh ELSE file
    /\ pc' = IF file # None /\ file.version > SchemaVersion THEN "down" ELSE "migrating"
    /\ wal' = {}
    /\ UNCHANGED <<tables, backups, active, bounds>>

\* DROP TABLE goals deletes its rows; with foreign keys on, the history goes as well.
\* Mutant: the rebuild leaves the foreign keys on.
RebuiltInPlace(t) == [t EXCEPT !.history = NoHistory]
RebuiltGoals(t) == t

\* DROP TABLE runs would take the audit events with it in the same way.
RebuiltRuns(t) == t

\* The versions up to 3 in one transaction, then 4 and 5 in one each.
Migrate ==
    /\ pc = "migrating" /\ file.intact /\ file.version < SchemaVersion
    /\ file' = [file EXCEPT !.version = IF @ < 3 THEN 3 ELSE @ + 1]
    /\ tables' = CASE file.version = 3 -> RebuiltGoals(tables)
                   [] file.version = 4 -> RebuiltRuns(tables)
                   [] OTHER -> tables
    /\ UNCHANGED <<backups, wal, pc, active, bounds>>

\* The last migration is in, and quick_check says ok.
Opened ==
    /\ pc = "migrating" /\ file.intact /\ file.version = SchemaVersion
    /\ pc' = "recovering"
    /\ UNCHANGED <<file, tables, backups, wal, active, bounds>>

\* A statement, or quick_check, reports the damage, and the file is renamed.  The rows are in it
\* if close could check them in; if not, they may all still be in the -wal file.
Quarantine ==
    /\ pc = "migrating" /\ ~file.intact
    /\ file' = None /\ tables' = Empty /\ pc' = "sidecars"
    /\ \/ backups' = backups \cup {tables} /\ UNCHANGED wal
       \/ wal' = wal \cup {tables} /\ UNCHANGED backups
    /\ UNCHANGED <<active, bounds>>

QuarantineFails ==
    /\ pc = "migrating" /\ ~file.intact
    /\ pc' = "down"
    /\ UNCHANGED <<file, tables, backups, wal, active, bounds>>

\* The -wal and -shm files follow, and the replacement is created.  A process that dies before
\* this, or cannot rename them, finds no database when it starts again.
Replace ==
    /\ pc = "sidecars"
    /\ backups' = backups \cup wal /\ wal' = {}
    /\ file' = Fresh /\ pc' = "migrating"
    /\ UNCHANGED <<tables, active, bounds>>

RecoverInterruptedRuns ==
    /\ pc = "recovering"
    /\ tables' = Recovered(tables) /\ pc' = "up"
    /\ UNCHANGED <<file, backups, wal, active, bounds>>

------------------------------- (* A run *) -----------------------------------

Busy == active # None

\* PersistentRun.initialize
StartRun(c) ==
    /\ pc = "up" /\ ~Busy /\ begun < MaxRuns
    /\ tables.conversations[c] # "archived"
    /\ begun' = begun + 1
    /\ tables' = InitializedRun(tables, c, begun')
    /\ active' = [run |-> begun', closing |-> "no"]
    /\ UNCHANGED <<file, backups, wal, pc, damages>>

\* flushText, every PERSIST_TEXT_INTERVAL characters.
FlushText ==
    /\ pc = "up" /\ Busy /\ active.closing = "no"
    /\ tables' = WithAnswer(tables, active.run)
    /\ UNCHANGED <<file, backups, wal, pc, active, bounds>>

\* The active run records a plan or a checkpoint of the goal.
RecordGoal ==
    /\ pc = "up" /\ Busy /\ active.closing = "no" /\ tables.goal # "absent"
    /\ tables' = Noted(tables, tables.goal, active.run)
    /\ UNCHANGED <<file, backups, wal, pc, active, bounds>>

\* PersistentRun.finish: the message in one transaction.  A run that completes has a text; one
\* that is cancelled or fails may have none.
FinishMessage(status) ==
    /\ pc = "up" /\ Busy /\ active.closing = "no"
    /\ \/ tables' = WithAnswer(tables, active.run)
       \/ status # "completed" /\ UNCHANGED tables
    /\ active' = [active EXCEPT !.closing = status]
    /\ UNCHANGED <<file, backups, wal, pc, bounds>>

\* ... and the run with its unfinished messages in the next one.
FinishRun ==
    /\ pc = "up" /\ Busy /\ active.closing # "no"
    /\ tables' = FinishedRun(tables, active.run, active.closing)
    /\ active' = None
    /\ UNCHANGED <<file, backups, wal, pc, bounds>>

\* The run was interrupted after it applied an effect.
FinishInterruptedWithHostSummary ==
    /\ pc = "up" /\ Busy /\ active.closing = "no"
    /\ tables' = SummarisedRun(tables, active.run)
    /\ active' = None
    /\ UNCHANGED <<file, backups, wal, pc, bounds>>

------------------------------ (* The user *) ---------------------------------

\* A goal of the workspace, without a conversation.
CreateGoal ==
    /\ pc = "up" /\ tables.goal = "absent"
    /\ tables' = [tables EXCEPT !.goal = None]
    /\ UNCHANGED <<file, backups, wal, pc, active, bounds>>

\* A fork is not suspended by the active run, and may copy its unfinished messages.
Fork(c, target) ==
    /\ pc = "up" /\ tables.conversations[c] # "absent" /\ tables.conversations[target] = "absent"
    /\ tables' = Forked(tables, c, target)
    /\ UNCHANGED <<file, backups, wal, pc, active, bounds>>

\* Archive and delete run with the runs suspended.
Archive(c) ==
    /\ pc = "up" /\ ~Busy /\ tables.conversations[c] # "absent"
    /\ tables' = [tables EXCEPT !.conversations[c] = "archived"]
    /\ UNCHANGED <<file, backups, wal, pc, active, bounds>>

Delete(c) ==
    /\ pc = "up" /\ ~Busy /\ tables.conversations[c] # "absent"
    /\ tables' = Deleted(tables, c)
    /\ UNCHANGED <<file, backups, wal, pc, active, bounds>>

---------------------------- (* The environment *) ----------------------------

Crash ==
    /\ pc # "down"
    /\ pc' = "down" /\ active' = None
    /\ UNCHANGED <<file, tables, backups, wal, bounds>>

Damage ==
    /\ pc = "down" /\ file # None /\ damages < MaxDamages
    /\ file' = [file EXCEPT !.intact = FALSE] /\ damages' = damages + 1
    /\ UNCHANGED <<tables, backups, wal, pc, active, begun>>

Next ==
    \/ Open \/ Migrate \/ Opened \/ Quarantine \/ QuarantineFails \/ Replace
    \/ RecoverInterruptedRuns
    \/ \E c \in Conversations : StartRun(c) \/ Archive(c) \/ Delete(c)
    \/ CreateGoal \/ RecordGoal
    \/ FlushText \/ FinishRun \/ FinishInterruptedWithHostSummary
    \/ \E status \in Terminal : FinishMessage(status)
    \/ \E c, target \in Conversations : Fork(c, target)
    \/ Crash \/ Damage

Spec == Init /\ [][Next]_vars

----------------------------- (* Correctness *) -------------------------------

\* What modelHistory gives a provider is a sequence of whole exchanges, each a user's message
\* followed by the answer of the same run, wherever the limit cuts and whatever ended, crashed
\* or was copied in between.
WholeExchanges ==
    \A c \in Conversations : \A limit \in 1 .. Limit :
        LET history == ModelHistory(tables, c, limit)
        IN \A i \in DOMAIN history :
            IF i % 2 = 1
            THEN history[i].role = "user" /\ i < Len(history)
            ELSE history[i].role = "assistant" /\ history[i].text = history[i - 1].text

\* A message is as finished as its run, in every state a crash can leave behind; and once the
\* process is up, nothing but the active run has a row that still says it is running.
RowsAgree ==
    /\ \A m \in tables.messages :
        IF m.run = None THEN m.status \in Terminal ELSE m.status = tables.runs[m.run].status
    /\ pc = "up" =>
        \A r \in Runs : tables.runs[r].status = "running" => active # None /\ active.run = r

\* The exchanges, and the history of the goal, that the database or a file set aside holds.
Aside == backups \cup wal
Recorded(t, c) == {m.text : m \in {o \in Of(t, c) : Included(t, o)}}
KeptSomewhere(c) == UNION {Recorded(t, c) : t \in {tables} \cup Aside}
HistorySomewhere == {r \in Runs : \E t \in {tables} \cup Aside : t.history[r] # "absent"}

\* The process ended between the renames of a damaged database and of its -wal file.
Separated == pc = "down" /\ wal # {}

\* No migration, recovery, crash or quarantine, and nothing another conversation does, takes an
\* exchange out of what a conversation tells the model: it stays in the database or in a file set
\* aside until the user deletes the conversation.  The history of a goal outlives even that.
\* The exception is a -wal file that was separated from its database.
RecordsAreKept ==
    [][\/ Separated
       \/ /\ \A c \in Conversations : KeptSomewhere(c) \subseteq (KeptSomewhere(c))' \/ Delete(c)
          /\ HistorySomewhere \subseteq HistorySomewhere']_vars
===============================================================================
