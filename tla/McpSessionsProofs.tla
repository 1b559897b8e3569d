-------------------------- MODULE McpSessionsProofs --------------------------
(***************************************************************************)
(* For any number of runs, servers and edits of the configuration: while   *)
(* a run may call MCP tools no other run's refresh, discovery or close     *)
(* takes or replaces them, no server runs that neither the map nor a       *)
(* discovery knows, and a request goes to the session it was approved for. *)
(***************************************************************************)
EXTENDS McpSessions, Functions, FiniteSetTheorems, TLAPS

\* What the agent's part of the state is.
AgentTypes ==
    /\ config \in Configs
    /\ step \in [Runs -> Steps]
    /\ seen \in [Runs -> Configs \cup {NoKey}]
    /\ active \subseteq Runs
    /\ allowed \subseteq Runs
    /\ tail \in Seq(Runs)

\* The steps a run takes while its side effect is the one under way.
InTurn == {"inspected", "discover", "approving", "requested", "dropping", "discarding"}
TurnInv == \A r \in Runs : step[r] \in InTurn => tail # <<>> /\ Head(tail) = r

\* A run that refreshes is active, knows its revision and has no tools yet;
\* one that discovers has taken the tools of everybody.
RefreshInv ==
    \A r \in Runs :
      /\ step[r] \notin {"new", "closing", "done"} => r \in active
      /\ step[r] \in {"inspected", "discover"} => seen[r] \in Configs /\ r \notin allowed
      /\ step[r] = "discover" => key = NoKey

AllowedInv == \A r \in allowed : r \in active /\ key = seen[r] /\ key \in Configs

IInv == AgentTypes /\ TurnInv /\ RefreshInv /\ AllowedInv

LEMMA HeadOfTail ==
    ASSUME NEW s \in Seq(Runs), NEW r \in Runs
    PROVE  /\ Append(s, r) \in Seq(Runs)
           /\ Append(s, r) # <<>>
           /\ s # <<>> => Head(Append(s, r)) = Head(s) /\ Tail(s) \in Seq(Runs)
OBVIOUS

LEMMA OnlyOne ==
    ASSUME NEW S \in SUBSET Runs, NEW r \in S, ~(Cardinality(S) > 1)
    PROVE  S = {r}
<1>1. IsFiniteSet(S)
  BY McpAssumption, FS_Subset
<1>2. CASE S = {r}
  BY <1>2
<1>3. CASE S # {r}
  <2>1. PICK q \in S : q # r
    BY <1>3
  <2>2. {q, r} \subseteq S
    BY <2>1
  <2>3. Cardinality({q, r}) = 2
    <3>1. IsFiniteSet({r}) /\ Cardinality({r}) = 1
      BY FS_Singleton
    <3>2. Cardinality({r} \cup {q}) = Cardinality({r}) + 1
      BY <2>1, <3>1, FS_AddElement
    <3>3. {r} \cup {q} = {q, r}
      OBVIOUS
    <3> QED
      BY <3>1, <3>2, <3>3
  <2>4. Cardinality({q, r}) <= Cardinality(S)
    BY <1>1, <2>2, FS_Subset
  <2> QED
    BY <1>1, <2>3, <2>4, FS_CardinalityType
<1> QED
  BY <1>2, <1>3
LEMMA InitIInv == Init => IInv
BY McpAssumption DEF Init, IInv, AgentTypes, Steps, TurnInv, InTurn, RefreshInv, AllowedInv, NoKey

LEMMA StepIInv == IInv /\ [Next]_vars => IInv'
<1> SUFFICES ASSUME IInv, [Next]_vars
             PROVE  IInv'
  OBVIOUS
<1> USE McpAssumption DEF IInv, AgentTypes, Steps, TurnInv, InTurn, RefreshInv, AllowedInv, NoKey,
        agentVars, serviceVars, callFrame, sessionFrame, Goto
<1>1. CASE EditConfig
  BY <1>1 DEF EditConfig
<1>2. ASSUME NEW r \in Runs, StartRun(r)
      PROVE  IInv'
  BY <1>2, HeadOfTail DEF StartRun
<1>3. ASSUME NEW r \in Runs, AbortRun(r)
      PROVE  IInv'
  <2>1. /\ UNCHANGED <<config, seen, active, allowed, key>>
        /\ \/ step[r] \in {"approving", "discover"} /\ tail' = Tail(tail)
              /\ \E s \in {"working", "leaving"} : step' = [step EXCEPT ![r] = s]
           \/ step[r] = "requested" /\ step' = [step EXCEPT ![r] = "dropping"] /\ UNCHANGED tail
           \/ UNCHANGED <<step, tail>>
    BY <1>3 DEF AbortRun, Return
  <2> QED
    BY <2>1, HeadOfTail
<1>4. ASSUME NEW r \in Runs, Inspect(r)
      PROVE  IInv'
  <2>1. /\ UNCHANGED <<config, active, key>>
        /\ step[r] = "refresh" /\ tail # <<>> /\ Head(tail) = r
        /\ allowed' = allowed \ {r}
        /\ \/ /\ step' = [step EXCEPT ![r] = "inspected"] /\ UNCHANGED tail
              /\ seen' = [seen EXCEPT ![r] = config]
           \/ /\ step' = [step EXCEPT ![r] = "leaving"] /\ tail' = Tail(tail) /\ UNCHANGED seen
    BY <1>4 DEF Inspect, HasTurn
  <2> HIDE DEF TurnInv, RefreshInv, AllowedInv
  <2>2. AgentTypes'
    BY <2>1, HeadOfTail
  <2>3. TurnInv'
    BY <2>1 DEF TurnInv
  <2>4. RefreshInv'
    BY <2>1 DEF RefreshInv
  <2>5. AllowedInv'
    BY <2>1 DEF AllowedInv
  <2> QED
    BY <2>2, <2>3, <2>4, <2>5
<1>5. ASSUME NEW r \in Runs, Refresh(r)
      PROVE  IInv'
  <2>1. CASE key # seen[r] /\ ~Deferred
    <3>1. key = NoKey \/ active = {r}
      BY <1>5, <2>1, OnlyOne DEF Refresh, Deferred
    <3>2. allowed = {}
      BY <3>1, <1>5 DEF Refresh
    <3>3. /\ UNCHANGED <<config, seen, active, allowed, tail>>
          /\ step[r] = "inspected" /\ step' = [step EXCEPT ![r] = "discover"]
          /\ key' = NoKey
      BY <1>5, <2>1 DEF Refresh
    <3>4. AgentTypes' /\ TurnInv'
      BY <3>3
    <3>5. RefreshInv'
      BY <3>2, <3>3
    <3>6. AllowedInv'
      BY <3>2, <3>3
    <3> QED
      BY <3>4, <3>5, <3>6
  <2>2. CASE ~(key # seen[r] /\ ~Deferred)
    <3>1. /\ UNCHANGED <<config, seen, active, key>>
          /\ step[r] = "inspected" /\ step' = [step EXCEPT ![r] = "working"]
          /\ tail' = Tail(tail)
          /\ \/ allowed' = allowed
             \/ key = seen[r] /\ allowed' = allowed \cup {r}
      BY <1>5, <2>2 DEF Refresh
    <3>2. AgentTypes'
      BY <3>1, HeadOfTail
    <3>3. TurnInv'
      BY <3>1
    <3>4. RefreshInv'
      BY <3>1
    <3>5. AllowedInv'
      BY <3>1
    <3> QED
      BY <3>2, <3>3, <3>4, <3>5
  <2> QED
    BY <2>1, <2>2
<1>6. ASSUME NEW r \in Runs, BeginOperation(r)
      PROVE  IInv'
  BY <1>6, HeadOfTail DEF BeginOperation, IsNext, Caller, Throw, ClearSessions
<1>7. ASSUME NEW r \in Runs, CloseDone(r)
      PROVE  IInv'
  BY <1>7, HeadOfTail DEF CloseDone, IsNext, Caller
<1>8. ASSUME NEW r \in Runs, LoadConfiguration(r)
      PROVE  IInv'
  BY <1>8, HeadOfTail DEF LoadConfiguration, IsNext, Caller, Throw, StartServers
<1>9. ASSUME NEW r \in Runs, AuthorizeWorkspace(r)
      PROVE  IInv'
  BY <1>9, HeadOfTail DEF AuthorizeWorkspace, IsNext, Caller, Throw, StartServers
<1>10. ASSUME NEW r \in Runs, FinishDiscovery(r)
      PROVE  IInv'
  <2>1. /\ step[r] = "discover" /\ UNCHANGED <<config, seen, active>>
        /\ \/ UNCHANGED <<step, allowed, key, tail>>
           \/ /\ key' = seen[r] /\ allowed' = allowed \cup {r} /\ tail' = Tail(tail)
              /\ step' = [step EXCEPT ![r] = "working"]
    BY <1>10 DEF FinishDiscovery, IsNext, Caller
  <2>2. allowed = {}
    BY <2>1
  <2> QED
    BY <2>1, <2>2, HeadOfTail
<1>11. ASSUME NEW r \in Runs, UndoDiscovery(r)
      PROVE  IInv'
  BY <1>11, HeadOfTail DEF UndoDiscovery, IsNext, Caller, Throw
<1>12. ASSUME NEW r \in Runs, LookUpTool(r)
      PROVE  IInv'
  BY <1>12, HeadOfTail DEF LookUpTool, HasTurn, Return
<1>13. ASSUME NEW r \in Runs, DropSession(r)
      PROVE  IInv'
  BY <1>13, HeadOfTail DEF DropSession, Return
<1>14. ASSUME NEW r \in Runs, CallTool(r)
      PROVE  IInv'
  BY <1>14, HeadOfTail DEF CallTool
<1>15. ASSUME NEW r \in Runs, Approve(r)
      PROVE  IInv'
  BY <1>15, HeadOfTail DEF Approve, Return
<1>16. ASSUME NEW r \in Runs, Deny(r)
      PROVE  IInv'
  BY <1>16, HeadOfTail DEF Deny, Return
<1>17. ASSUME NEW r \in Runs, AnswerCall(r)
      PROVE  IInv'
  BY <1>17, HeadOfTail DEF AnswerCall, Return
<1>18. ASSUME NEW r \in Runs, CallTimesOut(r)
      PROVE  IInv'
  BY <1>18, HeadOfTail DEF CallTimesOut
<1>19. ASSUME NEW r \in Runs, BadResult(r)
      PROVE  IInv'
  BY <1>19, HeadOfTail DEF BadResult
<1>20. ASSUME NEW r \in Runs, Leave(r)
      PROVE  IInv'
  BY <1>20, HeadOfTail DEF Leave
<1>21. ASSUME NEW i \in Sids, AnswerStart(i)
      PROVE  IInv'
  BY <1>21, HeadOfTail DEF AnswerStart, Waits, Return
<1>22. ASSUME NEW i \in Sids, StartFails(i)
      PROVE  IInv'
  BY <1>22, HeadOfTail DEF StartFails, Waits, Return
<1>23. ASSUME NEW i \in Sids, ListChanged(i)
      PROVE  IInv'
  BY <1>23, HeadOfTail DEF ListChanged, Waits, Return
<1>24. ASSUME NEW i \in Sids, BadMessage(i)
      PROVE  IInv'
  BY <1>24, HeadOfTail DEF BadMessage, Waits, Return
<1>25. ASSUME NEW i \in Sids, ProcessExits(i)
      PROVE  IInv'
  BY <1>25, HeadOfTail DEF ProcessExits, Waits, Return
<1>26. ASSUME NEW i \in Sids, GraceEnds(i)
      PROVE  IInv'
  BY <1>26, HeadOfTail DEF GraceEnds, Waits, Return
<1>27. CASE UNCHANGED vars
  BY <1>27 DEF vars
<1> QED
  BY <1>1, <1>2, <1>3, <1>4, <1>5, <1>6, <1>7, <1>8, <1>9, <1>10, <1>11, <1>12, <1>13, <1>14, <1>15, <1>16, <1>17, <1>18, <1>19, <1>20, <1>21, <1>22, <1>23, <1>24, <1>25, <1>26, <1>27 DEF Next, RunStep
-----------------------------------------------------------------------------
\* The queue of the service: each operation is one its caller waits for, a
\* discovery has nothing behind it, and no tools are offered before it ends.
Operation == Runs \X {"discover", "close"}

QueueInv ==
    /\ operations \in Seq(Operation)
    /\ \A i \in 1 .. Len(operations) :
         /\ step[operations[i][1]] = Caller[operations[i][2]]
         /\ operations[i][2] = "discover" => i = Len(operations)
         /\ \A j \in 1 .. Len(operations) : operations[i][1] = operations[j][1] => i = j
    /\ \A r \in Runs : step[r] = "discover" =>
         operations # <<>> /\ operations[Len(operations)][1] = r
    /\ key # NoKey => operations = <<>>

LEMMA QueueAppend ==
    ASSUME NEW T, NEW s \in Seq(T), NEW e \in T
    PROVE  /\ Append(s, e) \in Seq(T) /\ Append(s, e) # <<>>
           /\ Len(s) \in Nat /\ Len(Append(s, e)) = Len(s) + 1
           /\ Append(s, e)[Len(s) + 1] = e
           /\ \A i \in 1 .. Len(s) : Append(s, e)[i] = s[i] /\ s[i] \in T
OBVIOUS

LEMMA QueueTail ==
    ASSUME NEW T, NEW s \in Seq(T), s # <<>>
    PROVE  /\ Tail(s) \in Seq(T) /\ Len(Tail(s)) = Len(s) - 1
           /\ Len(s) \in Nat \ {0} /\ Head(s) = s[1] /\ s[1] \in T
           /\ (Len(s) = 1 => Tail(s) = <<>>) /\ (Len(s) # 1 => Tail(s) # <<>>)
           /\ \A i \in 1 .. Len(Tail(s)) : /\ Tail(s)[i] = s[i + 1] /\ s[i + 1] \in T
                                           /\ i + 1 \in 1 .. Len(s)
<1>1. Len(s) \in Nat \ {0} /\ Head(s) = s[1]
  OBVIOUS
<1>2. s \in [1 .. Len(s) -> T]
  OBVIOUS
<1>3. s[1] \in T
  BY <1>1, <1>2
<1>4. /\ Tail(s) \in Seq(T) /\ Len(Tail(s)) = Len(s) - 1
      /\ \A i \in 1 .. Len(Tail(s)) : Tail(s)[i] = s[i + 1]
  OBVIOUS
<1>5. \A i \in 1 .. Len(Tail(s)) : i + 1 \in 1 .. Len(s)
  BY <1>1, <1>4
<1>6. (Len(s) = 1 => Tail(s) = <<>>) /\ (Len(s) # 1 => Tail(s) # <<>>)
  <2>1. \A t \in Seq(T) : Len(t) = 0 <=> t = <<>>
    OBVIOUS
  <2>2. Len(Tail(s)) = 0 <=> Len(s) = 1
    <3>1. Len(s) \in Nat /\ Len(Tail(s)) = Len(s) - 1
      BY <1>1, <1>4
    <3> QED
      BY <3>1
  <2> QED
    BY <1>4, <2>1, <2>2
<1> QED
  BY <1>1, <1>2, <1>3, <1>4, <1>5, <1>6

(* The caller at the head goes on; a discovery there was the only one.     *)
LEMMA HeadLeaves ==
    ASSUME AgentTypes, QueueInv, NEW r \in Runs, NEW next \in Steps \ {"discover"},
           operations # <<>>, Head(operations)[1] = r,
           operations' = Tail(operations), step' = [step EXCEPT ![r] = next],
           step[r] = "discover" \/ key' = key
    PROVE  QueueInv'
<1>1. step \in [Runs -> Steps]
  BY DEF AgentTypes
<1>2. /\ operations' \in Seq(Operation) /\ Len(operations') = Len(operations) - 1
      /\ Len(operations) \in Nat \ {0} /\ Head(operations) = operations[1] /\ operations[1] \in Operation
      /\ (Len(operations) = 1 => operations' = <<>>) /\ (Len(operations) # 1 => operations' # <<>>)
      /\ \A i \in 1 .. Len(operations') : /\ operations'[i] = operations[i + 1]
                                          /\ operations[i + 1] \in Operation
                                          /\ i + 1 \in 1 .. Len(operations)
  BY QueueTail DEF QueueInv
<1>3. /\ operations[1][1] = r /\ step[r] = Caller[operations[1][2]]
      /\ operations[1][2] \in {"discover", "close"}
      /\ operations[1][2] = "discover" => 1 = Len(operations)
  <2>1. 1 \in 1 .. Len(operations)
    BY <1>2
  <2>2. operations[1][1] = r /\ operations[1][2] \in {"discover", "close"}
    BY <1>2 DEF Operation
  <2> QED
    BY <2>1, <2>2 DEF QueueInv
<1>4. \A i \in 1 .. Len(operations') : operations'[i][1] \in Runs \ {r}
  <2> SUFFICES ASSUME NEW i \in 1 .. Len(operations')
               PROVE  operations'[i][1] \in Runs \ {r}
    OBVIOUS
  <2>1. operations'[i] = operations[i + 1] /\ operations[i + 1] \in Operation
        /\ i + 1 \in 1 .. Len(operations) /\ i + 1 # 1 /\ 1 \in 1 .. Len(operations)
    BY <1>2
  <2>2. operations[i + 1][1] # operations[1][1]
    BY <2>1 DEF QueueInv
  <2> QED
    BY <1>3, <2>1, <2>2 DEF Operation
<1>5. \A i \in 1 .. Len(operations') :
         /\ step'[operations'[i][1]] = Caller[operations'[i][2]]
         /\ operations'[i][2] = "discover" => i = Len(operations')
         /\ \A j \in 1 .. Len(operations') : operations'[i][1] = operations'[j][1] => i = j
  <2> SUFFICES ASSUME NEW i \in 1 .. Len(operations')
               PROVE  /\ step'[operations'[i][1]] = Caller[operations'[i][2]]
                      /\ operations'[i][2] = "discover" => i = Len(operations')
                      /\ \A j \in 1 .. Len(operations') : operations'[i][1] = operations'[j][1] => i = j
    OBVIOUS
  <2>1. operations'[i] = operations[i + 1] /\ i + 1 \in 1 .. Len(operations) /\ i \in Nat
    BY <1>2
  <2>2. step'[operations'[i][1]] = step[operations'[i][1]]
    BY <1>1, <1>4
  <2>3. /\ step[operations[i + 1][1]] = Caller[operations[i + 1][2]]
        /\ operations[i + 1][2] = "discover" => i + 1 = Len(operations)
    BY <2>1 DEF QueueInv
  <2>4. ASSUME NEW j \in 1 .. Len(operations'), operations'[i][1] = operations'[j][1]
        PROVE  i = j
    <3>1. operations'[j] = operations[j + 1] /\ j + 1 \in 1 .. Len(operations) /\ j \in Nat
      BY <1>2
    <3>2. i + 1 = j + 1
      BY <2>1, <2>4, <3>1 DEF QueueInv
    <3> QED
      BY <2>1, <3>1, <3>2
  <2>5. i + 1 = Len(operations) => i = Len(operations')
    <3> DEFINE n == Len(operations)
    <3>1. Len(operations') = n - 1 /\ n \in Nat /\ i \in Nat
      BY <1>2, <2>1
    <3> HIDE DEF n
    <3>2. i + 1 = n => i = n - 1
      BY <3>1
    <3> QED
      BY <3>1, <3>2 DEF n
  <2> QED
    BY <2>1, <2>2, <2>3, <2>4, <2>5
<1>6. ASSUME NEW q \in Runs, step'[q] = "discover"
      PROVE  operations' # <<>> /\ operations'[Len(operations')][1] = q
  <2>1. q # r /\ step[q] = "discover"
    BY <1>1, <1>6
  <2>2. operations[Len(operations)][1] = q
    BY <2>1 DEF QueueInv
  <2>3. Len(operations) # 1
    BY <1>3, <2>1, <2>2
  <2>4. Len(operations') \in 1 .. Len(operations') /\ Len(operations') + 1 = Len(operations)
    BY <1>2, <2>3
  <2>5. operations'[Len(operations')] = operations[Len(operations)]
    BY <1>2, <2>4
  <2> QED
    BY <1>2, <2>2, <2>3, <2>5
<1>7. key' # NoKey => operations' = <<>>
  <2>1. CASE step[r] = "discover"
    <3>1. operations[1][2] = "discover"
      BY <1>3, <2>1 DEF Caller
    <3> QED
      BY <1>2, <1>3, <3>1
  <2>2. CASE key' = key
    BY <2>2 DEF QueueInv
  <2> QED
    BY <2>1, <2>2
<1> QED
  BY <1>2, <1>5, <1>6, <1>7 DEF QueueInv

(* An operation is queued while no discovery is.                           *)
LEMMA OperationQueued ==
    ASSUME AgentTypes, QueueInv, NEW r \in Runs, NEW kind \in {"discover", "close"},
           \A q \in Runs : step[q] # "discover", step[r] # "closing",
           operations' = Append(operations, <<r, kind>>), key' = NoKey,
           step' = [step EXCEPT ![r] = Caller[kind]]
    PROVE  QueueInv'
<1> DEFINE e == <<r, kind>>
           n == Len(operations)
<1>1. e \in Operation /\ e[1] = r /\ e[2] = kind
  BY DEF Operation
<1>2. step \in [Runs -> Steps] /\ operations \in Seq(Operation) /\ operations' = Append(operations, e)
  BY DEF AgentTypes, QueueInv
<1> HIDE DEF e
<1>3. /\ operations' \in Seq(Operation) /\ operations' # <<>> /\ n \in Nat /\ Len(operations') = n + 1
      /\ operations'[n + 1] = e
      /\ \A i \in 1 .. n : operations'[i] = operations[i] /\ operations[i] \in Operation
  BY <1>1, <1>2, QueueAppend
<1>4. ASSUME NEW i \in 1 .. n
      PROVE  /\ operations[i][2] = "close" /\ operations[i][1] \in Runs \ {r}
             /\ step[operations[i][1]] = "closing"
  <2>1. operations[i] \in Operation /\ step[operations[i][1]] = Caller[operations[i][2]]
    BY <1>3 DEF QueueInv
  <2>2. operations[i][1] \in Runs /\ operations[i][2] \in {"discover", "close"}
    BY <2>1 DEF Operation
  <2>3. operations[i][2] # "discover"
    BY <2>1, <2>2 DEF Caller
  <2> QED
    BY <2>1, <2>2, <2>3 DEF Caller
<1>5. ASSUME NEW i \in 1 .. Len(operations')
      PROVE  /\ step'[operations'[i][1]] = Caller[operations'[i][2]]
             /\ operations'[i][2] = "discover" => i = Len(operations')
             /\ \A j \in 1 .. Len(operations') : operations'[i][1] = operations'[j][1] => i = j
  <2>1. CASE i = n + 1
    <3>1. \A j \in 1 .. Len(operations') : j # n + 1 => j \in 1 .. n
      BY <1>3
    <3> QED
      BY <1>1, <1>2, <1>3, <1>4, <2>1, <3>1
  <2>2. CASE i \in 1 .. n
    <3>1. operations'[i] = operations[i] /\ operations[i][2] = "close"
          /\ operations[i][1] \in Runs \ {r} /\ step[operations[i][1]] = "closing"
      BY <1>3, <1>4, <2>2
    <3>2. ASSUME NEW j \in 1 .. Len(operations'), operations'[i][1] = operations'[j][1]
          PROVE  i = j
      <4>1. j # n + 1
        BY <1>1, <1>3, <3>1, <3>2
      <4>2. j \in 1 .. n /\ operations'[j] = operations[j]
        BY <1>3, <4>1
      <4> QED
        BY <2>2, <3>1, <3>2, <4>2 DEF QueueInv
    <3> QED
      BY <1>2, <3>1, <3>2 DEF Caller
  <2> QED
    BY <1>3, <2>1, <2>2
<1>6. ASSUME NEW q \in Runs, step'[q] = "discover"
      PROVE  operations'[Len(operations')][1] = q
  BY <1>1, <1>2, <1>3, <1>6
<1> QED
  BY <1>3, <1>5, <1>6 DEF QueueInv

(* The queue is left alone, and nobody in it goes on.                      *)
LEMMA QueueStays ==
    ASSUME AgentTypes, QueueInv, operations' = operations, key' = key,
           \A q \in Runs : /\ step[q] \in {"discover", "closing"} => step'[q] = step[q]
                           /\ step'[q] = "discover" => step[q] = "discover"
    PROVE  QueueInv'
<1>1. \A i \in 1 .. Len(operations) : operations[i] \in Operation
  BY DEF QueueInv
<1>2. \A i \in 1 .. Len(operations) :
        operations[i][1] \in Runs /\ Caller[operations[i][2]] \in {"discover", "closing"}
  BY <1>1 DEF Operation, Caller
<1> QED
  BY <1>2 DEF QueueInv

(* A step of one run that neither discovers nor closes.                    *)
LEMMA OneMoves ==
    ASSUME AgentTypes, NEW r \in Runs, NEW next \in Steps \ {"discover"},
           step[r] \notin {"discover", "closing"}, step' = [step EXCEPT ![r] = next]
    PROVE  \A q \in Runs : /\ step[q] \in {"discover", "closing"} => step'[q] = step[q]
                           /\ step'[q] = "discover" => step[q] = "discover"
BY DEF AgentTypes

LEMMA InitQueueInv == Init => QueueInv
BY DEF Init, QueueInv

LEMMA StepQueueInv == IInv /\ QueueInv /\ [Next]_vars => QueueInv'
<1> SUFFICES ASSUME IInv, QueueInv, [Next]_vars
             PROVE  QueueInv'
  OBVIOUS
<1>0. AgentTypes /\ step \in [Runs -> Steps]
  BY DEF IInv, AgentTypes
<1>1. CASE EditConfig \/ UNCHANGED vars
  BY <1>0, <1>1, QueueStays DEF EditConfig, vars, agentVars, serviceVars
<1>2. ASSUME NEW r \in Runs, StartRun(r) \/ Inspect(r)
      PROVE  QueueInv'
  BY <1>0, <1>2, OneMoves, QueueStays DEF StartRun, Inspect, Goto, serviceVars, Steps
<1>3. ASSUME NEW r \in Runs, AbortRun(r)
      PROVE  QueueInv'
  <2>1. CASE step[r] = "discover" /\ Head(operations)[1] = r /\ stage = "authorizing"
             /\ step' = [step EXCEPT ![r] = "leaving"] /\ operations' = Tail(operations)
    <3>1. operations # <<>>
      BY <2>1 DEF QueueInv
    <3> QED
      BY <1>0, <2>1, <3>1, HeadLeaves DEF Steps
  <2>2. CASE step[r] \in {"approving", "requested"} /\ operations' = operations
    BY <1>0, <1>3, <2>2, OneMoves, QueueStays DEF AbortRun, Return, Goto, Steps
  <2>3. CASE step' = step /\ operations' = operations
    BY <1>0, <1>3, <2>3, QueueStays DEF AbortRun
  <2> QED
    BY <1>3, <2>1, <2>2, <2>3 DEF AbortRun, Goto
<1>4. ASSUME NEW r \in Runs, Refresh(r)
      PROVE  QueueInv'
  <2>1. step[r] = "inspected"
    BY <1>4 DEF Refresh
  <2>2. CASE operations' = Append(operations, <<r, "discover">>) /\ key' = NoKey /\ Goto(r, "discover")
    <3>1. \A q \in Runs : step[q] # "discover"
      BY <2>1 DEF IInv, TurnInv, InTurn
    <3> QED
      BY <1>0, <2>1, <2>2, <3>1, OperationQueued DEF Goto, Caller
  <2>3. CASE Goto(r, "working") /\ UNCHANGED <<key, operations>>
    BY <1>0, <2>1, <2>3, OneMoves, QueueStays DEF Goto, Steps
  <2> QED
    BY <1>4, <2>2, <2>3 DEF Refresh
<1>5. ASSUME NEW r \in Runs, BeginOperation(r) \/ CloseDone(r) \/ LoadConfiguration(r)
                             \/ AuthorizeWorkspace(r) \/ FinishDiscovery(r) \/ UndoDiscovery(r)
      PROVE  QueueInv'
  <2>1. operations # <<>> /\ Head(operations)[1] = r
    <3>1. \E kind \in {"discover", "close"} : operations # <<>> /\ Head(operations) = <<r, kind>>
      BY <1>5 DEF BeginOperation, CloseDone, LoadConfiguration, AuthorizeWorkspace, FinishDiscovery,
         UndoDiscovery, IsNext
    <3> QED
      BY <3>1
  <2>2. CASE UNCHANGED <<step, key, operations>>
    BY <1>0, <2>2, QueueStays
  <2>3. CASE /\ operations' = Tail(operations) /\ (step[r] = "discover" \/ key' = key)
             /\ Goto(r, "leaving") \/ Goto(r, "working") \/ Goto(r, "done")
    BY <1>0, <2>1, <2>3, HeadLeaves DEF Goto, Steps
  <2>4. CASE BeginOperation(r) \/ CloseDone(r) \/ UndoDiscovery(r)
    BY <2>2, <2>3, <2>4 DEF BeginOperation, CloseDone, UndoDiscovery, Throw
  <2>5. CASE LoadConfiguration(r) \/ AuthorizeWorkspace(r)
    BY <2>2, <2>3, <2>5 DEF LoadConfiguration, AuthorizeWorkspace, StartServers, Throw
  <2>6. CASE FinishDiscovery(r)
    BY <2>2, <2>3, <2>6 DEF FinishDiscovery, IsNext, Caller
  <2> QED
    BY <1>5, <2>4, <2>5, <2>6
<1>6. ASSUME NEW r \in Runs, \/ LookUpTool(r) \/ DropSession(r) \/ CallTool(r) \/ Approve(r) \/ Deny(r)
                             \/ AnswerCall(r) \/ CallTimesOut(r) \/ BadResult(r)
      PROVE  QueueInv'
  <2>1. UNCHANGED <<key, operations>>
    BY <1>6 DEF LookUpTool, DropSession, CallTool, Approve, Deny, AnswerCall, CallTimesOut, BadResult, callFrame
  <2>2. /\ step[r] \notin {"discover", "closing"}
        /\ \E next \in Steps \ {"discover"} : step' = [step EXCEPT ![r] = next]
    BY <1>6 DEF LookUpTool, DropSession, CallTool, Approve, Deny, AnswerCall, CallTimesOut, BadResult,
       Return, Goto, Steps
  <2> QED
    BY <1>0, <2>1, <2>2, OneMoves, QueueStays
<1>7. ASSUME NEW r \in Runs, Leave(r)
      PROVE  QueueInv'
  <2>1. step[r] \in {"working", "leaving"}
    BY <1>7 DEF Leave
  <2>2. CASE active = {r}
    <3>1. \A q \in Runs : step[q] # "discover"
      BY <2>1, <2>2 DEF IInv, RefreshInv
    <3> QED
      BY <1>0, <1>7, <2>1, <2>2, <3>1, OperationQueued DEF Leave, Goto, Caller
  <2>3. CASE active # {r}
    BY <1>0, <1>7, <2>1, <2>3, OneMoves, QueueStays DEF Leave, Goto, Steps
  <2> QED
    BY <2>2, <2>3
<1>8. ASSUME NEW i \in Sids, \/ AnswerStart(i) \/ StartFails(i) \/ ListChanged(i) \/ BadMessage(i)
                             \/ ProcessExits(i) \/ GraceEnds(i)
      PROVE  QueueInv'
  <2>1. UNCHANGED <<key, operations>>
    BY <1>8 DEF AnswerStart, StartFails, ListChanged, BadMessage, ProcessExits, GraceEnds, sessionFrame
  <2>2. CASE ProcessExits(i)
    <3>1. \A q \in Runs : /\ step[q] \in {"discover", "closing"} => step'[q] = step[q]
                          /\ step'[q] = "discover" => step[q] = "discover"
      BY <2>2 DEF ProcessExits, Waits
    <3> QED
      BY <1>0, <2>1, <3>1, QueueStays
  <2>3. CASE \E r \in Runs : Waits(r, i) /\ Return(r)
    BY <1>0, <2>1, <2>3, OneMoves, QueueStays DEF Waits, Return, Goto, Steps
  <2>4. CASE step' = step
    BY <1>0, <2>1, <2>4, QueueStays
  <2> QED
    BY <1>8, <2>2, <2>3, <2>4 DEF AnswerStart, StartFails, ListChanged, BadMessage, GraceEnds
<1> QED
  BY <1>1, <1>2, <1>3, <1>4, <1>5, <1>6, <1>7, <1>8 DEF Next, RunStep
-----------------------------------------------------------------------------
(* The service's part of the state.                                        *)
SessionType == [server : Servers \cup {0}, config : Configs \cup {NoKey}, state : States,
                stale : BOOLEAN, close : Closes, proc : {"none", "alive", "dead"}]
CallType == [tool : Tool \cup {NoCall.tool}, sid : Sids \cup {0}]

ServiceTypes ==
    /\ call \in [Runs -> CallType]
    /\ sessions \in [Servers -> Sids \cup {0}]
    /\ session \in [Sids -> SessionType]
    /\ spawned \in 0 .. MaxSessions
    /\ registered \subseteq Tool
    /\ awaited \subseteq Sids
    /\ stage \in {"idle", "clearing", "authorizing", "starting", "undoing"}
    /\ stage = "authorizing" => loaded \in Configs

Serving(i) == session[i].proc = "alive" /\ session[i].close = "open"

\* While an operation is under way the map is empty; those that start have
\* a server each.
OperationInv ==
    /\ stage # "idle" => \A s \in Servers : sessions[s] = 0
    /\ stage = "starting" =>
         \A i \in awaited : /\ session[i].server \in Servers /\ session[i].config \in Configs
                            /\ \A j \in awaited : session[i].server = session[j].server => i = j

\* The call under way, behind whose turn nobody else lists a session: the
\* map holds its session or none.
CallSessionInv ==
    \A r \in Runs :
        /\ step[r] \in {"approving", "requested", "dropping", "discarding"} =>
             call[r].tool \in Tool /\ call[r].sid \in Sids
        /\ step[r] \in {"requested", "dropping", "discarding"} =>
             sessions[call[r].tool.server] \in {0, call[r].sid}

ServiceInv == ServiceTypes /\ OperationInv /\ CallSessionInv /\ NoStrayServer

\* What a step that spawns nothing leaves of the sessions.
Quiet ==
    /\ session' \in [Sids -> SessionType]
    /\ \A i \in Sids : Serving(i)' => Serving(i)
    /\ \A i \in awaited : session'[i].server = session[i].server /\ session'[i].config = session[i].config

LEMMA ClosingType ==
    ASSUME NEW ss \in [Sids -> SessionType], NEW S
    PROVE  /\ Closing(ss, S) \in [Sids -> SessionType]
           /\ \A i \in Sids :
                /\ Closing(ss, S)[i].server = ss[i].server
                /\ Closing(ss, S)[i].config = ss[i].config
                /\ Closing(ss, S)[i].proc = ss[i].proc
                /\ Closing(ss, S)[i].close = "open" => ss[i].close = "open" /\ i \notin S
<1> DEFINE shut(i) == [ss[i] EXCEPT !.close = IF ss[i].proc = "dead" THEN "closed" ELSE "eof"]
<1>1. Closing(ss, S) = [i \in Sids |-> IF i \in S /\ ss[i].close = "open" THEN shut(i) ELSE ss[i]]
  BY DEF Closing
<1>2. \A i \in Sids : /\ shut(i) \in SessionType
                      /\ shut(i).server = ss[i].server /\ shut(i).config = ss[i].config
                      /\ shut(i).proc = ss[i].proc /\ shut(i).close # "open"
  <2> SUFFICES ASSUME NEW i \in Sids
               PROVE  /\ shut(i) \in SessionType
                      /\ shut(i).server = ss[i].server /\ shut(i).config = ss[i].config
                      /\ shut(i).proc = ss[i].proc /\ shut(i).close # "open"
    OBVIOUS
  <2>1. ss[i] \in SessionType
    OBVIOUS
  <2> QED
    BY <2>1 DEF SessionType, Closes
<1> HIDE DEF shut
<1> QED
  BY <1>1, <1>2

LEMMA ClosingIsQuiet ==
    ASSUME ServiceTypes, NEW S, session' = Closing(session, S)
    PROVE  Quiet
BY ClosingType DEF ServiceTypes, Quiet, Serving

(* One session is changed, and its process not revived.                    *)
LEMMA ChangeIsQuiet ==
    ASSUME ServiceTypes, NEW i \in Sids, NEW changed \in SessionType,
           session' = [session EXCEPT ![i] = changed],
           changed.proc = "alive" /\ changed.close = "open" => Serving(i),
           i \in awaited => changed.server = session[i].server /\ changed.config = session[i].config
    PROVE  Quiet
<1>1. session \in [Sids -> SessionType]
  BY DEF ServiceTypes
<1>2. \A j \in Sids : session'[j] = IF j = i THEN changed ELSE session[j]
  BY <1>1
<1>3. awaited \subseteq Sids
  BY DEF ServiceTypes
<1> QED
  BY <1>1, <1>2, <1>3 DEF Quiet, Serving

(* A session fails while it starts, if it does.                            *)
LEMMA BrokenFields ==
    ASSUME NEW ss \in [Sids -> SessionType], NEW i \in Sids
    PROVE  /\ Broken(ss, i) = [ss EXCEPT ![i] = Broken(ss, i)[i]]
           /\ Broken(ss, i)[i] \in SessionType
           /\ Broken(ss, i)[i].server = ss[i].server /\ Broken(ss, i)[i].config = ss[i].config
           /\ Broken(ss, i)[i].proc = ss[i].proc /\ Broken(ss, i)[i].close = ss[i].close
<1> DEFINE state == IF ss[i].state = "starting" THEN "failed" ELSE ss[i].state
           broken == [ss[i] EXCEPT !.state = state]
<1>1. ss[i] \in SessionType
  OBVIOUS
<1>2. broken \in SessionType /\ broken.server = ss[i].server /\ broken.config = ss[i].config
      /\ broken.proc = ss[i].proc /\ broken.close = ss[i].close
  BY <1>1 DEF SessionType, States
<1>3. Broken(ss, i) = [ss EXCEPT ![i] = broken]
  BY DEF Broken
<1> HIDE DEF broken
<1> QED
  BY <1>2, <1>3

(* Nobody but a discovery adds to the map, and only ended sessions leave   *)
(* it unless an operation has closed all.                                  *)
LEMMA QuietKeeps ==
    ASSUME ServiceTypes, OperationInv, NoStrayServer, Quiet,
           stage' = stage, awaited' = awaited, sessions' = sessions
    PROVE  OperationInv' /\ NoStrayServer'
<1>1. Listed' = Listed
  BY DEF Listed
<1>2. NoStrayServer'
  BY <1>1 DEF NoStrayServer, Quiet, Serving
<1>3. OperationInv'
  BY DEF OperationInv, Quiet, ServiceTypes
<1> QED
  BY <1>2, <1>3

(* A session and its process by themselves.                                *)
LEMMA SessionStepIsQuiet ==
    ASSUME ServiceTypes, NEW i \in Sids,
           AnswerStart(i) \/ StartFails(i) \/ ListChanged(i) \/ BadMessage(i) \/ ProcessExits(i)
             \/ GraceEnds(i)
    PROVE  Quiet
<1>1. session \in [Sids -> SessionType] /\ session[i] \in SessionType /\ awaited \subseteq Sids
  BY DEF ServiceTypes
<1>2. CASE AnswerStart(i)
  <2> DEFINE changed == [session[i] EXCEPT !.state = "ready"]
  <2>1. /\ changed \in SessionType /\ changed.server = session[i].server /\ changed.config = session[i].config
        /\ changed.proc = session[i].proc /\ changed.close = session[i].close
    BY <1>1 DEF SessionType, States
  <2>2. session' = [session EXCEPT ![i] = changed]
    BY <1>2 DEF AnswerStart
  <2> HIDE DEF changed
  <2> QED
    BY <2>1, <2>2, ChangeIsQuiet DEF Serving
<1>3. CASE ListChanged(i)
  <2> DEFINE changed == [session[i] EXCEPT !.stale = TRUE]
  <2>1. /\ changed \in SessionType /\ changed.server = session[i].server /\ changed.config = session[i].config
        /\ changed.proc = session[i].proc /\ changed.close = session[i].close
    BY <1>1 DEF SessionType
  <2>2. session' = [session EXCEPT ![i] = changed]
    BY <1>3 DEF ListChanged
  <2> HIDE DEF changed
  <2> QED
    BY <2>1, <2>2, ChangeIsQuiet DEF Serving
<1>4. CASE GraceEnds(i)
  <2> DEFINE close == IF session[i].close = "eof" THEN "term" ELSE "closed"
             changed == [session[i] EXCEPT !.close = close]
  <2>1. /\ changed \in SessionType /\ changed.server = session[i].server /\ changed.config = session[i].config
        /\ changed.close # "open"
    BY <1>1 DEF SessionType, Closes
  <2>2. session' = [session EXCEPT ![i] = changed]
    BY <1>4 DEF GraceEnds
  <2> HIDE DEF changed
  <2> QED
    BY <2>1, <2>2, ChangeIsQuiet
<1>5. CASE StartFails(i) \/ BadMessage(i)
  <2> DEFINE ss == Closing(session, {i})
  <2>1. session' = Broken(ss, i)
    BY <1>5 DEF StartFails, BadMessage
  <2>2. /\ ss \in [Sids -> SessionType]
        /\ \A j \in Sids : /\ ss[j].server = session[j].server /\ ss[j].config = session[j].config
                           /\ ss[j].proc = session[j].proc
                           /\ ss[j].close = "open" => session[j].close = "open"
    BY <1>1, ClosingType
  <2> HIDE DEF ss
  <2>3. /\ session' \in [Sids -> SessionType]
        /\ \A j \in Sids : /\ session'[j].server = ss[j].server /\ session'[j].config = ss[j].config
                           /\ session'[j].proc = ss[j].proc /\ session'[j].close = ss[j].close
    BY <2>1, <2>2, BrokenFields
  <2> QED
    BY <1>1, <2>2, <2>3 DEF Quiet, Serving
<1>6. CASE ProcessExits(i)
  <2>1. CASE i \in Listed \cup awaited
    <3> DEFINE ss == Broken(session, i)
               changed == [ss[i] EXCEPT !.proc = "dead", !.close = "closed"]
    <3>1. session' = [ss EXCEPT ![i] = changed]
      BY <1>6, <2>1 DEF ProcessExits
    <3>2. /\ ss = [session EXCEPT ![i] = ss[i]] /\ ss[i] \in SessionType
          /\ ss[i].server = session[i].server /\ ss[i].config = session[i].config
      BY <1>1, BrokenFields
    <3> HIDE DEF ss
    <3>3. /\ changed \in SessionType /\ changed.server = session[i].server
          /\ changed.config = session[i].config /\ changed.proc # "alive"
      BY <3>2 DEF SessionType, Closes
    <3> HIDE DEF changed
    <3>4. session' = [session EXCEPT ![i] = changed]
      BY <1>1, <3>1, <3>2
    <3> QED
      BY <3>3, <3>4, ChangeIsQuiet
  <2>2. CASE i \notin Listed \cup awaited
    <3>1. session' = [session EXCEPT ![i] = EndedSession]
      BY <1>6, <2>2 DEF ProcessExits
    <3>2. EndedSession \in SessionType /\ EndedSession.proc = "dead"
      BY DEF EndedSession, NoSession, SessionType, States, Closes
    <3> QED
      BY <2>2, <3>1, <3>2, ChangeIsQuiet
  <2> QED
    BY <2>1, <2>2
<1> QED
  BY <1>2, <1>3, <1>4, <1>5, <1>6

(* An abort closes the session of the call, or those that start.           *)
LEMMA AbortIsQuiet ==
    ASSUME ServiceTypes, NEW r \in Runs, AbortRun(r)
    PROVE  Quiet
<1>1. session \in [Sids -> SessionType] /\ awaited \subseteq Sids
  BY DEF ServiceTypes
<1>2. CASE session' = session
  BY <1>1, <1>2 DEF Quiet, Serving
<1>3. CASE session' = Closing(session, {call[r].sid})
  BY <1>3, ClosingIsQuiet
<1>4. CASE session' = LET S == {i \in awaited : session[i].state = "starting"}
                      IN [i \in Sids |-> IF i \in S
                                         THEN [Closing(session, S)[i] EXCEPT !.state = "failed"]
                                         ELSE session[i]]
  <2> DEFINE S == {i \in awaited : session[i].state = "starting"}
             ss == Closing(session, S)
             failed(i) == [ss[i] EXCEPT !.state = "failed"]
  <2>1. session' = [i \in Sids |-> IF i \in S THEN failed(i) ELSE session[i]]
    BY <1>4
  <2>2. /\ ss \in [Sids -> SessionType]
        /\ \A j \in Sids : /\ ss[j].server = session[j].server /\ ss[j].config = session[j].config
                           /\ ss[j].proc = session[j].proc
                           /\ ss[j].close = "open" => session[j].close = "open"
    BY <1>1, ClosingType
  <2> HIDE DEF ss, S
  <2>3. \A j \in Sids : /\ failed(j) \in SessionType
                        /\ failed(j).server = ss[j].server /\ failed(j).config = ss[j].config
                        /\ failed(j).proc = ss[j].proc /\ failed(j).close = ss[j].close
    <3> SUFFICES ASSUME NEW j \in Sids
                 PROVE  /\ failed(j) \in SessionType
                        /\ failed(j).server = ss[j].server /\ failed(j).config = ss[j].config
                        /\ failed(j).proc = ss[j].proc /\ failed(j).close = ss[j].close
      OBVIOUS
    <3>1. ss[j] \in SessionType
      BY <2>2
    <3> QED
      BY <3>1 DEF SessionType, States
  <2> HIDE DEF failed
  <2> QED
    BY <1>1, <2>1, <2>2, <2>3 DEF Quiet, Serving
<1> QED
  BY <1>2, <1>3, <1>4 DEF AbortRun

Calling == {"approving", "requested", "dropping", "discarding"}

(* A call goes on or ends, and the map loses sessions at most.             *)
LEMMA CallsStay ==
    ASSUME IInv, ServiceTypes, CallSessionInv, call' \in [Runs -> CallType],
           \A s \in Servers : sessions'[s] \in {0, sessions[s]},
           \A r \in Runs : \/ step'[r] \notin Calling
                           \/ /\ call'[r] = call[r]
                              /\ \/ step'[r] = step[r]
                                 \/ step[r] \in Calling \ {"approving"} /\ step'[r] # "approving"
    PROVE  CallSessionInv'
<1> SUFFICES ASSUME NEW r \in Runs, step'[r] \in Calling
             PROVE  /\ call'[r].tool \in Tool /\ call'[r].sid \in Sids
                    /\ step'[r] \in {"requested", "dropping", "discarding"} =>
                         sessions'[call'[r].tool.server] \in {0, call'[r].sid}
  BY DEF CallSessionInv, Calling
<1>1. call'[r] = call[r] /\ step[r] \in Calling
  OBVIOUS
<1>2. call[r].tool \in Tool /\ call[r].sid \in Sids
  BY <1>1 DEF CallSessionInv, Calling
<1>3. call[r].tool.server \in Servers
  BY <1>2 DEF Tool
<1>4. ASSUME step'[r] \in {"requested", "dropping", "discarding"}
      PROVE  sessions[call[r].tool.server] \in {0, call[r].sid}
  BY <1>1, <1>4 DEF CallSessionInv, Calling
<1> QED
  BY <1>1, <1>2, <1>3, <1>4

LEMMA NoCallType == NoCall \in CallType
BY DEF NoCall, CallType, NoKey

\* Run r's call is over, or the calls are what they were.
LEMMA ReturnTypes ==
    ASSUME ServiceTypes, NEW r \in Runs, Return(r) \/ call' = call
    PROVE  call' \in [Runs -> CallType]
BY NoCallType DEF ServiceTypes, Return

LEMMA StillIsQuiet ==
    ASSUME ServiceTypes, session' = session
    PROVE  Quiet
BY DEF ServiceTypes, Quiet, Serving

(* The agent's own steps leave the service alone, and a call that goes on  *)
(* keeps its session.                                                      *)
LEMMA AgentStepKeeps ==
    ASSUME IInv, ServiceInv, serviceVars' = serviceVars,
           \/ EditConfig
           \/ \E r \in Runs : \/ StartRun(r) \/ Inspect(r) \/ Deny(r) \/ AnswerCall(r)
    PROVE  ServiceInv'
<1> USE DEF ServiceInv
<1>1. /\ call' \in [Runs -> CallType] /\ registered' \subseteq Tool
      /\ \A r \in Runs : \/ step'[r] \notin Calling
                         \/ call'[r] = call[r] /\ step'[r] = step[r]
  <2>1. call \in [Runs -> CallType] /\ registered \subseteq Tool /\ step \in [Runs -> Steps]
    BY DEF ServiceTypes, IInv, AgentTypes
  <2>2. CASE EditConfig
    BY <2>1, <2>2 DEF EditConfig, agentVars
  <2>3. CASE \E r \in Runs : StartRun(r) \/ Inspect(r)
    BY <2>1, <2>3 DEF StartRun, Inspect, Goto, Calling
  <2>4. CASE \E r \in Runs : Deny(r) \/ AnswerCall(r)
    BY <2>1, <2>4, NoCallType DEF Deny, AnswerCall, Return, Goto, Calling, callFrame
  <2> QED
    BY <2>2, <2>3, <2>4
<1>2. OperationInv' /\ NoStrayServer'
  BY StillIsQuiet, QuietKeeps DEF serviceVars
<1>3. ServiceTypes'
  BY <1>1 DEF ServiceTypes, serviceVars
<1>4. CallSessionInv'
  BY <1>1, CallsStay DEF serviceVars
<1> QED
  BY <1>2, <1>3, <1>4

(* A call is made, finds its session, and is approved.                     *)
LEMMA CallStepKeeps ==
    ASSUME IInv, ServiceInv, NEW r \in Runs, CallTool(r) \/ LookUpTool(r) \/ Approve(r)
    PROVE  ServiceInv'
<1> USE DEF ServiceInv
<1>1. /\ call \in [Runs -> CallType] /\ step \in [Runs -> Steps] /\ registered \subseteq Tool
      /\ sessions \in [Servers -> Sids \cup {0}]
  BY DEF ServiceTypes, IInv, AgentTypes
<1>2. UNCHANGED <<registered, sessions, session, spawned, stage, loaded, awaited>>
  BY DEF CallTool, LookUpTool, Approve, callFrame
<1>3. CASE step[r] = "approving" /\ step' = [step EXCEPT ![r] = "requested"] /\ call' = call
           /\ StillCurrent(r)
  <2>1. call[r].tool \in Tool /\ call[r].sid \in Sids
    BY <1>3 DEF CallSessionInv
  <2>2. sessions[call[r].tool.server] = call[r].sid
    BY <1>3 DEF StillCurrent
  <2> QED
    BY <1>1, <1>2, <1>3, <2>1, <2>2, StillIsQuiet, QuietKeeps
    DEF ServiceTypes, CallSessionInv
<1>4. CASE step[r] = "approving" /\ step' = [step EXCEPT ![r] = "dropping"] /\ call' = call
           /\ StillCurrent(r)
  <2>1. call[r].tool \in Tool /\ call[r].sid \in Sids
    BY <1>4 DEF CallSessionInv
  <2>2. sessions[call[r].tool.server] = call[r].sid
    BY <1>4 DEF StillCurrent
  <2> QED
    BY <1>1, <1>2, <1>4, <2>1, <2>2, StillIsQuiet, QuietKeeps
    DEF ServiceTypes, CallSessionInv
<1>5. CASE Return(r)
  <2>1. call' \in [Runs -> CallType]
    BY <1>5, ReturnTypes
  <2>2. \A q \in Runs : step'[q] \notin Calling \/ (call'[q] = call[q] /\ step'[q] = step[q])
    BY <1>1, <1>5 DEF Return, Goto, Calling
  <2> QED
    BY <1>1, <1>2, <2>1, <2>2, StillIsQuiet, QuietKeeps, CallsStay DEF ServiceTypes
<1>6. CASE CallTool(r)
  <2>1. PICK t \in registered : call' = [call EXCEPT ![r] = [tool |-> t, sid |-> 0]]
    BY <1>6 DEF CallTool
  <2>2. call' \in [Runs -> CallType]
    BY <1>1, <2>1 DEF CallType
  <2>3. \A q \in Runs : step'[q] \notin Calling \/ (call'[q] = call[q] /\ step'[q] = step[q])
    BY <1>1, <1>6, <2>1 DEF CallTool, Goto, Calling
  <2> QED
    BY <1>1, <1>2, <2>2, <2>3, StillIsQuiet, QuietKeeps, CallsStay DEF ServiceTypes
<1>7. CASE LookUpTool(r) /\ ~Return(r)
  <2> DEFINE t == call[r].tool
             found == [call[r] EXCEPT !.sid = sessions[t.server]]
  <2>1. /\ step' = [step EXCEPT ![r] = "approving"] /\ call' = [call EXCEPT ![r] = found]
        /\ t \in registered /\ sessions[t.server] # 0
    BY <1>7 DEF LookUpTool, Goto, Callable
  <2>2. t \in Tool /\ sessions[t.server] \in Sids
    BY <1>1, <2>1 DEF Tool
  <2>3. found \in CallType /\ found.tool = t /\ found.sid \in Sids
    BY <1>1, <2>2 DEF CallType
  <2> HIDE DEF found, t
  <2>4. call' \in [Runs -> CallType] /\ call'[r] = found
    BY <1>1, <2>1, <2>3
  <2>5. CallSessionInv'
    <3> SUFFICES ASSUME NEW q \in Runs
                 PROVE  /\ step'[q] \in {"approving", "requested", "dropping", "discarding"} =>
                             call'[q].tool \in Tool /\ call'[q].sid \in Sids
                        /\ step'[q] \in {"requested", "dropping", "discarding"} =>
                             sessions'[call'[q].tool.server] \in {0, call'[q].sid}
      BY DEF CallSessionInv
    <3>1. CASE q = r
      BY <1>1, <2>1, <2>2, <2>3, <2>4, <3>1
    <3>2. CASE q # r
      BY <1>1, <1>2, <2>1, <3>2 DEF CallSessionInv
    <3> QED
      BY <3>1, <3>2
  <2> QED
    BY <1>1, <1>2, <2>4, <2>5, StillIsQuiet, QuietKeeps DEF ServiceTypes
<1> QED
  BY <1>3, <1>4, <1>5, <1>6, <1>7 DEF Approve, LookUpTool, Goto

(* Servers that answer, misbehave, exit or are killed, requests that fail, *)
(* and aborts: sessions end, and no operation moves but one that gives up  *)
(* before it starts anything.                                              *)
LEMMA SessionsKeep ==
    ASSUME IInv, ServiceInv,
           \/ \E i \in Sids : \/ AnswerStart(i) \/ StartFails(i) \/ ListChanged(i)
                              \/ BadMessage(i) \/ ProcessExits(i) \/ GraceEnds(i)
           \/ \E r \in Runs : CallTimesOut(r) \/ BadResult(r) \/ AbortRun(r)
    PROVE  ServiceInv'
<1> USE DEF ServiceInv
<1>1. /\ call \in [Runs -> CallType] /\ step \in [Runs -> Steps]
      /\ sessions \in [Servers -> Sids \cup {0}]
  BY DEF ServiceTypes, IInv, AgentTypes
<1>2. Quiet
  <2>1. CASE \E i \in Sids : \/ AnswerStart(i) \/ StartFails(i) \/ ListChanged(i)
                             \/ BadMessage(i) \/ ProcessExits(i) \/ GraceEnds(i)
    BY <2>1, SessionStepIsQuiet
  <2>2. CASE \E r \in Runs : CallTimesOut(r) \/ BadResult(r)
    BY <2>2, ClosingIsQuiet DEF CallTimesOut, BadResult
  <2>3. CASE \E r \in Runs : AbortRun(r)
    BY <2>3, AbortIsQuiet
  <2> QED
    BY <2>1, <2>2, <2>3
<1>3. /\ UNCHANGED <<registered, sessions, spawned, awaited>>
      /\ \/ UNCHANGED <<stage, loaded>>
         \/ stage = "authorizing" /\ stage' = "idle"
  BY DEF AnswerStart, StartFails, ListChanged, BadMessage, ProcessExits, GraceEnds, CallTimesOut,
         BadResult, AbortRun, sessionFrame, callFrame
<1>4. /\ call' \in [Runs -> CallType]
      /\ \A r \in Runs : \/ step'[r] \notin Calling
                         \/ /\ call'[r] = call[r]
                            /\ \/ step'[r] = step[r]
                               \/ step[r] \in Calling \ {"approving"} /\ step'[r] # "approving"
  <2>1. CASE \E r \in Runs : Return(r)
    BY <1>1, <2>1, ReturnTypes DEF Return, Goto, Calling
  <2>2. CASE /\ call' = call
             /\ \A r \in Runs : \/ step'[r] = step[r]
                                \/ step'[r] = "leaving"
                                \/ step[r] = "requested" /\ step'[r] \in {"dropping", "discarding"}
    BY <1>1, <2>2 DEF Calling
  <2>3. CASE \E i \in Sids : BadMessage(i)
    BY <2>1, <2>2, <2>3 DEF BadMessage
  <2>4. CASE \E i \in Sids : AnswerStart(i) \/ StartFails(i) \/ ListChanged(i) \/ GraceEnds(i)
    BY <1>1, <2>2, <2>4 DEF AnswerStart, StartFails, ListChanged, GraceEnds
  <2>5. CASE \E i \in Sids : ProcessExits(i)
    BY <1>1, <2>2, <2>5 DEF ProcessExits, Waits
  <2>6. CASE \E r \in Runs : CallTimesOut(r) \/ BadResult(r)
    BY <1>1, <2>2, <2>6 DEF CallTimesOut, BadResult, Goto
  <2>7. CASE \E r \in Runs : AbortRun(r)
    <3> PICK r \in Runs : AbortRun(r)
      BY <2>7
    <3>1. \/ Return(r)
          \/ call' = call /\ step[r] = "requested" /\ step' = [step EXCEPT ![r] = "dropping"]
          \/ call' = call /\ step' = [step EXCEPT ![r] = "leaving"]
          \/ UNCHANGED <<call, step>>
      BY DEF AbortRun, Goto
    <3> QED
      BY <1>1, <2>1, <2>2, <3>1
  <2> QED
    BY <2>3, <2>4, <2>5, <2>6, <2>7
<1>5. ServiceTypes'
  BY <1>2, <1>3, <1>4 DEF ServiceTypes, Quiet
<1>6. CallSessionInv'
  BY <1>1, <1>3, <1>4, CallsStay
<1>7. OperationInv' /\ NoStrayServer'
  <2>1. CASE UNCHANGED <<stage, loaded>>
    BY <1>2, <1>3, <2>1, QuietKeeps
  <2>2. CASE stage = "authorizing" /\ stage' = "idle"
    <3>1. Listed' = Listed
      BY <1>3 DEF Listed
    <3> QED
      BY <1>2, <2>2, <3>1 DEF OperationInv, NoStrayServer, Quiet, Serving
  <2> QED
    BY <1>3, <2>1, <2>2
<1> QED
  BY <1>5, <1>6, <1>7

(* A session leaves the map once it is closed.                             *)
LEMMA DropKeeps ==
    ASSUME IInv, ServiceInv, NEW r \in Runs, DropSession(r)
    PROVE  ServiceInv'
<1> USE DEF ServiceInv
<1> DEFINE s == call[r].tool.server
           sid == call[r].sid
<1>1. /\ call \in [Runs -> CallType] /\ step \in [Runs -> Steps]
      /\ sessions \in [Servers -> Sids \cup {0}] /\ session \in [Sids -> SessionType]
  BY DEF ServiceTypes, IInv, AgentTypes
<1>2. /\ s \in Servers /\ sid \in Sids /\ sessions[s] \in {0, sid}
      /\ session[sid].close = "closed"
  BY DEF DropSession, CallSessionInv, Tool, Closed
<1>3. sessions' = [sessions EXCEPT ![s] = 0] \/ sessions' = sessions
  BY DEF DropSession
<1> HIDE DEF s, sid
<1>4. UNCHANGED <<registered, session, spawned, stage, loaded, awaited>> /\ Return(r)
  BY DEF DropSession, callFrame
<1>5. /\ sessions' \in [Servers -> Sids \cup {0}]
      /\ \A x \in Servers : sessions'[x] \in {0, sessions[x]}
      /\ \A i \in Listed : i \in Listed' \/ i = sid
  BY <1>1, <1>2, <1>3 DEF Listed
<1>6. call' \in [Runs -> CallType]
  BY <1>4, ReturnTypes
<1>7. ServiceTypes'
  BY <1>4, <1>5, <1>6 DEF ServiceTypes
<1>8. \A q \in Runs : step'[q] \notin Calling \/ (call'[q] = call[q] /\ step'[q] = step[q])
  BY <1>1, <1>4 DEF Return, Goto, Calling
<1>9. CallSessionInv'
  BY <1>5, <1>6, <1>8, CallsStay
<1>10. NoStrayServer'
  BY <1>2, <1>4, <1>5 DEF NoStrayServer
<1>11. OperationInv'
  BY <1>4, <1>5 DEF OperationInv
<1> QED
  BY <1>7, <1>9, <1>10, <1>11

\* A step that makes no call and starts no process.
OperationFrame == UNCHANGED <<registered, call, spawned>>

LEMMA NotCalling ==
    ASSUME IInv, NEW r \in Runs, step[r] = "discover", NEW q \in Runs
    PROVE  step[q] \notin Calling
BY DEF IInv, TurnInv, InTurn, Calling

(* closeSessions empties the map and asks every session to end.            *)
LEMMA ClearingKeeps ==
    ASSUME IInv, ServiceInv, NEW r \in Runs, BeginOperation(r)
    PROVE  ServiceInv'
<1> USE DEF ServiceInv
<1>1. /\ call \in [Runs -> CallType] /\ step \in [Runs -> Steps]
      /\ sessions \in [Servers -> Sids \cup {0}] /\ session \in [Sids -> SessionType]
  BY DEF ServiceTypes, IInv, AgentTypes
<1>2. stage = "idle" /\ OperationFrame
  BY DEF BeginOperation, OperationFrame
<1>3. CASE ClearSessions /\ UNCHANGED step
  <2>1. /\ session' \in [Sids -> SessionType]
        /\ \A i \in Sids : Serving(i)' => Serving(i) /\ i \notin Listed
    BY <1>1, <1>3, ClosingType DEF ClearSessions, Serving
  <2>2. awaited' \subseteq Sids /\ sessions' \in [Servers -> Sids \cup {0}]
    BY <1>1, <1>3 DEF ClearSessions, Listed, Sids
  <2>3. ServiceTypes'
    BY <1>2, <1>3, <2>1, <2>2 DEF ServiceTypes, ClearSessions, OperationFrame
  <2>4. OperationInv'
    BY <1>3 DEF OperationInv, ClearSessions
  <2>5. NoStrayServer'
    BY <1>2, <2>1 DEF NoStrayServer, Serving
  <2>6. CallSessionInv'
    BY <1>1, <1>2, <1>3, CallsStay DEF ClearSessions, OperationFrame
  <2> QED
    BY <2>3, <2>4, <2>5, <2>6
<1>4. CASE Throw(r) /\ UNCHANGED <<sessions, session>>
  <2>1. Listed' = Listed
    BY <1>4 DEF Listed
  <2>2. NoStrayServer' /\ OperationInv'
    BY <1>2, <1>4, <2>1 DEF NoStrayServer, OperationInv, Throw
  <2>3. ServiceTypes'
    BY <1>2, <1>4 DEF ServiceTypes, Throw, OperationFrame
  <2>4. \A q \in Runs : step'[q] \notin Calling \/ step'[q] = step[q]
    BY <1>1, <1>4 DEF Throw, Goto, Calling
  <2>5. CallSessionInv'
    BY <1>1, <1>2, <1>4, <2>4, CallsStay DEF OperationFrame
  <2> QED
    BY <2>2, <2>3, <2>5
<1> QED
  BY <1>3, <1>4 DEF BeginOperation

(* An operation ends without a server of its own.                          *)
LEMMA EndingKeeps ==
    ASSUME IInv, ServiceInv, NEW r \in Runs,
           OperationFrame, UNCHANGED <<sessions, session>>,
           stage \in {"clearing", "authorizing", "undoing"}, stage' = "idle", awaited' = {},
           Throw(r) \/ Goto(r, "done")
    PROVE  ServiceInv'
<1> USE DEF ServiceInv
<1>1. /\ call \in [Runs -> CallType] /\ step \in [Runs -> Steps]
      /\ sessions \in [Servers -> Sids \cup {0}]
  BY DEF ServiceTypes, IInv, AgentTypes
<1>2. Listed' = Listed
  BY DEF Listed
<1>3. NoStrayServer' /\ OperationInv'
  BY <1>2 DEF NoStrayServer, OperationInv
<1>4. ServiceTypes'
  BY DEF ServiceTypes, OperationFrame
<1>5. \A q \in Runs : step'[q] \notin Calling \/ step'[q] = step[q]
  BY <1>1 DEF Throw, Goto, Calling
<1>6. CallSessionInv'
  BY <1>1, <1>5, CallsStay DEF OperationFrame
<1> QED
  BY <1>3, <1>4, <1>6

(* The servers of a configuration are finitely many, and each is given one *)
(* of the next session ids.                                                *)
LEMMA SelectedServers ==
    ASSUME NEW c \in Configs, NEW authorized \in BOOLEAN
    PROVE  LET S == Selected(ConfigOf[c], authorized)
           IN IsFiniteSet(S) /\ S \subseteq Servers /\ Cardinality(S) \in Nat
<1> DEFINE u == ConfigOf[c].user
           w == IF authorized THEN ConfigOf[c].workspace ELSE {}
<1>1. ConfigOf[c] \in [valid : BOOLEAN, user : SUBSET Servers, workspace : SUBSET Servers]
  BY McpAssumption
<1>2. u \subseteq Servers /\ w \subseteq Servers
  BY <1>1
<1>3. IsFiniteSet(u) /\ IsFiniteSet(w)
  BY McpAssumption, FS_EmptySet
<1>4. IsFiniteSet(u \cup w)
  BY <1>3, FS_Union
<1> QED
  BY <1>2, <1>4, FS_CardinalityType DEF Selected

LEMMA OneIdEach ==
    ASSUME NEW S, IsFiniteSet(S), NEW k \in Nat
    PROVE  LET new == (k + 1) .. (k + Cardinality(S))
               f == CHOOSE g \in [new -> S] : \A i, j \in new : g[i] = g[j] => i = j
           IN /\ f \in [new -> S]
              /\ \A i, j \in new : f[i] = f[j] => i = j
<1> DEFINE n == Cardinality(S)
           new == (k + 1) .. (k + n)
<1>1. n \in Nat
  BY FS_CardinalityType
<1>2. ExistsBijection(1 .. n, S)
  BY FS_CardinalityType
<1>3. PICK b \in Bijection(1 .. n, S) : TRUE
  BY <1>2 DEF ExistsBijection
<1>4. /\ b \in [1 .. n -> S]
      /\ \A i, j \in 1 .. n : b[i] = b[j] => i = j
  BY <1>3 DEF Bijection, Injection, Surjection, IsInjective
<1> HIDE DEF n
<1> DEFINE g == [i \in new |-> b[i - k]]
<1>5. \A i \in new : i - k \in 1 .. n /\ i \in Int
  BY <1>1
<1>6. g \in [new -> S]
  BY <1>4, <1>5
<1>7. \A i, j \in new : g[i] = g[j] => i = j
  <2> SUFFICES ASSUME NEW i \in new, NEW j \in new, b[i - k] = b[j - k]
               PROVE  i = j
    OBVIOUS
  <2>1. i - k = j - k
    BY <1>4, <1>5
  <2> QED
    BY <1>5, <2>1
<1>8. \E h \in [new -> S] : \A i, j \in new : h[i] = h[j] => i = j
  BY <1>6, <1>7
<1> HIDE DEF g, new
<1> QED
  BY <1>8 DEF new, n

(* The servers of a discovery are started, or it throws before.            *)
LEMMA StartingKeeps ==
    ASSUME IInv, ServiceInv, NEW r \in Runs, NEW c \in Configs, NEW authorized \in BOOLEAN,
           step[r] = "discover", stage \in {"clearing", "authorizing"},
           StartServers(r, c, authorized), UNCHANGED <<registered, call, sessions>>
    PROVE  ServiceInv'
<1> USE DEF ServiceInv
<1> DEFINE S == Selected(ConfigOf[c], authorized)
           new == (spawned + 1) .. (spawned + Cardinality(S))
           server == CHOOSE f \in [new -> S] : \A i, j \in new : f[i] = f[j] => i = j
<1>1. /\ call \in [Runs -> CallType] /\ step \in [Runs -> Steps] /\ spawned \in Nat
      /\ sessions \in [Servers -> Sids \cup {0}] /\ session \in [Sids -> SessionType]
  BY DEF ServiceTypes, IInv, AgentTypes
<1>2. CASE Throw(r) /\ UNCHANGED <<session, spawned>>
  BY <1>2, EndingKeeps DEF Throw, OperationFrame
<1>3. CASE ~(Throw(r) /\ UNCHANGED <<session, spawned>>)
  <2>1. /\ spawned + Cardinality(S) <= MaxSessions
        /\ session' = [i \in Sids |-> IF i \in new THEN Started(server[i], c) ELSE session[i]]
        /\ spawned' = spawned + Cardinality(S)
        /\ stage' = "starting" /\ awaited' = new /\ UNCHANGED step
    BY <1>3 DEF StartServers
  <2>2. IsFiniteSet(S) /\ S \subseteq Servers /\ Cardinality(S) \in Nat
    BY SelectedServers
  <2>3. server \in [new -> S] /\ \A i, j \in new : server[i] = server[j] => i = j
    BY <1>1, <2>2, OneIdEach
  <2>4. new \subseteq Sids /\ spawned' \in 0 .. MaxSessions
    BY <1>1, <2>1, <2>2, McpAssumption DEF Sids
  <2> HIDE DEF server, new, S
  <2>5. \A i \in new : /\ server[i] \in Servers
                       /\ Started(server[i], c) \in SessionType
                       /\ Started(server[i], c).server = server[i]
                       /\ Started(server[i], c).config = c
    BY <2>2, <2>3 DEF Started, SessionType, States, Closes
  <2>6. /\ session' \in [Sids -> SessionType]
        /\ \A i \in Sids : session'[i] = IF i \in new THEN Started(server[i], c) ELSE session[i]
    BY <1>1, <2>1, <2>5
  <2>7. ServiceTypes'
    BY <2>1, <2>4, <2>6 DEF ServiceTypes
  <2>8. OperationInv'
    BY <2>1, <2>3, <2>4, <2>5, <2>6 DEF OperationInv
  <2>9. NoStrayServer'
    <3>1. Listed' = Listed
      BY DEF Listed
    <3> QED
      BY <2>1, <2>6, <3>1 DEF NoStrayServer
  <2>10. CallSessionInv'
    BY <1>1, <2>1, CallsStay
  <2> QED
    BY <2>7, <2>8, <2>9, <2>10
<1> QED
  BY <1>2, <1>3

(* The sessions that are ready are listed or closed.                       *)
LEMMA FinishingKeeps ==
    ASSUME IInv, ServiceInv, NEW r \in Runs, FinishDiscovery(r)
    PROVE  ServiceInv'
<1> USE DEF ServiceInv
<1> DEFINE ready == {i \in awaited : session[i].state = "ready"}
           failed == {i \in awaited : session[i].state = "failed"}
<1>1. /\ call \in [Runs -> CallType] /\ step \in [Runs -> Steps]
      /\ sessions \in [Servers -> Sids \cup {0}] /\ session \in [Sids -> SessionType]
      /\ awaited \subseteq Sids
  BY DEF ServiceTypes, IInv, AgentTypes
<1>2. /\ step[r] = "discover" /\ stage = "starting" /\ UNCHANGED <<call, spawned>>
      /\ awaited = ready \cup failed /\ Closed(failed)
  BY DEF FinishDiscovery, IsNext, Caller
<1>3. \A i \in Sids : Serving(i) => i \in Listed \/ i \in ready
  BY <1>2 DEF NoStrayServer, Serving, Closed
<1>4. \A q \in Runs : step[q] \notin Calling
  BY <1>2, NotCalling
<1>5. CASE stage' = "undoing"
  <2>1. /\ awaited' = ready /\ session' = Closing(session, ready)
        /\ UNCHANGED <<step, registered, sessions>>
    BY <1>5 DEF FinishDiscovery
  <2>2. /\ session' \in [Sids -> SessionType]
        /\ \A i \in Sids : Serving(i)' => Serving(i) /\ i \notin ready
    BY <1>1, <2>1, ClosingType DEF Serving
  <2>3. Listed' = Listed
    BY <2>1 DEF Listed
  <2>4. NoStrayServer'
    BY <1>3, <2>2, <2>3 DEF NoStrayServer, Serving
  <2>5. ServiceTypes'
    BY <1>1, <1>2, <1>5, <2>1, <2>2 DEF ServiceTypes
  <2>6. OperationInv'
    BY <1>2, <1>5, <2>1 DEF OperationInv
  <2>7. CallSessionInv'
    BY <1>1, <1>2, <2>1, CallsStay
  <2> QED
    BY <2>4, <2>5, <2>6, <2>7
<1>6. CASE stage' = "idle"
  <2>1. /\ sessions' = [s \in Servers |-> IF \E i \in ready : session[i].server = s
                                          THEN CHOOSE i \in ready : session[i].server = s ELSE 0]
        /\ registered' = Registrations(ready) /\ step' = [step EXCEPT ![r] = "working"]
        /\ awaited' = {} /\ UNCHANGED session
    BY <1>6 DEF FinishDiscovery, Goto
  <2>2. /\ \A i \in ready : session[i].server \in Servers /\ session[i].config \in Configs
        /\ \A i, j \in ready : session[i].server = session[j].server => i = j
        /\ \A s \in Servers : sessions[s] = 0
    BY <1>2 DEF OperationInv
  <2>3. ready \subseteq Sids
    BY <1>1
  <2>4. sessions' \in [Servers -> Sids \cup {0}]
    <3>1. \A s \in Servers : (\E i \in ready : session[i].server = s) =>
                               (CHOOSE i \in ready : session[i].server = s) \in ready
      OBVIOUS
    <3> QED
      BY <2>1, <2>3, <3>1
  <2>5. ready \subseteq Listed'
    <3> SUFFICES ASSUME NEW i \in ready
                 PROVE  i \in Listed'
      OBVIOUS
    <3> DEFINE s == session[i].server
               j == CHOOSE k \in ready : session[k].server = s
    <3>1. s \in Servers
      BY <2>2
    <3>2. j \in ready /\ session[j].server = s
      OBVIOUS
    <3>3. j = i
      BY <2>2, <3>2
    <3>4. sessions'[s] = j
      BY <2>1, <3>1
    <3>5. i # 0
      BY <2>3 DEF Sids
    <3> QED
      BY <3>1, <3>3, <3>4, <3>5 DEF Listed
  <2>6. Listed = {}
    BY <2>2 DEF Listed
  <2>7. registered' \subseteq Tool
    BY <2>1, <2>2 DEF Registrations, Tool
  <2> HIDE DEF ready
  <2>8. NoStrayServer'
    BY <1>3, <2>1, <2>5, <2>6 DEF NoStrayServer, Serving
  <2>9. ServiceTypes'
    BY <1>1, <1>2, <1>6, <2>1, <2>4, <2>7 DEF ServiceTypes
  <2>10. OperationInv'
    BY <1>6 DEF OperationInv
  <2>11. CallSessionInv'
    BY <1>1, <1>4, <2>1 DEF CallSessionInv, Calling
  <2> QED
    BY <2>8, <2>9, <2>10, <2>11
<1> QED
  BY <1>5, <1>6 DEF FinishDiscovery

LEMMA InitServiceInv == Init => ServiceInv
<1> SUFFICES ASSUME Init PROVE ServiceInv
  OBVIOUS
<1>1. NoSession \in SessionType /\ NoSession.proc = "none"
  BY DEF NoSession, SessionType, States, Closes
<1>2. ServiceTypes
  BY <1>1, NoCallType, McpAssumption DEF Init, ServiceTypes
<1>3. OperationInv /\ CallSessionInv /\ NoStrayServer
  BY <1>1 DEF Init, OperationInv, CallSessionInv, NoStrayServer
<1> QED
  BY <1>2, <1>3 DEF ServiceInv

LEMMA StepServiceInv == IInv /\ ServiceInv /\ [Next]_vars => ServiceInv'
<1> SUFFICES ASSUME IInv, ServiceInv, [Next]_vars
             PROVE  ServiceInv'
  OBVIOUS
<1>1. CASE EditConfig
  BY <1>1, AgentStepKeeps DEF EditConfig
<1>2. ASSUME NEW r \in Runs, \/ StartRun(r) \/ Inspect(r)
      PROVE  ServiceInv'
  BY <1>2, AgentStepKeeps DEF StartRun, Inspect
<1>3. ASSUME NEW r \in Runs, Refresh(r) \/ Leave(r)
      PROVE  ServiceInv'
  <2>1. UNCHANGED <<sessions, session, spawned, stage, loaded, awaited, call>>
        /\ (registered' = registered \/ registered' = {})
    BY <1>3 DEF Refresh, Leave
  <2>2. step \in [Runs -> Steps] /\ \A q \in Runs : step'[q] \notin Calling \/ step'[q] = step[q]
    BY <1>3 DEF Refresh, Leave, Goto, Calling, IInv, AgentTypes
  <2>3. OperationInv' /\ NoStrayServer'
    BY <2>1, StillIsQuiet, QuietKeeps DEF ServiceInv
  <2>4. ServiceTypes'
    BY <2>1 DEF ServiceInv, ServiceTypes
  <2>5. CallSessionInv'
    BY <2>1, <2>2, CallsStay DEF ServiceInv, ServiceTypes
  <2> QED
    BY <2>3, <2>4, <2>5 DEF ServiceInv
<1>4. ASSUME NEW r \in Runs, Deny(r) \/ AnswerCall(r)
      PROVE  ServiceInv'
  <2>1. UNCHANGED serviceVars
    BY <1>4 DEF Deny, AnswerCall, callFrame, serviceVars
  <2> QED
    BY <1>4, <2>1, AgentStepKeeps
<1>5. ASSUME NEW r \in Runs, \/ CallTool(r) \/ LookUpTool(r) \/ Approve(r)
      PROVE  ServiceInv'
  BY <1>5, CallStepKeeps
<1>6. ASSUME NEW r \in Runs, \/ AbortRun(r) \/ CallTimesOut(r) \/ BadResult(r)
      PROVE  ServiceInv'
  BY <1>6, SessionsKeep
<1>7. ASSUME NEW r \in Runs, DropSession(r)
      PROVE  ServiceInv'
  BY <1>7, DropKeeps
<1>8. ASSUME NEW r \in Runs, BeginOperation(r)
      PROVE  ServiceInv'
  BY <1>8, ClearingKeeps
<1>9. ASSUME NEW r \in Runs, CloseDone(r) \/ UndoDiscovery(r)
      PROVE  ServiceInv'
  BY <1>9, EndingKeeps DEF CloseDone, UndoDiscovery, Throw, OperationFrame
<1>10. ASSUME NEW r \in Runs, LoadConfiguration(r)
      PROVE  ServiceInv'
  <2>1. step[r] = "discover" /\ stage = "clearing" /\ UNCHANGED <<registered, call, sessions>>
    BY <1>10 DEF LoadConfiguration, IsNext, Caller
  <2>2. CASE StartServers(r, config, FALSE)
    BY <2>1, <2>2, StartingKeeps DEF IInv, AgentTypes
  <2>3. CASE Throw(r) /\ UNCHANGED <<session, spawned>>
    BY <2>1, <2>3, EndingKeeps DEF Throw, OperationFrame
  <2>4. CASE /\ stage' = "authorizing" /\ awaited' = {} /\ loaded' = config
             /\ UNCHANGED <<step, session, spawned>>
    <3>1. Listed' = Listed
      BY <2>1 DEF Listed
    <3>2. NoStrayServer' /\ OperationInv'
      BY <2>1, <2>4, <3>1 DEF ServiceInv, NoStrayServer, OperationInv
    <3>3. ServiceTypes'
      BY <2>1, <2>4 DEF ServiceInv, ServiceTypes, IInv, AgentTypes
    <3>4. CallSessionInv'
      BY <2>1, <2>4 DEF ServiceInv, CallSessionInv
    <3> QED
      BY <3>2, <3>3, <3>4 DEF ServiceInv
  <2> QED
    BY <1>10, <2>2, <2>3, <2>4 DEF LoadConfiguration
<1>11. ASSUME NEW r \in Runs, AuthorizeWorkspace(r)
      PROVE  ServiceInv'
  <2>1. step[r] = "discover" /\ stage = "authorizing" /\ UNCHANGED <<registered, call, sessions>>
    BY <1>11 DEF AuthorizeWorkspace, IsNext, Caller
  <2>2. loaded \in Configs
    BY <2>1 DEF ServiceInv, ServiceTypes
  <2>3. PICK approved \in BOOLEAN : StartServers(r, loaded, approved)
    BY <1>11 DEF AuthorizeWorkspace, Approvals
  <2> QED
    BY <2>1, <2>2, <2>3, StartingKeeps
<1>12. ASSUME NEW r \in Runs, FinishDiscovery(r)
      PROVE  ServiceInv'
  BY <1>12, FinishingKeeps
<1>13. ASSUME NEW i \in Sids, \/ AnswerStart(i) \/ StartFails(i) \/ ListChanged(i) \/ BadMessage(i)
                              \/ ProcessExits(i) \/ GraceEnds(i)
      PROVE  ServiceInv'
  BY <1>13, SessionsKeep
<1>14. CASE UNCHANGED vars
  BY <1>14 DEF vars, agentVars, serviceVars, ServiceInv, ServiceTypes, OperationInv, CallSessionInv,
     NoStrayServer, Listed
<1> QED
  BY <1>1, <1>2, <1>3, <1>4, <1>5, <1>6, <1>7, <1>8, <1>9, <1>10, <1>11, <1>12, <1>13, <1>14
  DEF Next, RunStep

(* NoStrayServer: a server that runs is listed or under start, whatever    *)
(* discoveries, closes, calls and aborts interleave, for any number of     *)
(* runs and servers and any edits of the configuration.                    *)
THEOREM NoServerIsLost == Spec => []NoStrayServer
<1>1. Init => IInv /\ ServiceInv
  BY InitIInv, InitServiceInv
<1>2. IInv /\ ServiceInv /\ [Next]_vars => (IInv /\ ServiceInv)'
  BY StepIInv, StepServiceInv
<1>3. IInv /\ ServiceInv => NoStrayServer
  BY DEF ServiceInv
<1> QED
  BY <1>1, <1>2, <1>3, PTL DEF Spec

(* AllowedRunsKeepTheirTools: the registry and the session map are cleared *)
(* or filled by a refresh, a discovery, a close or the last run to leave,  *)
(* none of which finds another run with tools; a call drops its session.   *)
THEOREM ToolsOfARunStay == Spec => AllowedRunsKeepTheirTools
<1> DEFINE Fails(s) == \E r \in Runs : /\ step[r] \in {"dropping", "discarding"} /\ step'[r] = "working"
                                       /\ call[r].tool.server = s
           A == allowed \cap allowed' # {} =>
                  /\ registered' = registered
                  /\ \A s \in Servers : sessions'[s] # sessions[s] =>
                       /\ sessions'[s] = 0
                       /\ \E r \in Runs : /\ step[r] \in {"dropping", "discarding"} /\ step'[r] = "working"
                                        /\ call[r].tool.server = s
<1>1. IInv /\ QueueInv /\ ServiceTypes /\ [Next]_vars => [A]_vars
  <2> SUFFICES ASSUME IInv, QueueInv, ServiceTypes, Next, allowed \cap allowed' # {}
               PROVE  /\ registered' = registered
                      /\ \A s \in Servers : sessions'[s] # sessions[s] => sessions'[s] = 0 /\ Fails(s)
    OBVIOUS
  <2>1. allowed # {} /\ allowed' # {} /\ key # NoKey /\ operations = <<>>
    <3>1. allowed # {} /\ allowed' # {}
      OBVIOUS
    <3>2. key \in Configs
      BY <3>1 DEF IInv, AllowedInv
    <3>3. key # NoKey
      BY <3>2, McpAssumption
    <3> QED
      BY <3>1, <3>3 DEF QueueInv
  <2> HIDE DEF Fails
  <2>2. CASE UNCHANGED <<registered, sessions>>
    BY <2>2
  <2>3. ASSUME NEW r \in Runs, \/ BeginOperation(r) \/ CloseDone(r) \/ LoadConfiguration(r)
                               \/ AuthorizeWorkspace(r) \/ FinishDiscovery(r) \/ UndoDiscovery(r)
        PROVE  FALSE
    BY <2>1, <2>3 DEF BeginOperation, CloseDone, LoadConfiguration, AuthorizeWorkspace,
       FinishDiscovery, UndoDiscovery, IsNext
  <2>4. ASSUME NEW r \in Runs, Refresh(r)
        PROVE  UNCHANGED <<registered, sessions>>
    <3>1. CASE key # seen[r] /\ ~Deferred
      <4>1. active = {r}
        BY <2>1, <2>4, <3>1, OnlyOne DEF Refresh, Deferred, IInv, AgentTypes, RefreshInv
      <4>2. allowed = {}
        BY <2>4, <4>1 DEF Refresh, IInv, RefreshInv, AllowedInv
      <4> QED
        BY <2>1, <4>2
    <3>2. CASE ~(key # seen[r] /\ ~Deferred)
      BY <2>4, <3>2 DEF Refresh
    <3> QED
      BY <3>1, <3>2
  <2>5. ASSUME NEW r \in Runs, DropSession(r)
        PROVE  /\ registered' = registered
               /\ \A s \in Servers : sessions'[s] # sessions[s] => sessions'[s] = 0 /\ Fails(s)
    <3>1. /\ registered' = registered /\ step[r] \in {"dropping", "discarding"}
          /\ step' = [step EXCEPT ![r] = "working"]
          /\ sessions' = sessions \/ sessions' = [sessions EXCEPT ![call[r].tool.server] = 0]
      BY <2>5 DEF DropSession, Return, Goto, callFrame
    <3>2. step \in [Runs -> Steps] /\ sessions \in [Servers -> Sids \cup {0}]
      BY DEF IInv, AgentTypes, ServiceTypes
    <3>3. step'[r] = "working"
      BY <3>1, <3>2
    <3>4. Fails(call[r].tool.server)
      BY <3>1, <3>3 DEF Fails
    <3> QED
      BY <3>1, <3>2, <3>4
  <2>6. ASSUME NEW r \in Runs, Leave(r)
        PROVE  UNCHANGED <<registered, sessions>>
    BY <2>1, <2>6 DEF Leave
  <2>7. ASSUME NEW r \in Runs, \/ StartRun(r) \/ AbortRun(r) \/ Inspect(r) \/ LookUpTool(r) \/ CallTool(r)
                               \/ Approve(r) \/ Deny(r) \/ AnswerCall(r) \/ CallTimesOut(r) \/ BadResult(r)
        PROVE  UNCHANGED <<registered, sessions>>
    BY <2>7 DEF StartRun, AbortRun, Inspect, LookUpTool, CallTool, Approve, Deny, AnswerCall,
       CallTimesOut, BadResult, callFrame, serviceVars
  <2>8. ASSUME NEW i \in Sids, \/ AnswerStart(i) \/ StartFails(i) \/ ListChanged(i) \/ BadMessage(i)
                               \/ ProcessExits(i) \/ GraceEnds(i)
        PROVE  UNCHANGED <<registered, sessions>>
    BY <2>8 DEF AnswerStart, StartFails, ListChanged, BadMessage, ProcessExits, GraceEnds, sessionFrame
  <2>9. CASE EditConfig
    BY <2>2, <2>9 DEF EditConfig, agentVars, serviceVars
  <2> QED
    BY <2>2, <2>3, <2>4, <2>5, <2>6, <2>7, <2>8, <2>9 DEF Next, RunStep
<1>2. Init => IInv /\ QueueInv /\ ServiceInv
  BY InitIInv, InitQueueInv, InitServiceInv
<1>3. IInv /\ QueueInv /\ ServiceInv /\ [Next]_vars => (IInv /\ QueueInv /\ ServiceInv)'
  BY StepIInv, StepQueueInv, StepServiceInv
<1>4. ServiceInv => ServiceTypes
  BY DEF ServiceInv
<1> QED
  BY <1>1, <1>2, <1>3, <1>4, PTL DEF Spec, AllowedRunsKeepTheirTools

(* CalledAsApproved: a request leaves in one step only, the approval's,    *)
(* which compares the session with the one that was looked up.             *)
THEOREM CallsGoAsApproved == Spec => CalledAsApproved
<1> DEFINE A == \A r \in Runs : step[r] # "requested" /\ step'[r] = "requested" =>
                  /\ sessions[call[r].tool.server] = call[r].sid
                  /\ ~session[call[r].sid].stale
<1>1. IInv /\ [Next]_vars => [A]_vars
  <2> SUFFICES ASSUME IInv, Next, NEW r \in Runs, step[r] # "requested", step'[r] = "requested"
               PROVE  /\ sessions[call[r].tool.server] = call[r].sid
                      /\ ~session[call[r].sid].stale
    BY DEF vars, agentVars
  <2>1. step \in [Runs -> Steps]
    BY DEF IInv, AgentTypes
  <2>2. ASSUME NEW i \in Sids, \/ AnswerStart(i) \/ StartFails(i) \/ ListChanged(i) \/ BadMessage(i)
                               \/ ProcessExits(i) \/ GraceEnds(i)
        PROVE  FALSE
    BY <2>1, <2>2 DEF AnswerStart, StartFails, ListChanged, BadMessage, ProcessExits, GraceEnds,
       Return, Goto
  <2>3. ASSUME NEW q \in Runs, \/ StartRun(q) \/ AbortRun(q) \/ Inspect(q) \/ Refresh(q) \/ Deny(q)
                               \/ AnswerCall(q) \/ CallTimesOut(q) \/ BadResult(q) \/ Leave(q)
                               \/ CallTool(q) \/ LookUpTool(q) \/ DropSession(q)
        PROVE  FALSE
    BY <2>1, <2>3 DEF StartRun, AbortRun, Inspect, Refresh, Deny, AnswerCall, CallTimesOut,
       BadResult, Leave, CallTool, LookUpTool, DropSession, Return, Goto
  <2>4. ASSUME NEW q \in Runs, \/ BeginOperation(q) \/ CloseDone(q) \/ LoadConfiguration(q)
                               \/ AuthorizeWorkspace(q) \/ FinishDiscovery(q) \/ UndoDiscovery(q)
        PROVE  FALSE
    BY <2>1, <2>4 DEF BeginOperation, CloseDone, LoadConfiguration, AuthorizeWorkspace,
       FinishDiscovery, UndoDiscovery, StartServers, ClearSessions, Throw, Goto
  <2>5. ~EditConfig
    BY DEF EditConfig, agentVars
  <2>6. PICK q \in Runs : Approve(q)
    BY <2>2, <2>3, <2>4, <2>5 DEF Next, RunStep
  <2>7. q = r /\ StillCurrent(r)
    BY <2>1, <2>6 DEF Approve, Return, Goto
  <2> QED
    BY <2>7 DEF StillCurrent, Callable
<1> QED
  BY <1>1, InitIInv, StepIInv, PTL DEF Spec, CalledAsApproved
=============================================================================
