---------------------------- MODULE McpSessions ----------------------------
(***************************************************************************)
(* MCP servers as AgentService and McpService use them: a run refreshes    *)
(* the tools before its first turn, calls one of them after an approval,   *)
(* and the last run to end closes every server (services/agent.ts).  The   *)
(* service keeps one session per server, a child process that speaks       *)
(* JSON-RPC over its pipes, and runs discovery and close one after another *)
(* (services/mcp.ts).                                                      *)
(*                                                                         *)
(* A configuration is a number; ConfigOf gives its content.  What a server *)
(* answers, when it crashes and when it announces other tools is up to it. *)
(***************************************************************************)
EXTENDS Naturals, Sequences, FiniteSets

CONSTANTS Runs,         \* runs that may be started
          Servers,      \* server ids a configuration can name
          Configs,      \* revisions of the configuration files, none of them 0
          ConfigOf,     \* what a revision says: [valid, user, workspace]
          MaxServers,   \* maximumServers
          MaxSessions,  \* bound: server processes spawned in all
          MaxEdits      \* bound: edits of the configuration files

Sids == 1 .. MaxSessions
NoKey == 0

ASSUME McpAssumption ==
    /\ MaxSessions \in Nat /\ MaxEdits \in Nat /\ MaxServers \in Nat
    /\ IsFiniteSet(Runs)
    /\ NoKey \notin Configs
    /\ ConfigOf \in [Configs -> [valid : BOOLEAN, user : SUBSET Servers,
                                 workspace : SUBSET Servers]]
    /\ \A c \in Configs : IsFiniteSet(ConfigOf[c].user) /\ IsFiniteSet(ConfigOf[c].workspace)

VARIABLES
    config,       \* the revision on disk
    edits,        \* edits so far
    step,         \* per run: where performRun is
    seen,         \* per run: the revision it inspected (NoKey: none)
    aborted,      \* runs whose abort signal fired
    active,       \* activeRuns
    allowed,      \* mcpAllowedRuns
    key,          \* mcpConfigurationKey
    registered,   \* tools in the registry: [server, config]
    tail,         \* runs behind sideEffectTail, in order
    call,         \* per run: the tool it calls and the session the call looked up
    sessions,     \* McpService.sessions: server -> session id (0: none)
    session,      \* per session id: the StdioMcpSession
    spawned,      \* session ids in use
    operations,   \* runs behind operationTail: each with "discover" or "close"
    stage,        \* where the operation at the head is
    loaded,       \* the revision it read, while it waits for the authorization
    awaited       \* sessions its current await waits for

agentVars == <<step, seen, active, allowed, key, registered, tail, call>>
serviceVars == <<sessions, session, spawned, operations, stage, loaded, awaited>>
vars == <<config, edits, aborted, agentVars, serviceVars>>

Tool == [server : Servers, config : Configs]
NoCall == [tool |-> [server |-> 0, config |-> NoKey], sid |-> 0]
NoSession == [server |-> 0, config |-> NoKey, state |-> "none", stale |-> FALSE,
              close |-> "open", proc |-> "none"]

\* A session nobody looks at any more; what it was is forgotten.
EndedSession == [NoSession EXCEPT !.state = "failed", !.close = "closed", !.proc = "dead"]

Steps == {"new", "refresh", "inspected", "discover", "working", "call", "approving",
          "requested", "dropping", "discarding", "leaving", "closing", "done"}
\* starting: initialize and the pages of tools/list; failed: that went wrong
States == {"none", "starting", "ready", "failed"}
\* open; eof: stdin ended; term: SIGTERM sent; closed: close() has resolved
Closes == {"open", "eof", "term", "closed"}

TypeOK ==
    /\ config \in Configs /\ edits \in 0 .. MaxEdits
    /\ step \in [Runs -> Steps] /\ seen \in [Runs -> Configs \cup {NoKey}]
    /\ aborted \subseteq Runs /\ active \subseteq Runs /\ allowed \subseteq Runs
    /\ key \in Configs \cup {NoKey} /\ registered \subseteq Tool
    /\ tail \in Seq(Runs)
    /\ call \in [Runs -> [tool : Tool \cup {NoCall.tool}, sid : Sids \cup {0}]]
    /\ sessions \in [Servers -> Sids \cup {0}]
    /\ session \in [Sids -> [server : Servers \cup {0}, config : Configs \cup {NoKey},
                             state : States, stale : BOOLEAN, close : Closes,
                             proc : {"none", "alive", "dead"}]]
    /\ spawned \in 0 .. MaxSessions
    /\ operations \in Seq(Runs \X {"discover", "close"})
    /\ stage \in {"idle", "clearing", "authorizing", "starting", "undoing"}
    /\ loaded \in Configs \cup {NoKey}
    /\ awaited \subseteq Sids

Init ==
    /\ config \in Configs /\ edits = 0
    /\ step = [r \in Runs |-> "new"] /\ seen = [r \in Runs |-> NoKey]
    /\ aborted = {} /\ active = {} /\ allowed = {}
    /\ key = NoKey /\ registered = {} /\ tail = <<>>
    /\ call = [r \in Runs |-> NoCall]
    /\ sessions = [s \in Servers |-> 0]
    /\ session = [i \in Sids |-> NoSession]
    /\ spawned = 0 /\ operations = <<>> /\ stage = "idle" /\ loaded = NoKey
    /\ awaited = {}

Goto(r, s) == step' = [step EXCEPT ![r] = s]
\* The operation at the head of the common side-effect queue is r's.
HasTurn(r) == tail # <<>> /\ Head(tail) = r
\* Mutant: the turn of a call that is over is kept.
ReturnKeepingTurn(r) ==
    Goto(r, "working") /\ call' = [call EXCEPT ![r] = NoCall] /\ UNCHANGED tail

\* The call of r is over; the next side effect may start.
Return(r) == Goto(r, "working") /\ tail' = Tail(tail) /\ call' = [call EXCEPT ![r] = NoCall]
\* sessions S are asked to close: stdin ends, unless the process is gone.
Closing(ss, S) ==
    [i \in Sids |-> IF i \in S /\ ss[i].close = "open"
                    THEN [ss[i] EXCEPT !.close = IF ss[i].proc = "dead" THEN "closed" ELSE "eof"]
                    ELSE ss[i]]
Closed(S) == \A i \in S : session[i].close = "closed"
Listed == {sessions[s] : s \in Servers} \ {0}
-----------------------------------------------------------------------------
(* The files of the configuration, edited by the user or another program.  *)
EditConfig ==
    /\ edits < MaxEdits
    /\ edits' = edits + 1
    /\ config' \in Configs \ {config}
    /\ UNCHANGED <<aborted, agentVars, serviceVars>>

(* startRun, up to the point where the refresh is queued.                  *)
StartRun(r) ==
    /\ step[r] = "new"
    /\ Goto(r, "refresh")
    /\ active' = active \cup {r}
    /\ tail' = Append(tail, r)
    /\ UNCHANGED <<config, edits, aborted, seen, allowed, key, registered, call, serviceVars>>

(* A cancelled run, its time limit, a window that goes away.  The abort    *)
(* listener of a request tells the server and closes the session.          *)
AbortRun(r) ==
    /\ r \in active \ aborted
    /\ aborted' = aborted \cup {r}
    /\ \/ /\ step[r] = "approving"            \* awaitWithAbort rejects
          /\ Return(r)
          /\ UNCHANGED <<session, operations, stage, loaded>>
       \/ /\ step[r] = "requested"
          /\ Goto(r, "dropping") /\ session' = Closing(session, {call[r].sid})
          /\ UNCHANGED <<tail, call, operations, stage, loaded>>
       \/ /\ step[r] = "discover" /\ Head(operations)[1] = r /\ stage = "authorizing"
          /\ Goto(r, "leaving") /\ tail' = Tail(tail)
          /\ operations' = Tail(operations) /\ stage' = "idle" /\ loaded' = NoKey
          /\ UNCHANGED <<call, session>>
       \/ /\ step[r] = "discover" /\ Head(operations)[1] = r /\ stage = "starting"
          /\ session' = LET S == {i \in awaited : session[i].state = "starting"}
                        IN [i \in Sids |-> IF i \in S
                                           THEN [Closing(session, S)[i] EXCEPT !.state = "failed"]
                                           ELSE session[i]]
          /\ UNCHANGED <<step, tail, call, operations, stage, loaded>>
       \/ /\ step[r] \notin {"approving", "requested"}
          /\ ~(step[r] = "discover" /\ Head(operations)[1] = r
                  /\ stage \in {"authorizing", "starting"})
          /\ UNCHANGED <<step, tail, call, session, operations, stage, loaded>>
    /\ UNCHANGED <<config, edits, seen, active, allowed, key, registered, sessions, spawned,
                   awaited>>
-----------------------------------------------------------------------------
(* refreshMcpTools.                                                        *)

(* mcp.inspect; a file that cannot be parsed fails the run.                *)
Inspect(r) ==
    /\ step[r] = "refresh" /\ HasTurn(r)
    /\ allowed' = allowed \ {r}
    /\ IF ConfigOf[config].valid
       THEN /\ Goto(r, "inspected")
            /\ seen' = [seen EXCEPT ![r] = config]
            /\ UNCHANGED tail
       ELSE /\ Goto(r, "leaving")
            /\ tail' = Tail(tail)
            /\ UNCHANGED seen
    /\ UNCHANGED <<config, edits, aborted, active, key, registered, call, serviceVars>>

\* Mutant: a second run refreshes as if it were alone.
DeferredOffByOne == Cardinality(active) > 2 /\ key # NoKey

\* Tools of another configuration are in use by a run that is still active.
Deferred == Cardinality(active) > 1 /\ key # NoKey

(* The tools are the ones of this configuration, or they stay as they are  *)
(* while another run is active, or they are discovered again: the old ones *)
(* leave the registry before discovery is queued.                          *)
Refresh(r) ==
    /\ step[r] = "inspected"
    /\ \/ /\ key = seen[r]
          /\ allowed' = allowed \cup {r}
          /\ Goto(r, "working") /\ tail' = Tail(tail)
          /\ UNCHANGED <<registered, key, operations>>
       \/ /\ key # seen[r] /\ Deferred
          /\ Goto(r, "working") /\ tail' = Tail(tail)
          /\ UNCHANGED <<allowed, registered, key, operations>>
       \/ /\ key # seen[r] /\ ~Deferred
          /\ registered' = {} /\ key' = NoKey
          /\ Goto(r, "discover")
          /\ operations' = Append(operations, <<r, "discover">>)
          /\ UNCHANGED <<allowed, tail>>
    /\ UNCHANGED <<config, edits, aborted, seen, active, call, sessions, session, spawned,
                   stage, loaded, awaited>>
-----------------------------------------------------------------------------
(* McpService.discover and close, one at a time (serialize).               *)

Caller == [discover |-> "discover", close |-> "closing"]
IsNext(r, kind) ==
    operations # <<>> /\ Head(operations) = <<r, kind>> /\ step[r] = Caller[kind]

(* discover throws: the run fails, the next operation may start.           *)
Throw(r) ==
    /\ Goto(r, "leaving") /\ tail' = Tail(tail)
    /\ operations' = Tail(operations) /\ stage' = "idle" /\ awaited' = {}
    /\ loaded' = NoKey

\* Mutant: the map is cleared and its sessions are not closed.
ForgetSessions ==
    /\ awaited' = {} /\ sessions' = [s \in Servers |-> 0]
    /\ stage' = "clearing"
    /\ UNCHANGED <<session, loaded>>

(* closeSessions, the first thing both operations do.                      *)
ClearSessions ==
    /\ awaited' = Listed
    /\ session' = Closing(session, Listed)
    /\ sessions' = [s \in Servers |-> 0]
    /\ stage' = "clearing"
    /\ UNCHANGED loaded

BeginOperation(r) ==
    /\ stage = "idle"
    /\ \/ /\ IsNext(r, "close")
          /\ ClearSessions
          /\ UNCHANGED <<step, tail, operations>>
       \/ /\ IsNext(r, "discover")
          /\ IF r \in aborted
             THEN Throw(r) /\ UNCHANGED <<sessions, session>>
             ELSE ClearSessions /\ UNCHANGED <<step, tail, operations>>
    /\ UNCHANGED <<config, edits, aborted, seen, active, allowed, key, registered, call, spawned>>

(* close() resolves: the run that was the last one is over.                *)
CloseDone(r) ==
    /\ IsNext(r, "close") /\ stage = "clearing" /\ Closed(awaited)
    /\ operations' = Tail(operations) /\ stage' = "idle" /\ awaited' = {}
    /\ Goto(r, "done")
    /\ UNCHANGED <<config, edits, aborted, seen, active, allowed, key, registered, tail, call,
                   sessions, session, spawned, loaded>>

(* The enabled servers: the user's and, once authorized, the workspace's.  *)
Selected(c, authorized) == c.user \cup (IF authorized THEN c.workspace ELSE {})
Unusable(c, authorized) ==
    \/ Cardinality(c.user) + (IF authorized THEN Cardinality(c.workspace) ELSE 0) > MaxServers
    \/ authorized /\ c.user \cap c.workspace # {}

\* A session between the spawn and the answer to initialize.
Started(server, c) == [server |-> server, config |-> c, stale |-> FALSE, proc |-> "alive",
                       state |-> "starting", close |-> "open"]

(* startServer for each of them, concurrently, unless the run was aborted. *)
StartServers(r, c, authorized) ==
    LET S == Selected(ConfigOf[c], authorized)
        new == (spawned + 1) .. (spawned + Cardinality(S))
    IN IF r \in aborted \/ Unusable(ConfigOf[c], authorized)
       THEN Throw(r) /\ UNCHANGED <<session, spawned>>
       ELSE /\ spawned + Cardinality(S) <= MaxSessions
            /\ LET server == CHOOSE f \in [new -> S] : \A i, j \in new : f[i] = f[j] => i = j
               IN session' = [i \in Sids |->
                     IF i \in new THEN Started(server[i], c) ELSE session[i]]
            /\ spawned' = spawned + Cardinality(S)
            /\ stage' = "starting" /\ awaited' = new /\ loaded' = NoKey
            /\ UNCHANGED <<step, tail, operations>>

(* The configuration is read again, and may have been edited since it was  *)
(* inspected.  Servers of the workspace wait for an approval.              *)
LoadConfiguration(r) ==
    /\ IsNext(r, "discover") /\ stage = "clearing" /\ Closed(awaited)
    /\ \/ /\ ~ConfigOf[config].valid
          /\ Throw(r) /\ UNCHANGED <<session, spawned>>
       \/ /\ ConfigOf[config].valid /\ ConfigOf[config].workspace = {}
          /\ StartServers(r, config, FALSE)
       \/ /\ ConfigOf[config].valid /\ ConfigOf[config].workspace # {}
          /\ IF r \in aborted
             THEN Throw(r)
             ELSE /\ stage' = "authorizing" /\ awaited' = {} /\ loaded' = config
                  /\ UNCHANGED <<step, tail, operations>>
          /\ UNCHANGED <<session, spawned>>
    /\ UNCHANGED <<config, edits, aborted, seen, active, allowed, key, registered, call, sessions>>

\* The decision of the user, or of a ticket that lapsed.
Approvals == BOOLEAN

AuthorizeWorkspace(r) ==
    /\ IsNext(r, "discover") /\ stage = "authorizing"
    /\ \E approved \in Approvals : StartServers(r, loaded, approved)
    /\ UNCHANGED <<config, edits, aborted, seen, active, allowed, key, registered, call, sessions>>

\* The tools of the sessions in S replace those the registry had.
Registrations(S) == {[server |-> session[i].server, config |-> session[i].config] : i \in S}

(* Every server is ready, or has failed and is closed.  Unless the run was *)
(* aborted or there are too many tools, the sessions are listed and their  *)
(* tools enter the registry under the key that was inspected.              *)
FinishDiscovery(r) ==
    LET ready == {i \in awaited : session[i].state = "ready"}
        failed == {i \in awaited : session[i].state = "failed"}
    IN /\ IsNext(r, "discover") /\ stage = "starting"
       /\ awaited = ready \cup failed /\ Closed(failed)
       /\ \/ /\ stage' = "undoing" /\ awaited' = ready
             /\ session' = Closing(session, ready)
             /\ UNCHANGED <<step, allowed, key, registered, tail, sessions, operations>>
          \/ /\ r \notin aborted
             /\ sessions' = [s \in Servers |->
                    IF \E i \in ready : session[i].server = s
                    THEN CHOOSE i \in ready : session[i].server = s ELSE 0]
             /\ registered' = Registrations(ready)
             /\ key' = seen[r] /\ allowed' = allowed \cup {r}
             /\ Goto(r, "working") /\ tail' = Tail(tail)
             /\ operations' = Tail(operations) /\ stage' = "idle" /\ awaited' = {}
             /\ UNCHANGED session
    /\ UNCHANGED <<config, edits, aborted, seen, active, call, spawned, loaded>>

UndoDiscovery(r) ==
    /\ IsNext(r, "discover") /\ stage = "undoing" /\ Closed(awaited)
    /\ Throw(r)
    /\ UNCHANGED <<config, edits, aborted, seen, active, allowed, key, registered, call,
                   sessions, session, spawned>>
-----------------------------------------------------------------------------
(* A session and its process.                                              *)

\* A call of r waits for an answer of session i.
Waits(r, i) == step[r] = "requested" /\ call[r].sid = i
Broken(ss, i) == [ss EXCEPT ![i].state = IF @ = "starting" THEN "failed" ELSE @]
sessionFrame == <<config, edits, aborted, seen, active, allowed, key, registered, sessions, spawned,
                  operations, stage, loaded, awaited>>

(* initialize and the pages of tools/list are answered.                    *)
AnswerStart(i) ==
    /\ session[i].state = "starting" /\ session[i].close = "open"
    /\ session' = [session EXCEPT ![i].state = "ready"]
    /\ UNCHANGED <<step, tail, call, sessionFrame>>

(* An answer of the wrong form, a protocol version or a tool list that is  *)
(* refused, the start-up timeout.                                          *)
StartFails(i) ==
    /\ session[i].state = "starting"
    /\ session' = Broken(Closing(session, {i}), i)
    /\ UNCHANGED <<step, tail, call, sessionFrame>>

(* notifications/tools/list_changed                                        *)
ListChanged(i) ==
    /\ session[i].proc = "alive" /\ session[i].close = "open"
    /\ session' = [session EXCEPT ![i].stale = TRUE]
    /\ UNCHANGED <<step, tail, call, sessionFrame>>

(* A message that is no JSON-RPC: the pending request is rejected with a   *)
(* protocol error, which leaves the session in the map.                    *)
BadMessage(i) ==
    /\ session[i].proc = "alive" /\ session[i].close = "open"
    /\ session' = Broken(Closing(session, {i}), i)
    /\ \/ \E r \in Runs : Waits(r, i) /\ Return(r)
       \/ ~(\E r \in Runs : Waits(r, i)) /\ UNCHANGED <<step, tail, call>>
    /\ UNCHANGED sessionFrame

(* The process exits, by itself or since it was told to.                   *)
ProcessExits(i) ==
    /\ session[i].proc = "alive"
    /\ session' = IF i \in Listed \cup awaited
                     THEN [Broken(session, i) EXCEPT ![i].proc = "dead", ![i].close = "closed"]
                     ELSE [session EXCEPT ![i] = EndedSession]
    /\ step' = [r \in Runs |-> IF Waits(r, i) THEN "dropping" ELSE step[r]]
    /\ UNCHANGED <<tail, call, sessionFrame>>

(* shutdownGraceMs is over: SIGTERM, then SIGKILL, whose effect close()    *)
(* does not wait for.                                                      *)
GraceEnds(i) ==
    /\ session[i].close \in {"eof", "term"}
    /\ session' = [session EXCEPT ![i].close = IF @ = "eof" THEN "term" ELSE "closed"]
    /\ UNCHANGED <<step, tail, call, sessionFrame>>
-----------------------------------------------------------------------------
(* callTool, behind the side-effect queue.                                 *)
callFrame == <<config, edits, aborted, seen, active, allowed, key, registered, spawned,
               operations, stage, loaded, awaited>>

CallTool(r) ==
    /\ step[r] = "working" /\ r \in allowed \ aborted
    /\ \E t \in registered : call' = [call EXCEPT ![r] = [tool |-> t, sid |-> 0]]
    /\ Goto(r, "call") /\ tail' = Append(tail, r)
    /\ UNCHANGED <<callFrame, sessions, session>>

(* The registry parses the call again when its turn comes.                 *)
Callable(t) ==
    /\ sessions[t.server] # 0
    /\ ~session[sessions[t.server]].stale
    /\ session[sessions[t.server]].config = t.config

LookUpTool(r) ==
    LET t == call[r].tool
    IN /\ step[r] = "call" /\ HasTurn(r)
       /\ IF r \notin aborted /\ r \in allowed /\ t \in registered /\ Callable(t)
          THEN /\ Goto(r, "approving")
               /\ call' = [call EXCEPT ![r].sid = sessions[t.server]]
               /\ UNCHANGED tail
          ELSE Return(r)
       /\ UNCHANGED <<callFrame, sessions, session>>

\* Mutant: the session is the same, whatever it announced since.
SameSession(r) == sessions[call[r].tool.server] = call[r].sid

\* What the user approved is still what the session offers.
StillCurrent(r) == Callable(call[r].tool) /\ sessions[call[r].tool.server] = call[r].sid

(* The approval arrives: the request is sent, refused since the tool is    *)
(* not what it was, or rejected by a session that is not open any more.    *)
Approve(r) ==
    /\ step[r] = "approving"
    /\ \/ /\ StillCurrent(r) /\ session[call[r].sid].close = "open"
          /\ Goto(r, "requested") /\ UNCHANGED <<tail, call>>
       \/ /\ StillCurrent(r) /\ session[call[r].sid].close # "open"
          /\ Goto(r, "dropping") /\ UNCHANGED <<tail, call>>
       \/ ~StillCurrent(r) /\ Return(r)
    /\ UNCHANGED <<callFrame, sessions, session>>

Deny(r) ==
    /\ step[r] = "approving"
    /\ Return(r)
    /\ UNCHANGED <<callFrame, sessions, session>>

(* A result, or an error the server reports.                               *)
AnswerCall(r) ==
    /\ step[r] = "requested" /\ session[call[r].sid].close = "open"
    /\ Return(r)
    /\ UNCHANGED <<callFrame, sessions, session>>

(* callTimeoutMs; a result that is no object or too large.                 *)
CallTimesOut(r) ==
    /\ step[r] = "requested"
    /\ Goto(r, "dropping")
    /\ session' = Closing(session, {call[r].sid})
    /\ UNCHANGED <<callFrame, tail, call, sessions>>

BadResult(r) ==
    /\ step[r] = "requested" /\ session[call[r].sid].close = "open"
    /\ Goto(r, "discarding")
    /\ session' = Closing(session, {call[r].sid})
    /\ UNCHANGED <<callFrame, tail, call, sessions>>

(* The session is closed and leaves the map; after a bad result without a  *)
(* look at which session the map holds now.                                *)
DropSession(r) ==
    LET s == call[r].tool.server
    IN /\ step[r] \in {"dropping", "discarding"} /\ Closed({call[r].sid})
       /\ sessions' = IF step[r] = "discarding" \/ sessions[s] = call[r].sid
                      THEN [sessions EXCEPT ![s] = 0] ELSE sessions
       /\ Return(r)
       /\ UNCHANGED <<callFrame, session>>
-----------------------------------------------------------------------------
(* The finally block of performRun: the last run closes the servers.       *)
Leave(r) ==
    /\ step[r] \in {"working", "leaving"}
    /\ active' = active \ {r}
    /\ seen' = [seen EXCEPT ![r] = NoKey]
    /\ IF active = {r}
       THEN /\ registered' = {} /\ key' = NoKey /\ allowed' = {}
            /\ operations' = Append(operations, <<r, "close">>)
            /\ Goto(r, "closing")
       ELSE /\ allowed' = allowed \ {r}
            /\ Goto(r, "done")
            /\ UNCHANGED <<registered, key, operations>>
    /\ UNCHANGED <<config, edits, aborted, tail, call, sessions, session, spawned, stage,
                   loaded, awaited>>
-----------------------------------------------------------------------------
RunStep(r) ==
    \/ Inspect(r) \/ Refresh(r) \/ BeginOperation(r) \/ CloseDone(r) \/ LoadConfiguration(r)
    \/ AuthorizeWorkspace(r) \/ FinishDiscovery(r) \/ UndoDiscovery(r)
    \/ LookUpTool(r) \/ DropSession(r)

Next ==
    \/ EditConfig
    \/ \E r \in Runs : \/ StartRun(r) \/ AbortRun(r) \/ RunStep(r) \/ CallTool(r) \/ Approve(r)
                       \/ Deny(r) \/ AnswerCall(r) \/ CallTimesOut(r) \/ BadResult(r) \/ Leave(r)
    \/ \E i \in Sids : \/ AnswerStart(i) \/ StartFails(i) \/ ListChanged(i) \/ BadMessage(i)
                       \/ ProcessExits(i) \/ GraceEnds(i)

Spec == Init /\ [][Next]_vars

(* What the event loop and the timers guarantee: steps that wait for       *)
(* nobody, time limits, the answer to an approval (its ticket expires), an *)
(* aborted run that reaches its finally block, a killed process that ends. *)
Fairness ==
    /\ \A r \in Runs :
         /\ WF_vars(RunStep(r)) /\ WF_vars(Deny(r)) /\ WF_vars(CallTimesOut(r))
         /\ WF_vars(step[r] = "leaving" /\ Leave(r))
         /\ SF_vars(r \in aborted /\ Leave(r))
    /\ \A i \in Sids :
         /\ WF_vars(StartFails(i)) /\ WF_vars(GraceEnds(i))
         /\ WF_vars(session[i].close = "closed" /\ ProcessExits(i))

FairSpec == Spec /\ Fairness
-----------------------------------------------------------------------------
(* A server that runs and that nobody asked to end is in the session map   *)
(* or being started by the discovery that will list or close it: no        *)
(* interleaving of discovery, close, failed calls and aborts leaks one.    *)
NoStrayServer ==
    \A i \in Sids : session[i].proc = "alive" /\ session[i].close = "open" =>
        i \in Listed \/ (stage = "starting" /\ i \in awaited)

(* While a run may call MCP tools, no other run's refresh, discovery or    *)
(* close changes them: the registry stays as it is, and a server leaves    *)
(* the session map only after a call to it went wrong.  Which revision the *)
(* tools are of is not claimed: discovery reads the files again.           *)
AllowedRunsKeepTheirTools ==
    [][allowed \cap allowed' # {} =>
         /\ registered' = registered
         /\ \A s \in Servers : sessions'[s] # sessions[s] =>
              /\ sessions'[s] = 0
              /\ \E r \in Runs : /\ step[r] \in {"dropping", "discarding"} /\ step'[r] = "working"
                               /\ call[r].tool.server = s]_vars

(* When the request goes out, the session that receives it is the one the  *)
(* approval was asked for, and has not announced other tools since.        *)
CalledAsApproved ==
    [][\A r \in Runs : step[r] # "requested" /\ step'[r] = "requested" =>
         /\ sessions[call[r].tool.server] = call[r].sid
         /\ ~session[call[r].sid].stale]_vars

(* An aborted run gets to its end, through a discovery in progress, an     *)
(* approval, a request that is never answered or a process that hangs.     *)
AbortedRunsEnd == \A r \in Runs : r \in aborted ~> step[r] = "done"
=============================================================================
