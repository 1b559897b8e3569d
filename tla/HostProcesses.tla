---------------------------- MODULE HostProcesses ----------------------------
(***************************************************************************)
(* One operation of the host and the child processes it runs: a command    *)
(* the user approved (services/execution.ts), a Git inspection             *)
(* (services/git.ts) or the dispatch of an event to the hooks of the       *)
(* workspace (services/hooks.ts), while the user edits hooks.json, gives   *)
(* and withdraws trust, changes the workspace and cancels.                 *)
(*                                                                         *)
(* A process is the leader of a group of its own and may leave a helper    *)
(* behind that holds its output pipes ("piped") or not ("silent"); Node    *)
(* reports the end of a child (close) when the leader has ended and the    *)
(* pipes are shut.  This is the POSIX branch of signalProcessTree.         *)
(***************************************************************************)
EXTENDS Naturals

CONSTANTS Kinds,      \* operations explored: subset of {"command", "git", "hook"}
          Together,   \* Git commands that run side by side at the end of an inspection
          HookCount,  \* hooks of the event, in the order of hooks.json
          Contents,   \* definitions a hook can have; the revision is their hash
          MaxChanges  \* bound: what the user and other programs change

Unset == "none"
Slots == 1 .. Together
Hooks == 1 .. HookCount

ASSUME HostAssumption ==
    /\ Kinds \subseteq {"command", "git", "hook"}
    /\ Together \in Nat \ {0} /\ HookCount \in Nat /\ MaxChanges \in Nat
    /\ Unset \notin Contents

VARIABLES
    kind, step,  \* the operation, and how far it is
    aborted,     \* its AbortSignal
    procs,       \* its processes
    selected,    \* is its workspace the one that is selected?
    trusted,     \* does TrustStore trust that workspace?
    config,      \* hooks.json: hook -> definition
    entries,     \* hook-trust.json: hook -> definition the user trusted
    review,      \* calls of setTrusted that have checked and not yet saved
    todo,        \* hooks a dispatch has still to run, as it read them: the least comes first
    asked,       \* hooks that were trusted when it began
    passed,      \* hooks that ran and gave no reason to block
    blocked,     \* has one given a reason?
    result,      \* the decision of the dispatch
    changed,     \* history: hooks the user or a program touched since the dispatch read them
    raced,       \* history: was the hook at hand touched since its check began?
    changes      \* changes so far

world == <<selected, trusted, config, entries, review, changes, changed, raced>>
hookVars == <<todo, asked, passed, blocked, result>>
hostVars == <<kind, step, aborted, procs, world, hookVars>>

NoProcess == [state |-> "none", leader |-> "none", code |-> 0, helper |-> "none",
              timeout |-> FALSE, kill |-> "none", late |-> FALSE,
              timedOut |-> FALSE, cancelled |-> FALSE]

Steps == {"idle", "approval", "root", "config", "status", "queries", "discover", "trust",
          "next", "recheck", "retrust", "start", "process", "done"}

\* Types, and what the records of processes, hooks and reviews hold.
HostTypeOK ==
    /\ kind \in Kinds /\ step \in Steps
    /\ {aborted, selected, trusted, blocked, raced} \subseteq BOOLEAN
    /\ procs \in [Slots -> [state : {"none", "preparing", "running", "closed"},
                            leader : {"none", "running", "exited", "signalled", "failed"},
                            code : {0, 1}, helper : {"none", "silent", "piped"},
                            timeout : BOOLEAN, kill : {"none", "armed", "fired"},
                            late : BOOLEAN, timedOut : BOOLEAN, cancelled : BOOLEAN]]
    /\ config \in [Hooks -> Contents \cup {Unset}] /\ entries \in [Hooks -> Contents \cup {Unset}]
    /\ review \subseteq [hook : Hooks, content : Contents \cup {Unset}]
    /\ todo \subseteq [hook : Hooks, content : Contents]
    /\ asked \subseteq Hooks /\ passed \subseteq Hooks /\ changed \subseteq Hooks
    /\ result \in {Unset, "continue", "block"} /\ changes \in 0 .. MaxChanges

HostInit ==
    /\ kind \in Kinds /\ step = "idle" /\ aborted = FALSE
    /\ procs = [p \in Slots |-> NoProcess]
    /\ selected = TRUE /\ trusted = TRUE
    /\ \E c \in Contents : config = [h \in Hooks |-> c]
    /\ entries \in {config, [h \in Hooks |-> Unset]}
    /\ review = {} /\ todo = {} /\ asked = {} /\ passed = {}
    /\ blocked = FALSE /\ result = Unset
    /\ changed = {} /\ raced = FALSE /\ changes = 0

Running(p) == procs[p].state = "running"
Active(p) == procs[p].state \in {"preparing", "running"}
-----------------------------------------------------------------------------
(* The life of one child.                                                  *)

\* signalProcessTree does nothing once the leader has an exit code.
Signalled(r, includeExited) ==
    r.leader # "failed" /\ (includeExited \/ r.leader \in {"running", "signalled"})

\* SIGTERM may be ignored, by the leader and by its helper.
AfterTerm(r) ==
    IF ~Signalled(r, FALSE) THEN {r}
    ELSE [state : {r.state}, code : {r.code}, timeout : {r.timeout}, kill : {r.kill},
          late : {r.late}, timedOut : {r.timedOut}, cancelled : {r.cancelled},
          leader : {r.leader, IF r.leader = "running" THEN "signalled" ELSE r.leader},
          helper : {r.helper, "none"}]

AfterKill(r, includeExited) ==
    IF Signalled(r, includeExited)
    THEN [r EXCEPT !.leader = IF @ = "running" THEN "signalled" ELSE @, !.helper = "none"]
    ELSE r

\* forceTerminateSoon.  A second one replaces the timer of the first, which stays armed.
Terminate(r) == {[s EXCEPT !.kill = "armed", !.late = @ \/ r.kill = "armed"] : s \in AfterTerm(r)}

Become(p, records) == \E r \in records : procs' = [procs EXCEPT ![p] = r]
processFrame == <<kind, step, aborted, world, hookVars>>
Launched(p) == {[procs[p] EXCEPT !.state = "running", !.timeout = TRUE, !.leader = l] :
                    l \in {"running", "failed"}}

\* Mutant: the runner relies on the check made before the awaits.
SpawnAnyway(p) == Launched(p)

(* The process starts, after the awaits that prepare its directory.  The   *)
(* runner looks at the signal once more; Git only looks before them.       *)
CancelledEarly(p) == {[procs[p] EXCEPT !.state = "closed", !.cancelled = TRUE]}
Spawned(p) ==
    IF aborted /\ kind # "git" THEN CancelledEarly(p) ELSE Launched(p)

Spawn(p) ==
    /\ procs[p].state = "preparing"
    /\ Become(p, Spawned(p))
    /\ UNCHANGED processFrame

Fork(p) ==
    /\ Running(p) /\ procs[p].leader = "running" /\ procs[p].helper = "none"
    /\ Become(p, {[procs[p] EXCEPT !.helper = h] : h \in {"silent", "piped"}})
    /\ UNCHANGED processFrame

LeaderEnds(p) ==
    /\ procs[p].leader = "running"
    /\ Become(p, {[procs[p] EXCEPT !.leader = "exited", !.code = c] : c \in {0, 1}})
    /\ UNCHANGED processFrame

HelperEnds(p) ==
    /\ procs[p].helper # "none"
    /\ Become(p, {[procs[p] EXCEPT !.helper = "none"]})
    /\ UNCHANGED processFrame

TimeoutFires(p) ==
    /\ Running(p) /\ procs[p].timeout
    /\ Become(p, Terminate([procs[p] EXCEPT !.timeout = FALSE, !.timedOut = TRUE]))
    /\ UNCHANGED processFrame

\* Mutant: the kill timer asks a second time.
AskAgain(p) ==
    /\ Running(p) /\ procs[p].kill = "armed"
    /\ Become(p, AfterTerm([procs[p] EXCEPT !.kill = "fired"]))
    /\ UNCHANGED processFrame

KillFires(p) ==
    /\ Running(p)
    /\ \/ procs[p].kill = "armed"
          /\ Become(p, {AfterKill([procs[p] EXCEPT !.kill = "fired"], FALSE)})
       \/ procs[p].late /\ Become(p, {AfterKill([procs[p] EXCEPT !.late = FALSE], FALSE)})
    /\ UNCHANGED processFrame

\* Mutant: once a forced child has closed, the rest of its group is left alone.
CloseAlone(p) ==
    /\ Running(p) /\ procs[p].leader # "running" /\ procs[p].helper # "piped"
    /\ Become(p, {[procs[p] EXCEPT !.state = "closed", !.timeout = FALSE]})
    /\ UNCHANGED processFrame

(* close: the group of a child that was ended by force is killed again,    *)
(* now that its leader is gone.                                            *)
Close(p) ==
    LET r == [procs[p] EXCEPT !.state = "closed", !.timeout = FALSE,
                              !.kill = IF @ = "armed" THEN "fired" ELSE @]
    IN /\ Running(p) /\ procs[p].leader # "running" /\ procs[p].helper # "piped"
       /\ Become(p, {IF r.kill # "none" /\ (r.timedOut \/ r.cancelled) THEN AfterKill(r, TRUE)
                     ELSE r})
       /\ UNCHANGED processFrame

(* The cancellation of the operation reaches the children that listen.     *)
Abort ==
    /\ ~aborted /\ step # "idle" /\ aborted' = TRUE
    /\ LET After(p) == IF Running(p) THEN Terminate([procs[p] EXCEPT !.cancelled = TRUE])
                       ELSE {procs[p]}
       IN procs' \in {f \in [Slots -> UNION {After(p) : p \in Slots}] :
                          \A p \in Slots : f[p] \in After(p)}
    /\ UNCHANGED <<kind, step, world, hookVars>>
-----------------------------------------------------------------------------
(* The operations.                                                         *)
Goto(s) == step' = s
Prepare(P) == procs' = [p \in Slots |-> IF p \in P THEN [NoProcess EXCEPT !.state = "preparing"]
                                        ELSE procs[p]]
opFrame == <<kind, aborted, world>>
Begin(s, P) == Goto(s) /\ Prepare(P) /\ UNCHANGED <<opFrame, hookVars>>
Quit == Goto("done") /\ UNCHANGED <<opFrame, procs, hookVars>>


\* resolveWorkingDirectory needs a workspace, and a directory in it.
WorkingDirectories == {FALSE, selected}
\* preview may refuse the arguments, the program or the directory.
Previews == {FALSE} \cup WorkingDirectories

\* run_command: preview, and the question whether the user approves.
AskForCommand ==
    /\ kind = "command" /\ step = "idle"
    /\ \E ok \in Previews : Goto(IF ok THEN "approval" ELSE "done")
    /\ UNCHANGED <<opFrame, procs, hookVars>>

\* The decision; then the runner previews once more.
RunCommand ==
    /\ step = "approval"
    /\ \/ ~aborted /\ (\E ok \in Previews : ok /\ Begin("process", {1}))
       \/ Quit

CommandEnds == kind = "command" /\ step = "process" /\ procs[1].state = "closed" /\ Quit

Inspect ==
    /\ kind = "git" /\ step = "idle"
    /\ \/ selected /\ ~aborted /\ Begin("root", {1})
       \/ Quit

\* The end that assertSuccessful and its callers accept; 1 says "no such configuration".
Ended(p) == procs[p].state = "closed"
Succeeded(p, codes) ==
    /\ Ended(p) /\ ~procs[p].cancelled /\ ~procs[p].timedOut
    /\ procs[p].leader = "exited" /\ procs[p].code \in codes

RepositoryRoot == step = "root" /\ Succeeded(1, {0})
SafeConfiguration == step = "config" /\ Succeeded(1, {0, 1})

\* The root, its configuration, for a diff its status, the rest.
InspectFurther ==
    /\ kind = "git" /\ ~aborted
    /\ \/ RepositoryRoot /\ Begin("config", {1})
       \/ SafeConfiguration /\ (Begin("status", {1}) \/ Begin("queries", Slots))
       \/ step = "status" /\ Succeeded(1, {0}) /\ Begin("queries", Slots)

(* The last command has ended, or an earlier one failed, or the signal     *)
(* says so before the next.                                                *)
InspectionEnds ==
    /\ kind = "git" /\ step \in {"root", "config", "status", "queries"}
    /\ IF step = "queries" THEN \A p \in Slots : Ended(p) ELSE Ended(1)
    /\ Quit

(* A file operation before the spawn fails.  The Git commands that run     *)
(* beside it are left to end by themselves.                                *)
PreparationFails(p) ==
    /\ procs[p].state = "preparing"
    /\ Become(p, {[NoProcess EXCEPT !.state = "closed"]})
    /\ Goto("done") /\ UNCHANGED <<opFrame, hookVars>>
-----------------------------------------------------------------------------
(* dispatch.                                                               *)
AtHook(s) == kind = "hook" /\ step = s
dispatchFrame == <<kind, aborted, procs, selected, trusted, config, entries, review, changes>>

\* The hook at hand: they run in the order of hooks.json.
CurrentHook == CHOOSE r \in todo : \A q \in todo : r.hook <= q.hook

Return(decision) == Goto("done") /\ result' = decision /\ UNCHANGED <<todo, asked, passed, blocked>>

(* discoverDefinitions: workspace and trust are checked, hooks.json is     *)
(* read, and both are checked again.                                       *)
Dispatch ==
    /\ AtHook("idle")
    /\ IF selected /\ trusted THEN Goto("discover") /\ UNCHANGED hookVars ELSE Return("continue")
    /\ UNCHANGED <<dispatchFrame, changed, raced>>

Discovered == {[hook |-> h, content |-> config[h]] : h \in {h \in Hooks : config[h] # Unset}}

Discover ==
    /\ AtHook("discover")
    /\ CASE ~selected -> Goto("done") /\ UNCHANGED <<hookVars, changed>>
         [] selected /\ ~trusted -> Return("continue") /\ UNCHANGED changed
         [] selected /\ trusted ->
              Goto("trust") /\ todo' = Discovered /\ changed' = {}
              /\ UNCHANGED <<asked, passed, blocked, result>>
    /\ UNCHANGED <<dispatchFrame, raced>>

\* entryTrustsHook, with the entries as loadTrust has them now.
Trusts(r) == entries[r.hook] = r.content

KeepTrusted ==
    /\ AtHook("trust") /\ Goto("next")
    /\ todo' = {r \in todo : Trusts(r)}
    /\ asked' = {r.hook : r \in todo'}
    /\ UNCHANGED <<dispatchFrame, passed, blocked, result, changed, raced>>

(* The check before each hook begins: signal, workspace, trust.            *)
NextHook ==
    /\ AtHook("next") /\ todo # {}
    /\ Goto(IF ~aborted /\ selected /\ trusted THEN "recheck" ELSE "done")
    /\ raced' = FALSE /\ UNCHANGED <<dispatchFrame, hookVars, changed>>

Proceed(ok, s) ==
    /\ IF ok THEN Goto(s) /\ UNCHANGED todo ELSE Goto("next") /\ todo' = todo \ {CurrentHook}
    /\ UNCHANGED <<dispatchFrame, asked, passed, blocked, result, changed, raced>>

\* A fresh discovery must have the hook with the revision that was read at first.
Recheck ==
    /\ AtHook("recheck")
    /\ IF selected THEN Proceed(trusted /\ config[CurrentHook.hook] = CurrentHook.content, "retrust")
       ELSE Goto("done") /\ UNCHANGED <<dispatchFrame, hookVars, changed, raced>>

\* Mutant: the trust read at the start of the dispatch is used for every hook.
RetrustNever == AtHook("retrust") /\ Proceed(TRUE, "start")

\* And the entry, as it is now, must have that revision.
Retrust == AtHook("retrust") /\ Proceed(Trusts(CurrentHook), "start")

\* The runner asks for the workspace once more, and prepares the process.
StartHook ==
    /\ AtHook("start")
    /\ \E ok \in Previews : IF ok THEN Begin("process", {1}) ELSE Quit

(* interpretResult: all but a hook that passed block, save a denial whose  *)
(* reason is the empty string ("mute").                                    *)
Objections == {"failed", "denied", "unreadable"}

TakeResult ==
    /\ AtHook("process") /\ Ended(1)
    /\ IF procs[1].cancelled /\ aborted THEN Goto("done") /\ UNCHANGED hookVars
       ELSE \E v \in IF Succeeded(1, {0}) THEN {"passed", "unreadable", "denied", "mute"}
                     ELSE {"failed"} :
              /\ Goto("next") /\ todo' = todo \ {CurrentHook}
              /\ blocked' = (blocked \/ v \in Objections)
              /\ passed' = IF v \in {"passed", "mute"} THEN passed \cup {CurrentHook.hook} ELSE passed
              /\ UNCHANGED <<asked, result>>
    /\ UNCHANGED <<dispatchFrame, changed, raced>>

DispatchEnds ==
    /\ AtHook("next") /\ todo = {}
    /\ Return(IF blocked THEN "block" ELSE "continue")
    /\ UNCHANGED <<dispatchFrame, changed, raced>>
-----------------------------------------------------------------------------
(* Meanwhile: the user, and the programs that write hooks.json.            *)
opVars == <<kind, step, aborted, procs, hookVars>>
Touch(H) ==
    /\ changes < MaxChanges /\ changes' = changes + 1
    /\ changed' = changed \cup H
    /\ raced' = (raced \/ (todo # {} /\ CurrentHook.hook \in H))

Leave ==
    /\ selected' = ~selected /\ Touch({})
    /\ UNCHANGED <<opVars, trusted, config, entries, review>>

TrustWorkspace ==
    /\ kind = "hook" /\ trusted' = ~trusted /\ Touch(Hooks)
    /\ UNCHANGED <<opVars, selected, config, entries, review>>

EditConfig(h, c) ==
    /\ kind = "hook" /\ config[h] # c
    /\ config' = [config EXCEPT ![h] = c] /\ Touch({h})
    /\ UNCHANGED <<opVars, selected, trusted, entries, review>>

(* setTrusted: the hook must be listed with the revision the user saw;     *)
(* the entry is written afterwards, and the write may fail.                *)
Review(h, give) ==
    /\ kind = "hook" /\ review = {} /\ changes < MaxChanges
    /\ selected /\ trusted /\ config[h] # Unset
    /\ review' = {[hook |-> h, content |-> IF give THEN config[h] ELSE Unset]}
    /\ UNCHANGED <<opVars, selected, trusted, config, entries, changes, changed, raced>>

MutateTrust(r) == entries' = [entries EXCEPT ![r.hook] = r.content] /\ Touch({r.hook})
SaveReview ==
    \E r \in review :
        /\ review' = {}
        /\ \/ MutateTrust(r)
           \/ UNCHANGED <<entries, changes, changed, raced>>
        /\ UNCHANGED <<opVars, selected, trusted, config>>
-----------------------------------------------------------------------------
ProcessStep(p) ==
    Spawn(p) \/ PreparationFails(p) \/ TimeoutFires(p) \/ KillFires(p) \/ Close(p)

Step ==
    \/ AskForCommand \/ RunCommand \/ CommandEnds
    \/ Inspect \/ InspectFurther \/ InspectionEnds
    \/ Dispatch \/ Discover \/ KeepTrusted \/ NextHook \/ Recheck \/ Retrust \/ StartHook
    \/ TakeResult \/ DispatchEnds

HostNext ==
    \/ \E p \in Slots : ProcessStep(p) \/ Fork(p) \/ LeaderEnds(p) \/ HelperEnds(p)
    \/ Step \/ Abort
    \/ Leave \/ TrustWorkspace
    \/ \E h \in Hooks : (\E c \in Contents \cup {Unset} : EditConfig(h, c))
                        \/ (\E give \in BOOLEAN : Review(h, give))
    \/ SaveReview

HostSpec == HostInit /\ [][HostNext]_hostVars

(* The host goes on and its timers fire; nothing is assumed of the leader  *)
(* of a group.                                                             *)
TimerFairness == WF_hostVars(Step) /\ \A p \in Slots : WF_hostVars(ProcessStep(p))

TimerSpec == HostSpec /\ TimerFairness

(* A helper that outlived its leader ends by itself: signalProcessTree     *)
(* gives no way to end it.                                                 *)
HelperFairness == \A p \in Slots : WF_hostVars(procs[p].leader # "running" /\ HelperEnds(p))

HostFairSpec == TimerSpec /\ HelperFairness
-----------------------------------------------------------------------------
(* Properties.                                                             *)

\* When a child that was ended by force has closed, nothing of its group is left, whichever of
\* timeout, cancellation, kill timer and exit came first.
ForcedGroupIsGone ==
    \A p \in Slots : Ended(p) /\ (procs[p].timedOut \/ procs[p].cancelled)
                     => procs[p].helper = "none"

\* No command and no hook runs on without knowing that its operation was cancelled.
CancellationReachesChildren ==
    \A p \in Slots : aborted /\ Running(p) /\ kind # "git" => procs[p].cancelled

\* A hook starts only in a trusted workspace, with the definition its user trusted and as
\* hooks.json has it, unless one of these changed while it was being checked.
OnlyTrustedHooksStart ==
    [][AtHook("start") /\ step' = "process" =>
         \/ raced
         \/ trusted /\ Trusts(CurrentHook) /\ config[CurrentHook.hook] = CurrentHook.content]_hostVars

\* Every operation ends and leaves no child that is still awaited.
OperationsEnd == <>(step = "done" /\ \A p \in Slots : ~Active(p))

=============================================================================
