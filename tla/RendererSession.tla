--------------------------- MODULE RendererSession ---------------------------
(***************************************************************************)
(* What the window shows, against what the main process holds: the         *)
(* selected workspace (services/workspace.ts), its trust                   *)
(* (services/trust.ts), the IPC handlers and their gate (main/ipc.ts), and *)
(* the state of the renderer that their answers and the events of the run  *)
(* change (renderer/src/App.tsx): the explorer with its root and one       *)
(* directory, the skills, the workspace and trust shown, and the run.      *)
(*                                                                         *)
(* A handler runs in steps between its awaits, any number side by side.    *)
(* Answers and events reach the renderer in the order they were sent.      *)
(***************************************************************************)
EXTENDS Naturals, Sequences, FiniteSets

CONSTANTS Workspaces, \* directories that can be chosen
          First,      \* the one that was open last
          Trusted,    \* those that were trusted
          MaxActions, \* bound: what the user does
          MaxFaults,  \* bound: lists that fail, file changes of a run, restarts
          MaxChoices  \* bound: directory dialogs among them

None == "none"
Keys == {"root", "dir"}

ASSUME SessionAssumption ==
    /\ None \notin Workspaces /\ First \in Workspaces /\ Trusted \subseteq Workspaces
    /\ MaxActions \in Nat /\ MaxFaults \in Nat /\ MaxChoices \in Nat

VARIABLES
    ws,       \* WorkspaceService.rootPath
    trust,    \* TrustStore: the decisions held in memory
    file,     \* and those in workspace-trust.json
    told,     \* history: the last decision on each workspace, once it was confirmed
    held,     \* are runs suspended?
    run,      \* the run of the agent
    calls,    \* handlers under way
    wire,     \* answers and events sent and not yet handled
    shown,    \* bootstrap: workspace and trust in the renderer's state
    gen,      \* workspaceLoadGenerationRef
    req,      \* workspaceDirectoryRequestRef
    dirs,     \* workspaceDirectories: status, and the workspace the entries are from
    expanded, \* is the directory expanded?
    skills,   \* workspace whose skills are listed
    starting, active, \* startingRun, and whether activeRunId is set
    budget, faults, choices \* what is left of each bound

mainVars == <<ws, trust, file, told, held, run>>
explorerVars == <<gen, req, dirs, expanded>>
runView == <<starting, active>>
bounds == <<budget, faults, choices>>
vars == <<mainVars, calls, wire, shown, explorerVars, skills, runView, bounds>>

(* A call: the operation, how far its handler is, the workspace that was   *)
(* selected as it began, and what the renderer's continuation holds; "id"  *)
(* tells equal calls apart.                                                *)
CallOf(op, yes) == [op |-> op, id |-> 0, step |-> "begin", saw |-> ws, yes |-> yes,
                    key |-> "root", gen |-> 0, req |-> 0]
Ops == {"bootstrap", "choose", "trust", "list", "skills", "run"}
Msgs == {"reply", "error", "started", "files", "ended"}

\* Types; and the answers name calls that are no longer under way.
TypeOK ==
    /\ ws \in Workspaces /\ {held, starting, active, expanded} \subseteq BOOLEAN
    /\ trust \in [Workspaces -> BOOLEAN] /\ file \in [Workspaces -> BOOLEAN]
    /\ told \in [Workspaces -> {"yes", "no", "asked"}]
    /\ \A c \in calls : c.op \in Ops /\ c.saw \in Workspaces \cup {None}
    /\ run \in {"none", "queued", "live"}
    /\ \A i \in DOMAIN wire : wire[i].msg \in Msgs
    /\ shown \in [ws : Workspaces \cup {None}, trusted : BOOLEAN]
    /\ gen \in Nat /\ req \in [Keys -> Nat]
    /\ dirs \in [Keys -> [status : {"unloaded", "loading", "loaded", "error"},
                          from : Workspaces \cup {None}]]
    /\ skills \in Workspaces \cup {None}
    /\ budget \in 0 .. MaxActions /\ faults \in 0 .. MaxFaults /\ choices \in 0 .. MaxChoices

Fresh(op) == CHOOSE i \in 0 .. Cardinality(calls) : \A c \in calls : c.op = op => c.id # i
New(op, yes) == [CallOf(op, yes) EXCEPT !.id = Fresh(op)]
NoDirs == [k \in Keys |-> [status |-> "unloaded", from |-> None]]

Init ==
    /\ ws = First /\ held = FALSE /\ run = "none"
    /\ file = [w \in Workspaces |-> w \in Trusted] /\ trust = file
    /\ told = [w \in Workspaces |-> IF w \in Trusted THEN "yes" ELSE "no"]
    /\ calls = {CallOf("bootstrap", FALSE)} /\ wire = <<>>
    /\ shown = [ws |-> None, trusted |-> FALSE]
    /\ gen = 0 /\ req = [k \in Keys |-> 0] /\ dirs = NoDirs /\ expanded = FALSE
    /\ skills = None /\ starting = FALSE /\ active = FALSE
    /\ budget = MaxActions /\ faults = MaxFaults /\ choices = MaxChoices
-----------------------------------------------------------------------------
(* The main process.  A handler that ends takes its call away and answers. *)
viewFrame == <<shown, explorerVars, skills, runView, bounds>>
Becomes(c, d) == calls' = (calls \ {c}) \cup {d} /\ UNCHANGED wire
Answer(c, msg, w, yes) ==
    /\ calls' = calls \ {c}
    /\ wire' = Append(wire, [msg |-> msg, call |-> [c EXCEPT !.step = "done", !.saw = w, !.yes = yes]])
Refuse(c) == Answer(c, "error", None, c.yes)
At(c, op, step) == c \in calls /\ c.op = op /\ c.step = step

(* bootstrap reads the selection, later the trust of the selection, and    *)
(* answers after one more await.                                           *)
Bootstrap(c) ==
    /\ \/ At(c, "bootstrap", "begin")
          /\ Becomes(c, [c EXCEPT !.step = IF trust[ws] THEN "trusted" ELSE "untrusted"])
       \/ c \in calls /\ c.op = "bootstrap" /\ c.step \in {"trusted", "untrusted"}
          /\ Answer(c, "reply", c.saw, c.step = "trusted")
    /\ UNCHANGED <<mainVars, viewFrame>>

(* withRunsSuspended: one operation at a time, once the runs have ended.   *)
Suspend(c) ==
    /\ c \in calls /\ c.op \in {"choose", "trust"} /\ c.step = "begin"
    /\ IF held THEN Refuse(c) /\ UNCHANGED <<held, told>>
       ELSE /\ held' = TRUE /\ Becomes(c, [c EXCEPT !.step = "waiting"])
            /\ told' = IF c.op = "trust" THEN [told EXCEPT ![ws] = "asked"] ELSE told
    /\ UNCHANGED <<ws, trust, file, run, viewFrame>>

\* The dialog: cancelled, refused, or a directory, which openWorkspace selects.
ChooseWorkspace(c) ==
    /\ At(c, "choose", "waiting") /\ run = "none"
    /\ \/ (Answer(c, "reply", None, FALSE) \/ Refuse(c)) /\ held' = FALSE /\ UNCHANGED ws
       \/ /\ ws' \in Workspaces
          /\ Becomes(c, [c EXCEPT !.step = "recovering"]) /\ UNCHANGED held
    /\ UNCHANGED <<trust, file, told, run, viewFrame>>

\* recoverWorkspaceMutations, and the answer.
Recovered(c) ==
    /\ At(c, "choose", "recovering") /\ held' = FALSE
    /\ Answer(c, "reply", ws, FALSE)
    /\ UNCHANGED <<ws, trust, file, told, run, viewFrame>>

\* Mutant: a withdrawal is kept in memory only.
WithdrawInMemory(c) ==
    /\ At(c, "trust", "waiting") /\ run = "none" /\ held' = FALSE
    /\ trust' = [trust EXCEPT ![ws] = c.yes]
    /\ file' = IF c.yes THEN trust' ELSE file
    /\ told' = [told EXCEPT ![ws] = IF c.yes THEN "yes" ELSE "no"]
    /\ Answer(c, "reply", ws, c.yes)
    /\ UNCHANGED <<ws, run, viewFrame>>

(* setWorkspaceTrust: the file is replaced, then the memory.  It fails     *)
(* before the rename or after it.                                          *)
SetWorkspaceTrust(c) ==
    /\ At(c, "trust", "waiting") /\ run = "none" /\ held' = FALSE
    /\ \/ /\ trust' = [trust EXCEPT ![ws] = c.yes] /\ file' = trust'
          /\ told' = [told EXCEPT ![ws] = IF c.yes THEN "yes" ELSE "no"]
          /\ Answer(c, "reply", ws, c.yes)
       \/ /\ file' \in {file, [trust EXCEPT ![ws] = c.yes]}
          /\ Refuse(c) /\ UNCHANGED <<trust, told>>
    /\ UNCHANGED <<ws, run, viewFrame>>

\* listWorkspace holds the root it began with; the directory may be gone.
List(c) ==
    /\ At(c, "list", "begin")
    /\ \/ Answer(c, "reply", c.saw, c.yes) /\ UNCHANGED faults
       \/ faults > 0 /\ faults' = faults - 1 /\ Refuse(c)
    /\ UNCHANGED <<mainVars, shown, explorerVars, skills, runView, budget, choices>>

(* withTrustedWorkspace: trust is awaited, and the selection is compared   *)
(* with what was seen, before the operation                                *)
PassGate(c) ==
    /\ At(c, "skills", "begin")
    /\ IF trust[c.saw] /\ ws = c.saw THEN Becomes(c, [c EXCEPT !.step = "running"])
                                     ELSE Refuse(c)
    /\ UNCHANGED <<mainVars, viewFrame>>

\* ... and after it.
LeaveGate(c) ==
    /\ At(c, "skills", "running")
    /\ IF ws = c.saw THEN Answer(c, "reply", c.saw, TRUE) ELSE Refuse(c)
    /\ UNCHANGED <<mainVars, viewFrame>>

\* startRun puts the run off to the next turn of the event loop; the answer leaves before.
StartRun(c) ==
    /\ \/ /\ At(c, "run", "begin")
          /\ IF held \/ run # "none" THEN Refuse(c) /\ UNCHANGED run
             ELSE run' = "queued" /\ Becomes(c, [c EXCEPT !.step = "answering"])
       \/ At(c, "run", "answering") /\ Answer(c, "reply", None, TRUE) /\ UNCHANGED run
    /\ UNCHANGED <<ws, trust, file, told, held, viewFrame>>

Send(msg) == wire' = Append(wire, [msg |-> msg, call |-> CallOf("run", FALSE)])
runFrame == <<ws, trust, file, told, held, calls>>

\* Mutant: the run starts with the call.
StartNow ==
    /\ run = "queued" /\ run' = "live" /\ Send("started")
    /\ UNCHANGED <<runFrame, viewFrame>>

RunStarts ==
    /\ run = "queued" /\ ~(\E c \in calls : At(c, "run", "answering"))
    /\ run' = "live" /\ Send("started")
    /\ UNCHANGED <<runFrame, viewFrame>>

RunChangesFiles ==
    /\ run = "live" /\ faults > 0 /\ faults' = faults - 1 /\ Send("files")
    /\ UNCHANGED <<runFrame, run, shown, explorerVars, skills, runView, budget, choices>>

\* The terminal event, whatever ended the run; a suspension cancels it.
RunEnds ==
    /\ run = "live" /\ run' = "none" /\ Send("ended")
    /\ UNCHANGED <<runFrame, viewFrame>>
-----------------------------------------------------------------------------
(* The renderer.  Each step takes the first message, or is the user's.     *)

\* loadWorkspaceDirectory, up to its await; "go on" is the rest of loadWorkspace.
Load(key, g, goOn, rest) ==
    /\ req' = [req EXCEPT ![key] = @ + 1]
    /\ dirs' = [dirs EXCEPT ![key].status = "loading"]
    /\ calls' = calls \cup rest \cup
         {[CallOf("list", goOn) EXCEPT !.key = key, !.gen = g, !.req = req'[key]]}

LoadWorkspace(rest) == gen' = gen + 1 /\ Load("root", gen', expanded, rest)

\* Mutant: the generation of an answer is not compared.
CurrentRequest(c) == c.req = req[c.key]

\* Is this the answer to the last request for its path, of the last generation?
Current(c) == c.gen = gen /\ c.req = req[c.key]

Handle(msg, op) == wire # <<>> /\ Head(wire).msg = msg /\ Head(wire).call.op = op /\ wire' = Tail(wire)
Call == Head(wire).call
viewOnly == <<mainVars, bounds>>

ListAnswered ==
    /\ Handle("reply", "list")
    /\ IF ~Current(Call) THEN UNCHANGED <<dirs, req, calls>>
       ELSE IF Call.key = "root" /\ Call.yes
       THEN /\ req' = [req EXCEPT !["dir"] = @ + 1]
            /\ dirs' = [k \in Keys |-> IF k = "root" THEN [status |-> "loaded", from |-> Call.saw]
                                       ELSE [dirs[k] EXCEPT !.status = "loading"]]
            /\ calls' = calls \cup {[CallOf("list", FALSE) EXCEPT !.key = "dir", !.gen = gen,
                                                                  !.req = req'["dir"]]}
       ELSE /\ dirs' = [dirs EXCEPT ![Call.key] = [status |-> "loaded", from |-> Call.saw]]
            /\ UNCHANGED <<req, calls>>
    /\ UNCHANGED <<viewOnly, shown, gen, expanded, skills, runView>>

ListFailed ==
    /\ Handle("error", "list")
    /\ dirs' = IF Current(Call) THEN [dirs EXCEPT ![Call.key].status = "error"] ELSE dirs
    /\ UNCHANGED <<viewOnly, calls, shown, gen, req, expanded, skills, runView>>

\* loadSkills, which asks only for a trusted workspace.
SkillCalls(trusted) == IF trusted THEN {New("skills", FALSE)} ELSE {}

(* The answer to bootstrap: at the start, or after a choice, where all     *)
(* that belonged to the old workspace is cleared first.                    *)
Bootstrapped ==
    /\ Handle("reply", "bootstrap")
    /\ shown' = [ws |-> Call.saw, trusted |-> Call.yes]
    /\ skills' = None
    /\ IF Call.gen = 0 THEN LoadWorkspace(SkillCalls(Call.yes)) /\ UNCHANGED expanded
       ELSE /\ gen' = gen + 2 /\ expanded' = FALSE
            /\ req' = [k \in Keys |-> IF k = "root" THEN 1 ELSE 0]
            /\ dirs' = [NoDirs EXCEPT !["root"].status = "loading"]
            /\ calls' = calls \cup SkillCalls(Call.yes) \cup
                 {[CallOf("list", FALSE) EXCEPT !.gen = gen', !.req = 1]}
    /\ UNCHANGED <<viewOnly, runView>>

Unsettled(ops) ==
    \/ \E c \in calls : c.op \in ops
    \/ \E i \in DOMAIN wire : wire[i].msg \in {"reply", "error"} /\ wire[i].call.op \in ops

\* chooseWorkspace goes on with bootstrap, unless the dialog was cancelled.
Chosen ==
    /\ Handle("reply", "choose")
    /\ IF Call.saw = None THEN UNCHANGED calls
       ELSE calls' = calls \cup {[New("bootstrap", FALSE) EXCEPT !.gen = 1]}
    /\ UNCHANGED <<viewOnly, shown, explorerVars, skills, runView>>

TrustAnswered ==
    /\ Handle("reply", "trust")
    /\ shown' = [shown EXCEPT !.trusted = Call.yes]
    /\ calls' = calls \cup SkillCalls(Call.yes)
    /\ skills' = IF Call.yes THEN skills ELSE None
    /\ UNCHANGED <<viewOnly, explorerVars, runView>>

SkillsAnswered ==
    /\ Handle("reply", "skills") \/ Handle("error", "skills")
    /\ skills' = IF Head(wire).msg = "reply" THEN Call.saw ELSE None
    /\ UNCHANGED <<viewOnly, calls, shown, explorerVars, runView>>

\* A refused choice or change of trust is a notice.
Noticed ==
    /\ Handle("error", "choose") \/ Handle("error", "trust")
    /\ UNCHANGED <<viewOnly, calls, shown, explorerVars, skills, runView>>

\* sendMessage goes on, and the events of the run.
RunAnswered ==
    /\ \/ Handle("reply", "run") /\ active' = TRUE /\ UNCHANGED starting
       \/ Handle("error", "run") /\ starting' = FALSE /\ UNCHANGED active
       \/ Handle("started", "run") /\ active' = TRUE /\ UNCHANGED starting
       \/ Handle("ended", "run") /\ active' = FALSE /\ starting' = FALSE
    /\ UNCHANGED <<viewOnly, calls, shown, explorerVars, skills>>

FilesChanged ==
    /\ Handle("files", "run") /\ LoadWorkspace({})
    /\ UNCHANGED <<viewOnly, shown, expanded, skills, runView>>
-----------------------------------------------------------------------------
(* The user.                                                               *)
Acts == shown.ws # None /\ budget > 0 /\ budget' = budget - 1
userFrame == <<mainVars, wire, shown, faults>>

Toggle ==
    /\ Acts /\ dirs["root"].from # None
    /\ expanded' = ~expanded
    /\ IF ~expanded /\ dirs["dir"].status = "unloaded" THEN Load("dir", gen, FALSE, {})
                                                       ELSE UNCHANGED <<req, dirs, calls>>
    /\ UNCHANGED <<userFrame, gen, skills, runView, choices>>

Refresh ==
    /\ Acts /\ LoadWorkspace(SkillCalls(shown.trusted))
    /\ skills' = IF shown.trusted THEN skills ELSE None
    /\ UNCHANGED <<userFrame, expanded, runView, choices>>

Retry(key) ==
    /\ Acts /\ dirs[key].status = "error" /\ Load(key, gen, FALSE, {})
    /\ UNCHANGED <<userFrame, gen, expanded, skills, runView, choices>>

Choose ==
    /\ Acts /\ choices > 0 /\ choices' = choices - 1
    /\ calls' = calls \cup {New("choose", FALSE)}
    /\ UNCHANGED <<userFrame, explorerVars, skills, runView>>

ChangeTrust(yes) ==
    /\ Acts /\ yes # shown.trusted /\ calls' = calls \cup {New("trust", yes)}
    /\ UNCHANGED <<userFrame, explorerVars, skills, runView, choices>>

SendMessage ==
    /\ Acts /\ ~starting /\ ~active /\ starting' = TRUE
    /\ calls' = calls \cup {New("run", FALSE)}
    /\ UNCHANGED <<userFrame, explorerVars, skills, active, choices>>

\* The program ends and starts again with what the files hold.
Restart ==
    /\ faults > 0 /\ faults' = faults - 1
    /\ trust' = file /\ held' = FALSE /\ run' = "none"
    /\ calls' = {CallOf("bootstrap", FALSE)} /\ wire' = <<>>
    /\ shown' = [ws |-> None, trusted |-> FALSE] /\ skills' = None
    /\ gen' = 0 /\ req' = [k \in Keys |-> 0] /\ dirs' = NoDirs /\ expanded' = FALSE
    /\ starting' = FALSE /\ active' = FALSE
    /\ UNCHANGED <<ws, file, told, budget, choices>>
-----------------------------------------------------------------------------
Handler(c) ==
    \/ Bootstrap(c) \/ Suspend(c) \/ ChooseWorkspace(c) \/ Recovered(c) \/ SetWorkspaceTrust(c)
    \/ List(c) \/ PassGate(c) \/ LeaveGate(c) \/ StartRun(c)

Deliver ==
    \/ ListAnswered \/ ListFailed \/ Bootstrapped \/ Chosen \/ TrustAnswered \/ SkillsAnswered
    \/ Noticed \/ RunAnswered \/ FilesChanged

User ==
    \/ Toggle \/ Refresh \/ (\E key \in Keys : Retry(key)) \/ Choose
    \/ (\E yes \in BOOLEAN : ChangeTrust(yes)) \/ SendMessage \/ Restart

Handlers == \E c \in calls : Handler(c)

Next == Handlers \/ RunStarts \/ RunChangesFiles \/ RunEnds \/ Deliver \/ User

(* Handlers go on, the dialog is answered, messages are handled, and a run *)
(* ends (RunCoordinator, GoalLifecycle).                                   *)
Spec == Init /\ [][Next]_vars
FairSpec == Spec /\ WF_vars(Handlers) /\ WF_vars(RunStarts) /\ WF_vars(RunEnds) /\ WF_vars(Deliver)
-----------------------------------------------------------------------------
(* Properties.                                                             *)

\* The window does not know yet which workspace is selected.
Switching == ws # shown.ws \/ Unsettled({"choose", "bootstrap"})

\* What is listed belongs to the workspace that is shown, once the answer to the last choice
\* has been handled: neither a late page nor a late list of skills crosses a change of workspace.
ViewStaysInWorkspace ==
    ~Switching => /\ \A k \in Keys : dirs[k].from \in {None, shown.ws}
                  /\ skills \in {None, shown.ws}

\* A workspace whose trust was withdrawn, and confirmed so, is trusted again only when the user
\* asks for it: not by a failure, a restart or another workspace's decision.
WithdrawnStaysWithdrawn == \A w \in Workspaces : trust[w] => told[w] # "no"

\* When the user stops, all calls are answered, no run is shown and the root is not loading.
SessionSettles ==
    <>[](calls = {} /\ wire = <<>> /\ ~active /\ ~starting /\ dirs["root"].status # "loading")
=============================================================================
