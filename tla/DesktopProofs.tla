--------------------------- MODULE DesktopProofs ---------------------------
(***************************************************************************)
(* The two ends of the desktop program.  About the window                  *)
(* (RendererSession), for any workspaces, actions, failures and order of   *)
(* answers: what it shows is of the selected workspace, and a decision     *)
(* that withdraws trust lasts.  About what the host starts                 *)
(* (HostProcesses), for any number of children, hooks and definitions: no  *)
(* child outlives the cancellation or the time limit of its operation, and *)
(* no hook starts that its user has not trusted.                           *)
(***************************************************************************)
EXTENDS RendererSession, HostProcesses, FiniteSetTheorems, WellFoundedInduction, TLAPS

-----------------------------------------------------------------------------
(* The window (RendererSession).  What is listed, or asked for and not yet *)
(* stale, belongs to the selected workspace, unless a change of workspace  *)
(* is on its way to the window; a list of skills of another workspace is   *)
(* always answered before such a change.                                   *)

CallSteps ==
  {"begin", "trusted", "untrusted", "waiting", "recovering", "running", "answering", "done"}
Calls == [op : Ops, id : Nat, step : CallSteps, saw : Workspaces \cup {None}, yes : BOOLEAN,
          key : Keys, gen : Nat, req : Nat]
Messages == [msg : Msgs, call : Calls]
Directory == [status : {"unloaded", "loading", "loaded", "error"}, from : Workspaces \cup {None}]

Decisions == /\ trust \in [Workspaces -> BOOLEAN] /\ file \in [Workspaces -> BOOLEAN]
             /\ told \in [Workspaces -> {"yes", "no", "asked"}]
MainTypes == /\ ws \in Workspaces /\ Decisions
             /\ calls \subseteq Calls /\ IsFiniteSet(calls) /\ wire \in Seq(Messages)
ViewTypes == /\ shown \in [ws : Workspaces \cup {None}, trusted : BOOLEAN] /\ expanded \in BOOLEAN
             /\ gen \in Nat /\ req \in [Keys -> Nat] /\ dirs \in [Keys -> Directory]
             /\ skills \in Workspaces \cup {None}

\* A change of workspace that the window will hear of.
Coming(c) == c.op = "bootstrap" \/ (c.op = "choose" /\ c.step = "recovering")
Came(m) == /\ m.msg = "reply"
           /\ m.call.op = "bootstrap" \/ (m.call.op = "choose" /\ m.call.saw # None)
Pending == (\E c \in calls : Coming(c)) \/ (\E i \in DOMAIN wire : Came(wire[i]))

\* A page that the window will take.
Live(c) == c.op = "list" /\ c.gen = gen

GenInv == /\ \A c \in calls : c.op = "list" => c.gen <= gen
          /\ \A i \in DOMAIN wire : wire[i].call.op = "list" => wire[i].call.gen <= gen

ViewInv == ~Pending =>
  /\ \A k \in Keys : dirs[k].from \in {None, ws}
  /\ skills \in {None, ws}
  /\ \A c \in calls : Live(c) => c.saw = ws
  /\ \A i \in DOMAIN wire : wire[i].msg = "reply" /\ Live(wire[i].call) => wire[i].call.saw = ws

SkillsInv == \A i \in DOMAIN wire :
  wire[i].msg = "reply" /\ wire[i].call.op = "skills" /\ wire[i].call.saw # ws =>
    (\E c \in calls : Coming(c)) \/ (\E j \in DOMAIN wire : j > i /\ Came(wire[j]))

\* Until the first bootstrap is answered nothing else goes on.
First0(c) == c.op = "bootstrap" /\ c.gen = 0
Booting == (\E c \in calls : First0(c)) \/ (\E i \in DOMAIN wire : First0(wire[i].call))
BootInv == Booting =>
  /\ (wire = <<>> /\ \E c : calls = {c} /\ First0(c))
    \/ (calls = {} /\ Len(wire) = 1 /\ First0(wire[1].call))
  /\ run = "none" /\ shown.ws = None /\ skills = None /\ \A k \in Keys : dirs[k].from = None

WindowInv == MainTypes /\ ViewTypes /\ GenInv /\ ViewInv /\ SkillsInv /\ BootInv

-----------------------------------------------------------------------------
\* The numbers that tell calls apart are numbers.
LEMMA FreshIsNumber ==
  ASSUME IsFiniteSet(calls), NEW op
  PROVE  Fresh(op) \in Nat
<1> DEFINE n == Cardinality(calls)
           f == [c \in calls |-> c.id]
           used == {c.id : c \in calls}
<1>1. n \in Nat
  BY FS_CardinalityType
<1>2. f \in Surjection(calls, used)
  BY DEF Surjection
<1>3. IsFiniteSet(used) /\ Cardinality(used) <= n
  BY <1>2, FS_Surjection DEF ExistsSurjection
<1>4. Cardinality(0 .. n) = n + 1 /\ Cardinality(used) \in Nat
  BY <1>1, <1>3, FS_Interval, FS_CardinalityType
<1>5. ~(0 .. n \subseteq used)
  <2> SUFFICES ASSUME 0 .. n \in SUBSET used PROVE FALSE
    OBVIOUS
  <2> HIDE DEF n, used
  <2>1. Cardinality(0 .. n) <= Cardinality(used)
    BY <1>3, FS_Subset
  <2>2. QED BY <2>1, <1>1, <1>3, <1>4
<1>6. PICK i \in 0 .. n : i \notin used
  BY <1>5
<1>7. \A c \in calls : c.op = op => c.id # i
  BY <1>6
<1>8. Fresh(op) \in 0 .. n
  BY <1>7 DEF Fresh
<1>9. QED BY <1>1, <1>8

LEMMA NewCall ==
  ASSUME MainTypes, NEW op \in Ops, NEW yes \in BOOLEAN
  PROVE  /\ CallOf(op, yes) \in Calls /\ CallOf(op, yes).op = op /\ CallOf(op, yes).gen = 0
         /\ CallOf(op, yes).saw = ws /\ CallOf(op, yes).step = "begin"
         /\ New(op, yes) \in Calls /\ New(op, yes).op = op /\ New(op, yes).gen = 0
         /\ New(op, yes).saw = ws /\ New(op, yes).step = "begin"
<1>1. CallOf(op, yes) \in Calls /\ CallOf(op, yes).op = op /\ CallOf(op, yes).gen = 0
      /\ CallOf(op, yes).saw = ws /\ CallOf(op, yes).step = "begin"
  BY DEF CallOf, Calls, CallSteps, Keys, MainTypes
<1>2. Fresh(op) \in Nat
  BY FreshIsNumber DEF MainTypes
<1>3. QED BY <1>1, <1>2 DEF New, Calls

\* What the three ways to change the calls and the wire do.
LEMMA AnswerMeans ==
  ASSUME MainTypes, NEW c \in calls, NEW msg \in Msgs, NEW w \in Workspaces \cup {None},
         NEW yes \in BOOLEAN,
         Answer(c, msg, w, yes)
  PROVE  \E m \in Messages :
           /\ wire' = Append(wire, m) /\ calls' = calls \ {c}
           /\ m.msg = msg /\ m.call.op = c.op /\ m.call.saw = w /\ m.call.gen = c.gen
           /\ m.call.key = c.key
<1> DEFINE d == [c EXCEPT !.step = "done", !.saw = w, !.yes = yes]
           m == [msg |-> msg, call |-> d]
<1>1. d \in Calls /\ d.op = c.op /\ d.saw = w /\ d.gen = c.gen /\ d.key = c.key
  BY DEF Calls, CallSteps, MainTypes
<1>2. m \in Messages
  BY <1>1 DEF Messages
<1>3. wire' = Append(wire, m) /\ calls' = calls \ {c}
  BY DEF Answer
<1>4. QED BY <1>1, <1>2, <1>3

LEMMA SendMeans ==
  ASSUME MainTypes, NEW msg \in Msgs, Send(msg)
  PROVE  \E m \in Messages : wire' = Append(wire, m) /\ m.msg = msg /\ m.call.op = "run"
<1>1. CallOf("run", FALSE) \in Calls /\ CallOf("run", FALSE).op = "run"
  BY NewCall DEF Ops
<1>2. [msg |-> msg, call |-> CallOf("run", FALSE)] \in Messages
  BY <1>1 DEF Messages
<1>3. QED BY <1>1, <1>2 DEF Send

LEMMA HandleMeans ==
  ASSUME MainTypes, NEW msg, NEW op, Handle(msg, op)
  PROVE  /\ wire' = Tail(wire) /\ Len(wire) > 0 /\ wire[1] \in Messages
         /\ wire[1].msg = msg /\ wire[1].call.op = op /\ Call = wire[1].call /\ Call \in Calls
<1>1. wire \in Seq(Messages) /\ wire # <<>>
  BY DEF MainTypes, Handle
<1>2. Head(wire) = wire[1] /\ Len(wire) > 0 /\ wire[1] \in Messages
  BY <1>1
<1>3. wire[1].call \in Calls
  BY <1>2 DEF Messages
<1>4. QED BY <1>2, <1>3 DEF Handle, Call

viewState == <<shown, expanded, gen, req, dirs, skills>>

\* While the first bootstrap is under way there is no other call and no message.
LEMMA OnlyBootstrap ==
  ASSUME BootInv, Booting
  PROVE  /\ \A c \in calls : First0(c) /\ calls = {c} /\ wire = <<>>
         /\ \A i \in DOMAIN wire : First0(wire[i].call) /\ calls = {} /\ Len(wire) = 1 /\ i = 1
BY DEF BootInv

\* A handler that goes on.
LEMMA Turned ==
  ASSUME WindowInv, NEW c \in calls, NEW d \in Calls, Becomes(c, d),
         d.op = c.op, d.gen = c.gen, d.saw = c.saw, Coming(c) => Coming(d),
         ws' = ws, Decisions', UNCHANGED viewState, run' = run \/ c.op # "bootstrap"
  PROVE  WindowInv'
<1> USE DEF WindowInv
<1>1. calls' = (calls \ {c}) \cup {d} /\ wire' = wire
  BY DEF Becomes
<1>2. IsFiniteSet(calls')
  BY <1>1, FS_RemoveElement, FS_AddElement DEF MainTypes
<1>3. MainTypes' /\ ViewTypes'
  BY <1>1, <1>2 DEF MainTypes, ViewTypes, viewState
<1>4. GenInv'
  BY <1>1 DEF GenInv, viewState
<1>5. (\E k \in calls : Coming(k)) => (\E k \in calls' : Coming(k))
  BY <1>1
<1>6. Pending => Pending'
  BY <1>1, <1>5 DEF Pending
<1>7. ViewInv'
  BY <1>1, <1>6 DEF ViewInv, viewState, Live
<1>8. SkillsInv'
  BY <1>1, <1>5 DEF SkillsInv
<1>9. BootInv'
  <2> SUFFICES ASSUME Booting' PROVE BootInv'
    BY DEF BootInv
  <2>1. Booting
    BY <1>1 DEF Booting, First0
  <2>2. calls = {c} /\ First0(c) /\ wire = <<>>
    BY <2>1, OnlyBootstrap
  <2>3. calls' = {d} /\ First0(d) /\ run' = run
    BY <1>1, <2>2 DEF First0
  <2>4. QED BY <1>1, <2>1, <2>2, <2>3 DEF BootInv, viewState
<1>10. QED BY <1>3, <1>4, <1>7, <1>8, <1>9

\* A handler that ends with an answer.
LEMMA Posted ==
  ASSUME WindowInv, NEW c \in calls, NEW m \in Messages, wire' = Append(wire, m),
         calls' = calls \ {c},
         m.call.op = c.op, m.call.gen = c.gen, Coming(c) => Came(m),
         m.msg = "reply" /\ c.op = "list" => m.call.saw = c.saw,
         m.msg = "reply" /\ c.op = "skills" => m.call.saw = ws,
         ws' = ws, Decisions', UNCHANGED viewState, run' = run \/ c.op # "bootstrap"
  PROVE  WindowInv'
<1> USE DEF WindowInv
<1>1. /\ wire \in Seq(Messages) /\ Len(wire) \in Nat /\ Len(wire') = Len(wire) + 1
      /\ wire'[Len(wire) + 1] = m /\ \A i \in DOMAIN wire : i \in DOMAIN wire' /\ wire'[i] = wire[i]
      /\ \A i \in DOMAIN wire' : i \in DOMAIN wire \/ i = Len(wire) + 1
  BY DEF MainTypes
<1>2. MainTypes' /\ ViewTypes'
  BY FS_RemoveElement DEF MainTypes, ViewTypes, viewState
<1>3. GenInv'
  BY <1>1 DEF GenInv, viewState
<1>4. (\E k \in calls : Coming(k)) => (\E k \in calls' : Coming(k)) \/ Came(m)
  OBVIOUS
<1>5. Len(wire) + 1 \in DOMAIN wire' /\ \A i \in DOMAIN wire : i < Len(wire) + 1
  BY <1>1
<1>6. Pending => Pending'
  BY <1>1, <1>4, <1>5 DEF Pending
<1>7. ViewInv'
  BY <1>1, <1>6 DEF ViewInv, viewState, Live
<1>8. SkillsInv'
  BY <1>1, <1>4, <1>5 DEF SkillsInv
<1>9. BootInv'
  <2> SUFFICES ASSUME Booting' PROVE BootInv'
    BY DEF BootInv
  <2>1. Booting
    BY <1>1 DEF Booting, First0
  <2>2. calls = {c} /\ First0(c) /\ wire = <<>>
    BY <2>1, OnlyBootstrap
  <2>3. calls' = {} /\ Len(wire') = 1 /\ First0(wire'[1].call) /\ run' = run
    BY <1>1, <2>2 DEF First0
  <2>4. QED BY <2>1, <2>3 DEF BootInv, viewState
<1>10. QED BY <1>2, <1>3, <1>7, <1>8, <1>9

\* An event of the run.
LEMMA Sent ==
  ASSUME WindowInv, NEW m \in Messages, wire' = Append(wire, m), calls' = calls,
         m.call.op = "run", run # "none", ws' = ws, Decisions', UNCHANGED viewState
  PROVE  WindowInv'
<1> USE DEF WindowInv
<1>1. /\ wire \in Seq(Messages) /\ Len(wire) \in Nat /\ Len(wire') = Len(wire) + 1
      /\ wire'[Len(wire) + 1] = m /\ \A i \in DOMAIN wire : i \in DOMAIN wire' /\ wire'[i] = wire[i]
      /\ \A i \in DOMAIN wire' : i \in DOMAIN wire \/ i = Len(wire) + 1
  BY DEF MainTypes
<1>2. MainTypes' /\ ViewTypes'
  BY DEF MainTypes, ViewTypes, viewState
<1>3. GenInv'
  BY <1>1 DEF GenInv, viewState
<1>4. Pending => Pending'
  BY <1>1 DEF Pending
<1>5. ViewInv'
  BY <1>1, <1>4 DEF ViewInv, viewState, Live
<1>6. SkillsInv'
  BY <1>1 DEF SkillsInv
<1>7. BootInv'
  BY <1>1 DEF BootInv, Booting, First0
<1>8. QED BY <1>2, <1>3, <1>5, <1>6, <1>7

\* A step of the window: it takes the first message or does what the user wants.
LEMMA WindowMoves ==
  ASSUME WindowInv, NEW added, calls' = calls \cup added, added \subseteq Calls, IsFiniteSet(added),
         ViewTypes', gen' >= gen, shown' = shown \/ ~Booting,
         \/ wire' = Tail(wire) /\ Len(wire) > 0 /\ ~Came(wire[1]) /\ wire[1].call.op # "bootstrap"
         \/ wire' = wire /\ shown.ws # None,
         \A d \in added : /\ d.op = "list" => d.gen <= gen' /\ d.saw = ws
                          /\ ~First0(d) /\ d.step = "begin" /\ (d.op = "bootstrap" => d.gen = 1),
         \A k \in Keys : dirs'[k].from \in {None, dirs[k].from}
                         \/ (/\ Len(wire) > 0 /\ wire[1].msg = "reply" /\ Live(wire[1].call)
                             /\ dirs'[k].from = wire[1].call.saw),
         \/ skills' \in {None, skills}
         \/ /\ Len(wire) > 0 /\ wire[1].msg = "reply" /\ wire[1].call.op = "skills"
            /\ skills' = wire[1].call.saw,
         UNCHANGED <<ws, run>>, Decisions'
  PROVE  WindowInv'
<1> USE DEF WindowInv
<1>1. wire \in Seq(Messages) /\ wire' \in Seq(Messages)
  <2>1. wire \in Seq(Messages)
    BY DEF MainTypes
  <2>2. CASE wire' = Tail(wire) /\ Len(wire) > 0
    BY <2>1, <2>2
  <2>3. QED BY <2>1, <2>2
<1>2. /\ \A i \in DOMAIN wire' : \E k \in DOMAIN wire :
           /\ wire'[i] = wire[k]
           /\ \A j \in DOMAIN wire : j > k => \E l \in DOMAIN wire' : l > i /\ wire'[l] = wire[j]
      /\ \A j \in DOMAIN wire : Came(wire[j]) => \E l \in DOMAIN wire' : wire'[l] = wire[j]
  <2>1. CASE wire' = wire
    BY <2>1
  <2>2. CASE wire' = Tail(wire) /\ Len(wire) > 0 /\ ~Came(wire[1])
    <3>1. /\ \A i \in DOMAIN wire' : i + 1 \in DOMAIN wire /\ wire'[i] = wire[i + 1]
          /\ \A j \in DOMAIN wire : j > 1 => j - 1 \in DOMAIN wire' /\ wire'[j - 1] = wire[j]
      BY <1>1, <2>2
    <3>2. ASSUME NEW i \in DOMAIN wire', NEW j \in DOMAIN wire, j > i + 1
          PROVE  \E l \in DOMAIN wire' : l > i /\ wire'[l] = wire[j]
      <4>1. j > 1 /\ j - 1 > i
        BY <1>1, <3>2
      <4>2. QED BY <3>1, <4>1
    <3>3. ASSUME NEW j \in DOMAIN wire, Came(wire[j])
          PROVE  \E l \in DOMAIN wire' : wire'[l] = wire[j]
      <4>1. j > 1
        BY <1>1, <2>2, <3>3
      <4>2. QED BY <3>1, <4>1
    <3>4. QED BY <3>1, <3>2, <3>3
  <2>3. QED BY <2>1, <2>2
<1>3. /\ Len(wire) > 0 => 1 \in DOMAIN wire
      /\ \A k \in DOMAIN wire : wire[k] \in Messages /\ wire[k].call.gen \in Nat
  <2>1. \A m \in Messages : m.call.gen \in Nat
    BY DEF Messages, Calls
  <2>2. QED BY <1>1, <2>1
<1>4. MainTypes'
  BY <1>1, FS_Union DEF MainTypes
<1>5. GenInv'
  <2>1. \A c \in calls' : c.op = "list" => c.gen <= gen'
    BY DEF GenInv, ViewTypes, MainTypes, Calls
  <2>2. ASSUME NEW i \in DOMAIN wire', wire'[i].call.op = "list" PROVE wire'[i].call.gen <= gen'
    <3>1. PICK k \in DOMAIN wire : wire'[i] = wire[k]
      BY <1>2
    <3>2. wire[k].call.gen \in Nat /\ wire[k].call.gen <= gen
      BY <1>3, <2>2, <3>1 DEF GenInv
    <3>3. QED BY <3>1, <3>2 DEF ViewTypes
  <2>3. QED BY <2>1, <2>2 DEF GenInv
<1>6. Pending => Pending'
  BY <1>2 DEF Pending
<1>7. ~Booting /\ ~Booting'
  <2>1. ~Booting
    BY OnlyBootstrap, <1>1 DEF BootInv, First0
  <2>2. QED BY <1>2, <2>1 DEF Booting
<1>8. SkillsInv'
  <2> SUFFICES ASSUME NEW i \in DOMAIN wire', wire'[i].msg = "reply", wire'[i].call.op = "skills",
                      wire'[i].call.saw # ws, ~\E c \in calls' : Coming(c)
               PROVE  \E j \in DOMAIN wire' : j > i /\ Came(wire'[j])
    BY DEF SkillsInv
  <2>1. PICK k \in DOMAIN wire :
          /\ wire'[i] = wire[k]
          /\ \A j \in DOMAIN wire : j > k => \E l \in DOMAIN wire' : l > i /\ wire'[l] = wire[j]
    BY <1>2
  <2>2. PICK j \in DOMAIN wire : j > k /\ Came(wire[j])
    BY <2>1 DEF SkillsInv
  <2>3. QED BY <2>1, <2>2
<1>9. ASSUME ~Pending PROVE skills' \in {None, ws}
  BY <1>3, <1>9 DEF ViewInv, SkillsInv, Pending
<1>10. ASSUME ~Pending PROVE \A k \in Keys : dirs'[k].from \in {None, ws}
  BY <1>3, <1>10 DEF ViewInv
<1>11. ASSUME ~Pending
       PROVE  /\ \A c \in calls' : c.op = "list" /\ c.gen = gen' => c.saw = ws
              /\ \A i \in DOMAIN wire' : wire'[i].msg = "reply" /\ wire'[i].call.op = "list"
                                          /\ wire'[i].call.gen = gen' => wire'[i].call.saw = ws
  <2>1. ASSUME NEW c \in calls, c.op = "list", c.gen = gen' PROVE c.saw = ws
    <3>1. c.gen <= gen /\ c.gen \in Nat
      BY <2>1 DEF GenInv, MainTypes, Calls
    <3>2. QED BY <1>11, <2>1, <3>1 DEF ViewInv, ViewTypes, Live
  <2>2. ASSUME NEW k \in DOMAIN wire, wire[k].msg = "reply", wire[k].call.op = "list",
               wire[k].call.gen = gen'
        PROVE  wire[k].call.saw = ws
    <3>1. wire[k].call.gen <= gen /\ wire[k].call.gen \in Nat
      BY <1>3, <2>2 DEF GenInv
    <3>2. QED BY <1>11, <2>2, <3>1 DEF ViewInv, ViewTypes, Live
  <2>3. QED BY <1>2, <2>1, <2>2
<1>12. ViewInv'
  BY <1>6, <1>9, <1>10, <1>11 DEF ViewInv, Live
<1>13. BootInv'
  BY <1>7 DEF BootInv
<1>14. QED BY <1>4, <1>5, <1>8, <1>12, <1>13

-----------------------------------------------------------------------------
(* The handlers of the main process *)

LEMMA CallFields ==
  ASSUME MainTypes, NEW c \in calls, NEW to \in CallSteps
  PROVE  /\ c \in Calls /\ [c EXCEPT !.step = to] \in Calls /\ [c EXCEPT !.step = to].op = c.op
         /\ [c EXCEPT !.step = to].gen = c.gen /\ [c EXCEPT !.step = to].saw = c.saw
         /\ [c EXCEPT !.step = to].step = to /\ [c EXCEPT !.step = to].yes = c.yes
BY DEF MainTypes, Calls

\* A reply is well formed.
LEMMA Replied ==
  ASSUME WindowInv, NEW c \in calls, NEW w \in Workspaces \cup {None}, NEW yes \in BOOLEAN,
         Answer(c, "reply", w, yes)
  PROVE  \E m \in Messages :
           /\ wire' = Append(wire, m) /\ calls' = calls \ {c}
           /\ m.msg = "reply" /\ m.call.op = c.op /\ m.call.saw = w /\ m.call.gen = c.gen
<1>1. MainTypes /\ "reply" \in Msgs
  BY DEF WindowInv, Msgs
<1>2. QED BY <1>1, AnswerMeans

LEMMA BootstrapKeeps == ASSUME WindowInv, NEW c \in calls, Bootstrap(c) PROVE WindowInv'
<1> USE DEF WindowInv
<1>1. UNCHANGED <<ws, run, viewState>> /\ Decisions' /\ c.op = "bootstrap"
  BY DEF Bootstrap, mainVars, viewFrame, explorerVars, viewState, MainTypes, Decisions, At
<1>2. CASE Becomes(c, [c EXCEPT !.step = IF trust[ws] THEN "trusted" ELSE "untrusted"])
  <2>1. (IF trust[ws] THEN "trusted" ELSE "untrusted") \in CallSteps
    BY DEF CallSteps
  <2> DEFINE d == [c EXCEPT !.step = IF trust[ws] THEN "trusted" ELSE "untrusted"]
  <2>2. d \in Calls /\ d.op = c.op /\ d.gen = c.gen /\ d.saw = c.saw
    BY <2>1, CallFields
  <2>3. Becomes(c, d)
    BY <1>2
  <2> HIDE DEF d
  <2>4. QED BY <1>1, <2>2, <2>3, Turned DEF Coming
<1>3. CASE Answer(c, "reply", c.saw, c.step = "trusted")
  <2>1. c.saw \in Workspaces \cup {None} /\ (c.step = "trusted") \in BOOLEAN
    BY DEF MainTypes, Calls
  <2>2. PICK m \in Messages :
           /\ wire' = Append(wire, m) /\ calls' = calls \ {c}
           /\ m.msg = "reply" /\ m.call.op = c.op /\ m.call.gen = c.gen
    BY <1>3, <2>1, Replied
  <2>3. QED BY <1>1, <2>2, Posted DEF Came
<1>4. QED BY <1>2, <1>3 DEF Bootstrap

\* A call refused: the window gets an error.
LEMMA Refused ==
  ASSUME WindowInv, NEW c \in calls, Refuse(c), ~Coming(c), ws' = ws, Decisions',
         UNCHANGED viewState
  PROVE  WindowInv'
<1>1. c.yes \in BOOLEAN /\ MainTypes
  BY DEF WindowInv, MainTypes, Calls
<1>2. PICK m \in Messages :
         /\ wire' = Append(wire, m) /\ calls' = calls \ {c}
         /\ m.msg = "error" /\ m.call.op = c.op /\ m.call.gen = c.gen
  BY <1>1, AnswerMeans DEF Refuse, Msgs
<1>3. QED BY <1>2, Posted DEF Came, Coming

LEMMA SuspendKeeps == ASSUME WindowInv, NEW c \in calls, Suspend(c) PROVE WindowInv'
<1> USE DEF WindowInv
<1>1. UNCHANGED <<ws, run, trust, file, viewState>> /\ c.op \in {"choose", "trust"}
        /\ c.step = "begin"
  BY DEF Suspend, viewFrame, explorerVars, viewState
<1>2. told' \in {told, [told EXCEPT ![ws] = "asked"]}
  BY DEF Suspend
<1>3. Decisions'
  BY <1>1, <1>2 DEF MainTypes, Decisions
<1>4. CASE Refuse(c)
  BY <1>1, <1>3, <1>4, Refused DEF Coming
<1>5. CASE Becomes(c, [c EXCEPT !.step = "waiting"])
  <2> DEFINE d == [c EXCEPT !.step = "waiting"]
  <2>1. d \in Calls /\ d.op = c.op /\ d.gen = c.gen /\ d.saw = c.saw
    BY CallFields DEF CallSteps
  <2>2. Becomes(c, d)
    BY <1>5
  <2> HIDE DEF d
  <2>3. QED BY <1>1, <1>3, <2>1, <2>2, Turned DEF Coming
<1>6. QED BY <1>4, <1>5 DEF Suspend

LEMMA ChooseWorkspaceKeeps == ASSUME WindowInv, NEW c \in calls, ChooseWorkspace(c) PROVE WindowInv'
<1> USE DEF WindowInv
<1>1. UNCHANGED <<run, trust, file, told, viewState>> /\ c.op = "choose" /\ c.step = "waiting"
        /\ Decisions'
  BY DEF ChooseWorkspace, viewFrame, explorerVars, viewState, At, MainTypes, Decisions
<1>2. CASE Answer(c, "reply", None, FALSE) /\ ws' = ws
  <2>1. PICK m \in Messages :
          /\ wire' = Append(wire, m) /\ calls' = calls \ {c}
          /\ m.msg = "reply" /\ m.call.op = c.op /\ m.call.gen = c.gen
    BY <1>2, Replied
  <2>2. QED BY <1>1, <1>2, <2>1, Posted DEF Coming
<1>3. CASE Refuse(c) /\ ws' = ws
  BY <1>1, <1>3, Refused DEF Coming
<1>4. CASE ws' \in Workspaces /\ Becomes(c, [c EXCEPT !.step = "recovering"])
  <2> DEFINE d == [c EXCEPT !.step = "recovering"]
  <2>1. d \in Calls /\ d.op = "choose" /\ d.gen = c.gen /\ d.step = "recovering"
    BY <1>1, CallFields DEF CallSteps
  <2>2. calls' = (calls \ {c}) \cup {d} /\ wire' = wire
    BY <1>4 DEF Becomes
  <2> HIDE DEF d
  <2>3. IsFiniteSet(calls')
    BY <2>2, FS_RemoveElement, FS_AddElement DEF MainTypes
  <2>4. MainTypes' /\ ViewTypes'
    BY <1>1, <1>4, <2>1, <2>2, <2>3 DEF MainTypes, ViewTypes, viewState
  <2>5. GenInv'
    BY <1>1, <2>1, <2>2 DEF GenInv, viewState
  <2>6. \E k \in calls' : Coming(k)
    BY <2>1, <2>2 DEF Coming
  <2>7. ViewInv' /\ SkillsInv'
    BY <2>6 DEF ViewInv, SkillsInv, Pending
  <2>8. ~Booting'
    <3>1. ~Booting
      BY <1>1, OnlyBootstrap DEF First0
    <3>2. QED BY <2>1, <2>2, <3>1 DEF Booting, First0
  <2>9. QED BY <2>4, <2>5, <2>7, <2>8 DEF BootInv
<1>5. QED BY <1>2, <1>3, <1>4 DEF ChooseWorkspace

LEMMA RecoveredKeeps == ASSUME SessionAssumption, WindowInv, NEW c \in calls,
                               Recovered(c) PROVE WindowInv'
<1> USE DEF WindowInv
<1>1. UNCHANGED <<ws, run, trust, file, told, viewState>> /\ c.op = "choose" /\ Decisions'
        /\ ws \in Workspaces
  BY DEF Recovered, viewFrame, explorerVars, viewState, At, MainTypes, Decisions
<1>2. PICK m \in Messages :
        /\ wire' = Append(wire, m) /\ calls' = calls \ {c}
        /\ m.msg = "reply" /\ m.call.op = c.op /\ m.call.gen = c.gen /\ m.call.saw = ws
  <2>1. ws \in Workspaces \cup {None} /\ FALSE \in BOOLEAN /\ Answer(c, "reply", ws, FALSE)
    BY <1>1 DEF Recovered
  <2>2. QED BY <2>1, Replied
<1>3. Came(m)
  BY <1>1, <1>2, SessionAssumption DEF Came
<1>4. QED BY <1>1, <1>2, <1>3, Posted

LEMMA SetWorkspaceTrustKeeps == ASSUME WindowInv, NEW c \in calls,
                                       SetWorkspaceTrust(c) PROVE WindowInv'
<1> USE DEF WindowInv
<1>1. UNCHANGED <<ws, run, viewState>> /\ c.op = "trust" /\ c.yes \in BOOLEAN /\ ws \in Workspaces
  BY DEF SetWorkspaceTrust, viewFrame, explorerVars, viewState, At, MainTypes, Calls
<1>2. Decisions'
  BY <1>1 DEF SetWorkspaceTrust, MainTypes, Decisions
<1>3. CASE Answer(c, "reply", ws, c.yes)
  <2>1. PICK m \in Messages :
          /\ wire' = Append(wire, m) /\ calls' = calls \ {c}
          /\ m.msg = "reply" /\ m.call.op = c.op /\ m.call.gen = c.gen
    BY <1>1, <1>3, Replied
  <2>2. QED BY <1>1, <1>2, <2>1, Posted DEF Coming
<1>4. CASE Refuse(c)
  BY <1>1, <1>2, <1>4, Refused DEF Coming
<1>5. QED BY <1>3, <1>4 DEF SetWorkspaceTrust

LEMMA ListKeeps == ASSUME WindowInv, NEW c \in calls, List(c) PROVE WindowInv'
<1> USE DEF WindowInv
<1>1. UNCHANGED <<ws, run, viewState>> /\ c.op = "list" /\ c.yes \in BOOLEAN
        /\ c.saw \in Workspaces \cup {None}
      /\ Decisions'
  BY DEF List, mainVars, explorerVars, viewState, At, MainTypes, Calls, Decisions
<1>2. CASE Answer(c, "reply", c.saw, c.yes)
  <2>1. PICK m \in Messages :
          /\ wire' = Append(wire, m) /\ calls' = calls \ {c}
          /\ m.msg = "reply" /\ m.call.op = c.op /\ m.call.gen = c.gen /\ m.call.saw = c.saw
    BY <1>1, <1>2, Replied
  <2>2. QED BY <1>1, <2>1, Posted DEF Coming
<1>3. CASE Refuse(c)
  BY <1>1, <1>3, Refused DEF Coming
<1>4. QED BY <1>2, <1>3 DEF List

LEMMA GateKeeps == ASSUME WindowInv, NEW c \in calls, PassGate(c) \/ LeaveGate(c) PROVE WindowInv'
<1> USE DEF WindowInv
<1>1. UNCHANGED <<ws, run, viewState>> /\ c.op = "skills" /\ Decisions' /\ ws \in Workspaces
  BY DEF PassGate, LeaveGate, mainVars, viewFrame, explorerVars, viewState, At, MainTypes,
     Decisions
<1>2. CASE Becomes(c, [c EXCEPT !.step = "running"])
  <2> DEFINE d == [c EXCEPT !.step = "running"]
  <2>1. d \in Calls /\ d.op = c.op /\ d.gen = c.gen /\ d.saw = c.saw
    BY CallFields DEF CallSteps
  <2>2. Becomes(c, d)
    BY <1>2
  <2> HIDE DEF d
  <2>3. QED BY <1>1, <2>1, <2>2, Turned DEF Coming
<1>3. CASE Refuse(c)
  BY <1>1, <1>3, Refused DEF Coming
<1>4. CASE ws = c.saw /\ Answer(c, "reply", c.saw, TRUE)
  <2>1. PICK m \in Messages :
          /\ wire' = Append(wire, m) /\ calls' = calls \ {c}
          /\ m.msg = "reply" /\ m.call.op = c.op /\ m.call.gen = c.gen /\ m.call.saw = ws
    <3>1. ws \in Workspaces \cup {None} /\ TRUE \in BOOLEAN /\ Answer(c, "reply", ws, TRUE)
      BY <1>1, <1>4
    <3>2. QED BY <1>4, <3>1, Replied
  <2>2. QED BY <1>1, <2>1, Posted DEF Coming
<1>5. QED BY <1>2, <1>3, <1>4 DEF PassGate, LeaveGate

LEMMA StartRunKeeps == ASSUME WindowInv, NEW c \in calls, StartRun(c) PROVE WindowInv'
<1> USE DEF WindowInv
<1>1. UNCHANGED <<ws, viewState>> /\ c.op = "run" /\ Decisions'
  BY DEF StartRun, viewFrame, explorerVars, viewState, At, MainTypes, Decisions
<1>2. CASE Refuse(c)
  BY <1>1, <1>2, Refused DEF Coming
<1>3. CASE Becomes(c, [c EXCEPT !.step = "answering"])
  <2> DEFINE d == [c EXCEPT !.step = "answering"]
  <2>1. d \in Calls /\ d.op = c.op /\ d.gen = c.gen /\ d.saw = c.saw
    BY CallFields DEF CallSteps
  <2>2. Becomes(c, d)
    BY <1>3
  <2> HIDE DEF d
  <2>3. QED BY <1>1, <2>1, <2>2, Turned DEF Coming
<1>4. CASE Answer(c, "reply", None, TRUE)
  <2>1. PICK m \in Messages :
          /\ wire' = Append(wire, m) /\ calls' = calls \ {c}
          /\ m.msg = "reply" /\ m.call.op = c.op /\ m.call.gen = c.gen
    BY <1>4, Replied
  <2>2. QED BY <1>1, <2>1, Posted DEF Coming
<1>5. QED BY <1>2, <1>3, <1>4 DEF StartRun

LEMMA RunEventsKeep == ASSUME WindowInv, RunStarts \/ RunChangesFiles \/ RunEnds PROVE WindowInv'
<1> USE DEF WindowInv
<1>1. UNCHANGED <<ws, calls, viewState>> /\ Decisions' /\ run # "none"
  BY DEF RunStarts, RunChangesFiles, RunEnds, runFrame, viewFrame, explorerVars, viewState,
     MainTypes, Decisions
<1>2. PICK msg \in Msgs : Send(msg)
  BY DEF RunStarts, RunChangesFiles, RunEnds, Msgs
<1>3. PICK m \in Messages : wire' = Append(wire, m) /\ m.msg = msg /\ m.call.op = "run"
  BY <1>2, SendMeans
<1>4. QED BY <1>1, <1>3, Sent

-----------------------------------------------------------------------------
(* The steps of the window *)

\* Asking for a directory.
Asks(rest, g, d) ==
  /\ calls' = calls \cup (rest \cup {d}) /\ IsFiniteSet(rest \cup {d})
  /\ d.op = "list" /\ d.gen = g /\ d.saw = ws /\ d.step = "begin"

LEMMA LoadMeans ==
  ASSUME WindowInv, NEW key \in Keys, NEW g \in Nat, NEW goOn \in BOOLEAN, NEW rest,
         rest \subseteq Calls, IsFiniteSet(rest), Load(key, g, goOn, rest)
  PROVE  /\ req' \in [Keys -> Nat] /\ dirs' \in [Keys -> Directory]
         /\ \A k \in Keys : dirs'[k].from = dirs[k].from
         /\ \E d \in Calls : Asks(rest, g, d)
<1> USE DEF WindowInv
<1>1. req' \in [Keys -> Nat]
  BY DEF Load, ViewTypes
<1>2. dirs' \in [Keys -> Directory] /\ \A k \in Keys : dirs'[k].from = dirs[k].from
  BY DEF Load, ViewTypes, Directory
<1> DEFINE d0 == CallOf("list", goOn)
           d == [CallOf("list", goOn) EXCEPT !.key = key, !.gen = g, !.req = req'[key]]
<1>3. d0 \in Calls /\ d0.op = "list" /\ d0.saw = ws /\ d0.step = "begin"
  BY NewCall DEF Ops
<1>4. d \in Calls /\ d.op = "list" /\ d.gen = g /\ d.saw = ws /\ d.step = "begin"
  <2> HIDE DEF d0
  <2>1. req'[key] \in Nat
    BY <1>1
  <2>2. d = [d0 EXCEPT !.key = key, !.gen = g, !.req = req'[key]]
    BY DEF d0
  <2>3. QED BY <1>3, <2>1, <2>2 DEF Calls
<1>5. calls' = calls \cup rest \cup {d}
  BY DEF Load
<1> HIDE DEF d
<1>6. IsFiniteSet(rest \cup {d}) /\ calls' = calls \cup (rest \cup {d})
  BY <1>5, FS_AddElement
<1>7. QED BY <1>1, <1>2, <1>4, <1>6 DEF Asks

LEMMA SkillCallsMean ==
  ASSUME WindowInv, NEW yes
  PROVE  /\ SkillCalls(yes) \subseteq Calls /\ IsFiniteSet(SkillCalls(yes))
         /\ \A d \in SkillCalls(yes) : d.op = "skills" /\ d.step = "begin"
<1> DEFINE d == New("skills", FALSE)
<1>1. d \in Calls /\ d.op = "skills" /\ d.step = "begin"
  BY NewCall DEF Ops, WindowInv
<1>2. SkillCalls(yes) \in {{d}, {}}
  BY DEF SkillCalls
<1> HIDE DEF d
<1>3. IsFiniteSet({d}) /\ IsFiniteSet({})
  BY FS_Singleton, FS_EmptySet
<1>4. QED BY <1>1, <1>2, <1>3

LEMMA ListAnsweredKeeps == ASSUME WindowInv, ListAnswered PROVE WindowInv'
<1> USE DEF WindowInv
<1> DEFINE m == wire[1]
<1>1. /\ wire' = Tail(wire) /\ Len(wire) > 0 /\ m \in Messages /\ m.msg = "reply"
      /\ m.call.op = "list"
      /\ Call = m.call /\ m.call \in Calls
  BY HandleMeans DEF ListAnswered
<1>2. UNCHANGED <<ws, run, trust, file, told, shown, gen, expanded, skills>> /\ Decisions'
  BY DEF ListAnswered, viewOnly, mainVars, MainTypes, Decisions
<1>3. ~Came(m) /\ m.call.key \in Keys /\ m.call.saw \in Workspaces \cup {None}
        /\ m.call.op # "bootstrap"
  BY <1>1 DEF Came, Calls
<1> HIDE DEF m
<1>4. CASE UNCHANGED <<dirs, req, calls>>
  <2>1. ViewTypes' /\ gen' >= gen /\ calls' = calls \cup {} /\ IsFiniteSet({})
    BY <1>2, <1>4, FS_EmptySet DEF ViewTypes
  <2>2. \A k \in Keys : dirs'[k].from \in {None, dirs[k].from}
    BY <1>4
  <2>3. QED BY <1>1, <1>2, <1>3, <2>1, <2>2, WindowMoves DEF m
<1>5. CASE /\ Current(Call) /\ req' = [req EXCEPT !["dir"] = @ + 1]
           /\ dirs' = [k \in Keys |-> IF k = "root" THEN [status |-> "loaded", from |-> Call.saw]
                                      ELSE [dirs[k] EXCEPT !.status = "loading"]]
           /\ calls' = calls \cup {[CallOf("list", FALSE) EXCEPT !.key = "dir", !.gen = gen,
                                                                 !.req = req'["dir"]]}
  <2> DEFINE d0 == CallOf("list", FALSE)
             d == [CallOf("list", FALSE) EXCEPT !.key = "dir", !.gen = gen, !.req = req'["dir"]]
  <2>1. d0 \in Calls /\ d0.op = "list" /\ d0.saw = ws /\ d0.step = "begin"
    BY NewCall DEF Ops
  <2>2. req' \in [Keys -> Nat] /\ "dir" \in Keys /\ gen \in Nat
    BY <1>5 DEF ViewTypes, Keys
  <2>3. d \in Calls /\ d.op = "list" /\ d.saw = ws /\ d.step = "begin" /\ d.gen = gen
    <3>1. req'["dir"] \in Nat /\ d = [d0 EXCEPT !.key = "dir", !.gen = gen, !.req = req'["dir"]]
      BY <2>2
    <3> HIDE DEF d0, d
    <3>2. QED BY <2>1, <2>2, <3>1 DEF Calls
  <2>4. calls' = calls \cup {d}
    BY <1>5
  <2> HIDE DEF d, d0
  <2>5. IsFiniteSet({d}) /\ {d} \subseteq Calls
    BY <2>3, FS_Singleton
  <2>6. dirs' \in [Keys -> Directory] /\ ViewTypes' /\ gen' >= gen
    <3>1. "loading" \in {"unloaded", "loading", "loaded", "error"}
          /\ "loaded" \in {"unloaded", "loading", "loaded", "error"}
      OBVIOUS
    <3>2. \A k \in Keys : /\ [dirs[k] EXCEPT !.status = "loading"] \in Directory
                          /\ [status |-> "loaded", from |-> Call.saw] \in Directory
      BY <1>1, <1>3, <3>1 DEF ViewTypes, Directory
    <3>3. dirs' \in [Keys -> Directory]
      BY <1>5, <3>2
    <3>4. QED BY <1>2, <2>2, <3>3 DEF ViewTypes
  <2>7. \A k \in Keys : dirs'[k].from \in {dirs[k].from, m.call.saw} /\ Live(m.call)
    BY <1>1, <1>5 DEF ViewTypes, Directory, Live, Current
  <2>8. /\ \A k \in Keys : dirs'[k].from \in {None, dirs[k].from}
                            \/ (/\ Len(wire) > 0 /\ wire[1].msg = "reply" /\ Live(wire[1].call)
                                /\ dirs'[k].from = wire[1].call.saw)
        /\ \A c \in {d} : /\ c.op = "list" => c.gen <= gen' /\ c.saw = ws
                          /\ ~First0(c) /\ c.step = "begin" /\ (c.op = "bootstrap" => c.gen = 1)
    BY <1>1, <1>2, <2>2, <2>3, <2>7 DEF m, First0
  <2> DEFINE added == {d}
  <2>9. calls' = calls \cup added /\ added \subseteq Calls /\ IsFiniteSet(added)
        /\ \A c \in added : /\ c.op = "list" => c.gen <= gen' /\ c.saw = ws
                            /\ ~First0(c) /\ c.step = "begin" /\ (c.op = "bootstrap" => c.gen = 1)
    BY <2>4, <2>5, <2>8
  <2> HIDE DEF added
  <2>10. QED BY <1>1, <1>2, <1>3, <2>6, <2>8, <2>9, WindowMoves DEF m
<1>6. CASE /\ Current(Call) /\ UNCHANGED <<req, calls>>
           /\ dirs' = [dirs EXCEPT ![Call.key] = [status |-> "loaded", from |-> Call.saw]]
  <2>1. ViewTypes' /\ gen' >= gen /\ calls' = calls \cup {} /\ IsFiniteSet({})
    BY <1>1, <1>2, <1>3, <1>6, FS_EmptySet DEF ViewTypes, Directory
  <2>2. \A k \in Keys : dirs'[k].from \in {dirs[k].from, m.call.saw} /\ Live(m.call)
    BY <1>1, <1>3, <1>6 DEF ViewTypes, Directory, Live, Current
  <2>3. \A k \in Keys : dirs'[k].from \in {None, dirs[k].from}
                        \/ (/\ Len(wire) > 0 /\ wire[1].msg = "reply" /\ Live(wire[1].call)
                            /\ dirs'[k].from = wire[1].call.saw)
    BY <1>1, <2>2 DEF m
  <2>4. QED BY <1>1, <1>2, <1>3, <2>1, <2>3, WindowMoves DEF m
<1>7. QED BY <1>4, <1>5, <1>6 DEF ListAnswered

LEMMA ListFailedKeeps == ASSUME WindowInv, ListFailed PROVE WindowInv'
<1> USE DEF WindowInv
<1> DEFINE m == wire[1]
<1>1. /\ wire' = Tail(wire) /\ Len(wire) > 0 /\ m \in Messages /\ m.msg = "error"
      /\ m.call.op = "list"
      /\ Call = m.call /\ m.call \in Calls
  BY HandleMeans DEF ListFailed
<1>2. UNCHANGED <<ws, run, trust, file, told, shown, gen, req, expanded, skills>> /\ Decisions'
  BY DEF ListFailed, viewOnly, mainVars, MainTypes, Decisions
<1>3. ~Came(m) /\ m.call.op # "bootstrap"
  BY <1>1 DEF Came
<1>4. dirs' = dirs \/ dirs' = [dirs EXCEPT ![Call.key].status = "error"]
  BY DEF ListFailed
<1>5. dirs' \in [Keys -> Directory] /\ \A k \in Keys : dirs'[k].from = dirs[k].from
  BY <1>4 DEF ViewTypes, Directory
<1>6. ViewTypes' /\ gen' >= gen /\ calls' = calls \cup {} /\ IsFiniteSet({})
  BY <1>2, <1>5, FS_EmptySet DEF ViewTypes, ListFailed
<1>7. QED BY <1>1, <1>2, <1>3, <1>5, <1>6, WindowMoves

LEMMA TrustAnsweredKeeps == ASSUME WindowInv, TrustAnswered PROVE WindowInv'
<1> USE DEF WindowInv
<1> DEFINE m == wire[1]
<1>1. /\ wire' = Tail(wire) /\ Len(wire) > 0 /\ m \in Messages /\ m.msg = "reply"
      /\ m.call.op = "trust"
      /\ Call = m.call /\ m.call \in Calls
  BY HandleMeans DEF TrustAnswered
<1>2. UNCHANGED <<ws, run, trust, file, told, gen, req, dirs, expanded>> /\ Decisions'
  BY DEF TrustAnswered, viewOnly, mainVars, explorerVars, MainTypes, Decisions
<1>3. ~Came(m) /\ m.call.op # "bootstrap" /\ Call.yes \in BOOLEAN
  BY <1>1 DEF Came, Calls
<1>4. ViewTypes' /\ gen' >= gen /\ skills' \in {None, skills}
  BY <1>2, <1>3 DEF ViewTypes, TrustAnswered
<1>5. ~Booting
  BY <1>1, OnlyBootstrap DEF BootInv, First0
<1> DEFINE added == SkillCalls(Call.yes)
<1>6. calls' = calls \cup added /\ added \subseteq Calls /\ IsFiniteSet(added)
      /\ \A c \in added : c.op = "skills" /\ c.step = "begin"
  BY SkillCallsMean DEF TrustAnswered
<1>7. \A c \in added : /\ c.op = "list" => c.gen <= gen' /\ c.saw = ws
                       /\ ~First0(c) /\ c.step = "begin" /\ (c.op = "bootstrap" => c.gen = 1)
  BY <1>6 DEF First0
<1> HIDE DEF added
<1>8. QED BY <1>1, <1>2, <1>3, <1>4, <1>5, <1>6, <1>7, WindowMoves

LEMMA SkillsAnsweredKeeps == ASSUME WindowInv, SkillsAnswered PROVE WindowInv'
<1> USE DEF WindowInv
<1> DEFINE m == wire[1]
<1>1. /\ wire' = Tail(wire) /\ Len(wire) > 0 /\ m \in Messages /\ m.msg \in {"reply", "error"}
      /\ m.call.op = "skills" /\ Call = m.call /\ m.call \in Calls
  BY HandleMeans DEF SkillsAnswered
<1>2. UNCHANGED <<ws, run, trust, file, told, shown, gen, req, dirs, expanded>> /\ Decisions'
  BY DEF SkillsAnswered, viewOnly, mainVars, explorerVars, MainTypes, Decisions
<1>3. ~Came(m) /\ m.call.op # "bootstrap" /\ Call.saw \in Workspaces \cup {None}
  BY <1>1 DEF Came, Calls
<1>4. wire # <<>> /\ Head(wire) = m
  BY <1>1 DEF MainTypes
<1>5. IF m.msg = "reply" THEN skills' = m.call.saw ELSE skills' = None
  BY <1>1, <1>4 DEF SkillsAnswered
<1>6. ViewTypes' /\ gen' >= gen
  BY <1>1, <1>2, <1>3, <1>5 DEF ViewTypes
<1>7. calls' = calls \cup {} /\ IsFiniteSet({})
  BY FS_EmptySet DEF SkillsAnswered
<1>8. QED BY <1>1, <1>2, <1>3, <1>5, <1>6, <1>7, WindowMoves

LEMMA NoticedKeeps == ASSUME WindowInv, Noticed \/ RunAnswered PROVE WindowInv'
<1> USE DEF WindowInv
<1> DEFINE m == wire[1]
<1>1. /\ wire' = Tail(wire) /\ Len(wire) > 0 /\ m \in Messages
      /\ (m.msg = "error" /\ m.call.op \in {"choose", "trust"}) \/ m.call.op = "run"
  BY HandleMeans DEF Noticed, RunAnswered
<1>2. UNCHANGED <<ws, run, trust, file, told, shown, gen, req, dirs, expanded, skills, calls>>
        /\ Decisions'
  BY DEF Noticed, RunAnswered, viewOnly, mainVars, explorerVars, MainTypes, Decisions
<1>3. ~Came(m) /\ m.call.op # "bootstrap"
  BY <1>1 DEF Came
<1>4. ViewTypes' /\ gen' >= gen /\ calls' = calls \cup {} /\ IsFiniteSet({})
  BY <1>2, FS_EmptySet DEF ViewTypes
<1>5. QED BY <1>1, <1>2, <1>3, <1>4, WindowMoves

\* Asking for the root again.
LEMMA LoadWorkspaceMeans ==
  ASSUME WindowInv, NEW rest, rest \subseteq Calls, IsFiniteSet(rest), LoadWorkspace(rest),
         \A d \in rest : d.op = "skills" /\ d.step = "begin"
  PROVE  /\ gen' = gen + 1 /\ req' \in [Keys -> Nat] /\ dirs' \in [Keys -> Directory]
         /\ \A k \in Keys : dirs'[k].from = dirs[k].from
         /\ \E added : /\ calls' = calls \cup added /\ added \subseteq Calls /\ IsFiniteSet(added)
                       /\ \A c \in added :
                            /\ c.op = "list" => c.gen <= gen' /\ c.gen = gen' /\ c.saw = ws
                            /\ ~First0(c) /\ c.step = "begin" /\ c.op \notin {"bootstrap", "choose"}
<1> USE DEF WindowInv
<1>1. gen' = gen + 1 /\ gen \in Nat /\ gen' \in Nat /\ expanded \in BOOLEAN /\ "root" \in Keys
  BY DEF LoadWorkspace, ViewTypes, Keys
<1>2. PICK g \in Nat, key \in Keys, goOn \in BOOLEAN : g = gen' /\ Load(key, g, goOn, rest)
  BY <1>1 DEF LoadWorkspace
<1>3. PICK d \in Calls : Asks(rest, g, d)
  BY <1>2, LoadMeans
<1>4. /\ req' \in [Keys -> Nat] /\ dirs' \in [Keys -> Directory]
      /\ \A k \in Keys : dirs'[k].from = dirs[k].from
  BY <1>2, LoadMeans
<1> DEFINE added == rest \cup {d}
<1>5. calls' = calls \cup added /\ added \subseteq Calls /\ IsFiniteSet(added)
  BY <1>3 DEF Asks
<1>6. \A c \in added : /\ c.op = "list" => c.gen <= gen' /\ c.gen = gen' /\ c.saw = ws
                       /\ ~First0(c) /\ c.step = "begin" /\ c.op \notin {"bootstrap", "choose"}
  BY <1>1, <1>2, <1>3 DEF First0, Asks
<1> HIDE DEF added
<1>7. QED BY <1>1, <1>4, <1>5, <1>6

LEMMA FilesChangedKeeps == ASSUME WindowInv, FilesChanged PROVE WindowInv'
<1> USE DEF WindowInv
<1> DEFINE m == wire[1]
<1>1. /\ wire' = Tail(wire) /\ Len(wire) > 0 /\ m \in Messages /\ m.msg = "files"
      /\ m.call.op = "run"
  BY HandleMeans DEF FilesChanged
<1>2. UNCHANGED <<ws, run, trust, file, told, shown, expanded, skills>> /\ Decisions'
        /\ LoadWorkspace({})
  BY DEF FilesChanged, viewOnly, mainVars, MainTypes, Decisions
<1>3. ~Came(m) /\ m.call.op # "bootstrap" /\ IsFiniteSet({})
  BY <1>1, FS_EmptySet DEF Came
<1>4. gen' = gen + 1 /\ req' \in [Keys -> Nat] /\ dirs' \in [Keys -> Directory]
      /\ \A k \in Keys : dirs'[k].from = dirs[k].from
  BY <1>2, <1>3, LoadWorkspaceMeans
<1>5. PICK added : /\ calls' = calls \cup added /\ added \subseteq Calls /\ IsFiniteSet(added)
                   /\ \A c \in added :
                        /\ c.op = "list" => c.gen <= gen' /\ c.gen = gen' /\ c.saw = ws
                        /\ ~First0(c) /\ c.step = "begin" /\ c.op \notin {"bootstrap", "choose"}
  BY <1>2, <1>3, LoadWorkspaceMeans
<1>6. ViewTypes' /\ gen' >= gen
  BY <1>2, <1>4 DEF ViewTypes
<1>7. QED BY <1>1, <1>2, <1>3, <1>4, <1>5, <1>6, WindowMoves

LEMMA ChosenKeeps == ASSUME WindowInv, Chosen PROVE WindowInv'
<1> USE DEF WindowInv
<1> DEFINE m == wire[1]
<1>1. /\ wire' = Tail(wire) /\ Len(wire) > 0 /\ m \in Messages /\ m.msg = "reply"
      /\ m.call.op = "choose"
      /\ Call = m.call /\ m.call \in Calls
  BY HandleMeans DEF Chosen
<1>2. UNCHANGED <<ws, run, trust, file, told, shown, gen, req, dirs, expanded, skills>>
        /\ Decisions'
  BY DEF Chosen, viewOnly, mainVars, explorerVars, MainTypes, Decisions
<1>3. ViewTypes' /\ gen' >= gen /\ m.call.op # "bootstrap"
  BY <1>1, <1>2 DEF ViewTypes
<1>4. CASE Call.saw = None
  <2>1. ~Came(m) /\ calls' = calls \cup {} /\ IsFiniteSet({})
    BY <1>1, <1>4, FS_EmptySet DEF Came, Chosen
  <2>2. QED BY <1>1, <1>2, <1>3, <2>1, WindowMoves
<1>5. CASE Call.saw # None
  <2> DEFINE n == New("bootstrap", FALSE)
             d == [New("bootstrap", FALSE) EXCEPT !.gen = 1]
  <2>1. n \in Calls /\ n.op = "bootstrap"
    BY NewCall DEF Ops
  <2>2. d \in Calls /\ d.op = "bootstrap" /\ d.gen = 1
    <3>1. d = [n EXCEPT !.gen = 1]
      OBVIOUS
    <3> HIDE DEF n, d
    <3>2. QED BY <2>1, <3>1 DEF Calls
  <2>3. calls' = calls \cup {d}
    BY <1>5 DEF Chosen
  <2> HIDE DEF n, d
  <2>4. wire \in Seq(Messages) /\ wire' \in Seq(Messages)
        /\ \A i \in DOMAIN wire' : i + 1 \in DOMAIN wire /\ wire'[i] = wire[i + 1]
    BY <1>1 DEF MainTypes
  <2>5. MainTypes'
    BY <1>2, <2>2, <2>3, <2>4, FS_AddElement DEF MainTypes
  <2>6. GenInv'
    BY <1>2, <2>2, <2>3, <2>4 DEF GenInv
  <2>7. Coming(d) /\ d \in calls'
    BY <2>2, <2>3 DEF Coming
  <2>8. ViewInv' /\ SkillsInv'
    BY <2>7 DEF ViewInv, SkillsInv, Pending
  <2>9. ~Booting'
    <3>1. ~Booting
      BY <1>1, <2>4, OnlyBootstrap DEF BootInv, First0
    <3>2. QED BY <2>2, <2>3, <2>4, <3>1 DEF Booting, First0
  <2>10. QED BY <1>3, <2>5, <2>6, <2>8, <2>9 DEF BootInv
<1>6. QED BY <1>4, <1>5

\* After the answer to bootstrap all that is listed, or asked for and not stale, is of the
\* selected workspace, whatever was there before.
LEMMA Arrived ==
  ASSUME WindowInv, wire' = Tail(wire), Len(wire) > 0, wire[1].call.op = "bootstrap", ViewTypes',
         NEW added, calls' = calls \cup added, added \subseteq Calls, IsFiniteSet(added),
         \A d \in added : /\ d.op = "list" => d.gen = gen' /\ d.saw = ws
                          /\ ~First0(d) /\ d.step = "begin" /\ d.op \notin {"bootstrap", "choose"},
         gen' > gen, skills' = None, \A k \in Keys : dirs'[k].from = None,
         ~Booting', ws' = ws, Decisions'
  PROVE  WindowInv'
<1> USE DEF WindowInv
<1>1. wire \in Seq(Messages) /\ wire' \in Seq(Messages) /\ gen \in Nat /\ gen' \in Nat
      /\ \A i \in DOMAIN wire' : i + 1 \in DOMAIN wire /\ wire'[i] = wire[i + 1]
      /\ \A j \in DOMAIN wire : j > 1 => j - 1 \in DOMAIN wire' /\ wire'[j - 1] = wire[j]
  BY DEF MainTypes, ViewTypes
<1>2. MainTypes'
  BY <1>1, FS_Union DEF MainTypes
<1>3. /\ \A c \in calls : c.op = "list" => c.gen # gen' /\ c.gen <= gen'
      /\ \A i \in DOMAIN wire' : wire'[i].call.op = "list" =>
           wire'[i].call.gen # gen' /\ wire'[i].call.gen <= gen'
  <2>1. /\ \A m \in Messages : m.call.gen \in Nat
        /\ \A c \in calls : c.gen \in Nat
        /\ \A i \in DOMAIN wire' : wire'[i] \in Messages
    <3>1. \A m \in Messages : m.call.gen \in Nat
      BY DEF Messages, Calls
    <3>2. \A c \in calls : c.gen \in Nat
      BY DEF Calls, MainTypes
    <3>3. QED BY <1>1, <3>1, <3>2
  <2>2. QED BY <1>1, <2>1 DEF GenInv
<1>4. GenInv'
  BY <1>1, <1>3 DEF GenInv
<1>5. ViewInv'
  BY <1>3 DEF ViewInv, Live
<1>6. SkillsInv'
  <2> SUFFICES ASSUME NEW i \in DOMAIN wire', wire'[i].msg = "reply", wire'[i].call.op = "skills",
                      wire'[i].call.saw # ws, ~\E c \in calls' : Coming(c)
               PROVE  \E j \in DOMAIN wire' : j > i /\ Came(wire'[j])
    BY DEF SkillsInv
  <2>1. PICK j \in DOMAIN wire : j > i + 1 /\ Came(wire[j])
    BY <1>1 DEF SkillsInv
  <2>2. j > 1 /\ j - 1 > i
    BY <1>1, <2>1
  <2>3. QED BY <1>1, <2>1, <2>2
<1>7. QED BY <1>2, <1>4, <1>5, <1>6 DEF BootInv

LEMMA BootstrappedKeeps == ASSUME SessionAssumption, WindowInv, Bootstrapped PROVE WindowInv'
<1> USE DEF WindowInv
<1> DEFINE m == wire[1]
<1>1. /\ wire' = Tail(wire) /\ Len(wire) > 0 /\ m \in Messages /\ m.msg = "reply"
      /\ m.call.op = "bootstrap"
      /\ Call = m.call /\ m.call \in Calls
  BY HandleMeans DEF Bootstrapped
<1>2. UNCHANGED <<ws, run, trust, file, told>> /\ Decisions' /\ skills' = None
      /\ shown' = [ws |-> Call.saw, trusted |-> Call.yes]
  BY DEF Bootstrapped, viewOnly, mainVars, MainTypes, Decisions
<1>3. shown' \in [ws : Workspaces \cup {None}, trusted : BOOLEAN]
  BY <1>1, <1>2 DEF Calls
<1> DEFINE lists == SkillCalls(Call.yes)
<1>4. /\ lists \subseteq Calls /\ IsFiniteSet(lists)
      /\ \A d \in lists : d.op = "skills" /\ d.step = "begin"
  BY SkillCallsMean
<1>5. 1 \in DOMAIN wire /\ wire \in Seq(Messages)
      /\ \A i \in DOMAIN wire' : i + 1 \in DOMAIN wire /\ wire'[i] = wire[i + 1]
  BY <1>1 DEF MainTypes
<1>6. CASE Call.gen = 0
  <2>1. LoadWorkspace(lists) /\ expanded' = expanded
    BY <1>6 DEF Bootstrapped
  <2> HIDE DEF lists
  <2>2. gen' = gen + 1 /\ req' \in [Keys -> Nat] /\ dirs' \in [Keys -> Directory]
        /\ \A k \in Keys : dirs'[k].from = dirs[k].from
    BY <1>4, <2>1, LoadWorkspaceMeans
  <2>3. PICK added : /\ calls' = calls \cup added /\ added \subseteq Calls /\ IsFiniteSet(added)
                     /\ \A c \in added :
                          /\ c.op = "list" => c.gen <= gen' /\ c.gen = gen' /\ c.saw = ws
                          /\ ~First0(c) /\ c.step = "begin" /\ c.op \notin {"bootstrap", "choose"}
    BY <1>4, <2>1, LoadWorkspaceMeans
  <2>4. Booting /\ First0(m.call)
    BY <1>1, <1>5, <1>6 DEF Booting, First0
  <2>5. calls = {} /\ Len(wire) = 1 /\ \A k \in Keys : dirs[k].from = None
    BY <1>5, <2>4, OnlyBootstrap DEF BootInv
  <2>6. ~Booting'
    BY <1>1, <1>5, <2>3, <2>5 DEF Booting
  <2>7. ViewTypes' /\ gen' > gen
    BY <1>2, <1>3, <2>1, <2>2 DEF ViewTypes
  <2>8. QED BY <1>1, <1>2, <2>2, <2>3, <2>5, <2>6, <2>7, Arrived
<1>7. CASE Call.gen # 0
  <2>1. /\ gen' = gen + 2 /\ expanded' = FALSE
        /\ req' = [k \in Keys |-> IF k = "root" THEN 1 ELSE 0]
        /\ dirs' = [NoDirs EXCEPT !["root"].status = "loading"]
        /\ calls' = calls \cup lists \cup {[CallOf("list", FALSE) EXCEPT !.gen = gen', !.req = 1]}
    BY <1>7 DEF Bootstrapped
  <2> HIDE DEF lists
  <2>2. dirs' \in [Keys -> Directory] /\ \A k \in Keys : dirs'[k].from = None
    BY <2>1 DEF NoDirs, Keys, Directory
  <2>3. ViewTypes' /\ gen' > gen /\ gen' \in Nat
    <3>1. gen' > gen /\ gen' \in Nat
      BY <2>1 DEF ViewTypes
    <3>2. req' \in [Keys -> Nat]
      BY <2>1
    <3>3. QED BY <1>2, <1>3, <2>1, <2>2, <3>1, <3>2 DEF ViewTypes
  <2> DEFINE d0 == CallOf("list", FALSE)
             d == [CallOf("list", FALSE) EXCEPT !.gen = gen', !.req = 1]
  <2>4. d0 \in Calls /\ d0.op = "list" /\ d0.saw = ws /\ d0.step = "begin"
    BY NewCall DEF Ops
  <2>5. d \in Calls /\ d.op = "list" /\ d.saw = ws /\ d.step = "begin" /\ d.gen = gen'
    <3>1. d = [d0 EXCEPT !.gen = gen', !.req = 1]
      OBVIOUS
    <3> HIDE DEF d0, d
    <3>2. QED BY <2>3, <2>4, <3>1 DEF Calls
  <2> HIDE DEF d0, d
  <2> DEFINE added == lists \cup {d}
  <2>6. calls' = calls \cup added
    BY <2>1 DEF d
  <2>7. added \subseteq Calls /\ IsFiniteSet(added)
    BY <1>4, <2>5, FS_AddElement
  <2>8. \A c \in added : /\ c.op = "list" => c.gen = gen' /\ c.saw = ws
                         /\ ~First0(c) /\ c.step = "begin" /\ c.op \notin {"bootstrap", "choose"}
    BY <1>4, <2>5 DEF First0
  <2> HIDE DEF added
  <2>9. ~Booting
    <3>1. ~First0(m.call)
      BY <1>1, <1>7 DEF First0
    <3>2. QED BY <1>5, <3>1, OnlyBootstrap DEF BootInv
  <2>10. ~Booting'
    BY <1>5, <2>6, <2>8, <2>9 DEF Booting
  <2>11. QED BY <1>1, <1>2, <2>2, <2>3, <2>6, <2>7, <2>8, <2>10, Arrived
<1>8. QED BY <1>6, <1>7

\* The user acts only once the first bootstrap is answered.
LEMMA UserMeans ==
  ASSUME WindowInv, Acts, userFrame' = userFrame
  PROVE  shown.ws # None /\ wire' = wire /\ UNCHANGED <<ws, run, trust, file, told, shown>>
           /\ Decisions'
BY DEF Acts, userFrame, mainVars, MainTypes, Decisions, WindowInv

\* Asking for one directory.
LEMMA LoadKeeps ==
  ASSUME WindowInv, NEW key \in Keys, Load(key, gen, FALSE, {}), shown.ws # None, wire' = wire,
         UNCHANGED <<ws, run, shown, gen, skills>>, expanded' \in BOOLEAN, Decisions'
  PROVE  WindowInv'
<1> USE DEF WindowInv
<1>1. gen \in Nat /\ IsFiniteSet({})
  BY FS_EmptySet DEF ViewTypes
<1>2. PICK g \in Nat, goOn \in BOOLEAN, rest \in SUBSET Calls :
         g = gen /\ rest = {} /\ IsFiniteSet(rest) /\ Load(key, g, goOn, rest)
  BY <1>1
<1>3. /\ req' \in [Keys -> Nat] /\ dirs' \in [Keys -> Directory]
      /\ \A k \in Keys : dirs'[k].from = dirs[k].from
  BY <1>2, LoadMeans
<1>4. PICK d \in Calls : Asks(rest, g, d)
  BY <1>2, LoadMeans
<1> DEFINE added == {d}
<1>5. calls' = calls \cup added /\ added \subseteq Calls /\ IsFiniteSet(added)
  BY <1>2, <1>4, FS_Singleton DEF Asks
<1>6. \A c \in added : /\ c.op = "list" => c.gen <= gen' /\ c.saw = ws
                       /\ ~First0(c) /\ c.step = "begin" /\ (c.op = "bootstrap" => c.gen = 1)
  BY <1>1, <1>2, <1>4 DEF First0, Asks
<1> HIDE DEF added
<1>7. ViewTypes' /\ gen' >= gen
  BY <1>1, <1>3 DEF ViewTypes
<1>8. QED BY <1>3, <1>5, <1>6, <1>7, WindowMoves

LEMMA ToggleKeeps == ASSUME WindowInv, Toggle PROVE WindowInv'
<1> USE DEF WindowInv
<1>1. shown.ws # None /\ wire' = wire
        /\ UNCHANGED <<ws, run, trust, file, told, shown, gen, skills>> /\ Decisions'
      /\ expanded' \in BOOLEAN
  BY UserMeans DEF Toggle, ViewTypes
<1>2. CASE UNCHANGED <<req, dirs, calls>>
  <2>1. ViewTypes' /\ gen' >= gen /\ calls' = calls \cup {} /\ IsFiniteSet({})
    BY <1>1, <1>2, FS_EmptySet DEF ViewTypes
  <2>2. QED BY <1>1, <1>2, <2>1, WindowMoves
<1>3. CASE Load("dir", gen, FALSE, {})
  <2>1. "dir" \in Keys /\ gen \in Nat /\ FALSE \in BOOLEAN /\ IsFiniteSet({}) /\ {} \subseteq Calls
    BY FS_EmptySet DEF Keys, ViewTypes
  <2>2. PICK key \in Keys : Load(key, gen, FALSE, {})
    BY <1>3, <2>1
  <2>3. QED BY <1>1, <2>1, <2>2, LoadKeeps
<1>4. QED BY <1>2, <1>3 DEF Toggle

LEMMA RetryKeeps == ASSUME WindowInv, NEW key \in Keys, Retry(key) PROVE WindowInv'
<1>1. shown.ws # None /\ wire' = wire
        /\ UNCHANGED <<ws, run, trust, file, told, shown, gen, skills, expanded>>
      /\ Decisions' /\ expanded' \in BOOLEAN
  BY UserMeans DEF Retry, ViewTypes, WindowInv
<1>2. Load(key, gen, FALSE, {})
  BY DEF Retry
<1>3. QED BY <1>1, <1>2, LoadKeeps

LEMMA RefreshKeeps == ASSUME WindowInv, Refresh PROVE WindowInv'
<1> USE DEF WindowInv
<1>1. shown.ws # None /\ wire' = wire
        /\ UNCHANGED <<ws, run, trust, file, told, shown, expanded>> /\ Decisions'
      /\ skills' \in {None, skills}
  BY UserMeans DEF Refresh
<1> DEFINE lists == SkillCalls(shown.trusted)
<1>2. /\ lists \subseteq Calls /\ IsFiniteSet(lists)
      /\ \A d \in lists : d.op = "skills" /\ d.step = "begin"
  BY SkillCallsMean
<1>3. LoadWorkspace(lists)
  BY DEF Refresh
<1> HIDE DEF lists
<1>4. gen' = gen + 1 /\ req' \in [Keys -> Nat] /\ dirs' \in [Keys -> Directory]
      /\ \A k \in Keys : dirs'[k].from = dirs[k].from
  BY <1>2, <1>3, LoadWorkspaceMeans
<1>5. PICK added : /\ calls' = calls \cup added /\ added \subseteq Calls /\ IsFiniteSet(added)
                   /\ \A c \in added :
                        /\ c.op = "list" => c.gen <= gen' /\ c.gen = gen' /\ c.saw = ws
                        /\ ~First0(c) /\ c.step = "begin" /\ c.op \notin {"bootstrap", "choose"}
  BY <1>2, <1>3, LoadWorkspaceMeans
<1>6. ViewTypes' /\ gen' >= gen
  BY <1>1, <1>4 DEF ViewTypes
<1>7. QED BY <1>1, <1>4, <1>5, <1>6, WindowMoves

\* The other acts of the user are calls.
LEMMA Asked ==
  ASSUME WindowInv, NEW op \in {"choose", "trust", "run"}, NEW yes \in BOOLEAN,
         calls' = calls \cup {New(op, yes)},
         shown.ws # None, wire' = wire,
         UNCHANGED <<ws, run, shown, gen, req, dirs, expanded, skills>>,
         Decisions'
  PROVE  WindowInv'
<1> USE DEF WindowInv
<1> DEFINE d == New(op, yes)
<1>1. d \in Calls /\ d.op = op /\ d.step = "begin"
  BY NewCall DEF Ops
<1> HIDE DEF d
<1> DEFINE added == {d}
<1>2. calls' = calls \cup added /\ added \subseteq Calls /\ IsFiniteSet(added)
  BY <1>1, FS_Singleton DEF d
<1>3. \A c \in added : /\ c.op = "list" => c.gen <= gen' /\ c.saw = ws
                       /\ ~First0(c) /\ c.step = "begin" /\ (c.op = "bootstrap" => c.gen = 1)
  BY <1>1 DEF First0
<1> HIDE DEF added
<1>4. ViewTypes' /\ gen' >= gen
  BY DEF ViewTypes
<1>5. QED BY <1>2, <1>3, <1>4, WindowMoves

LEMMA AskedKeeps ==
  ASSUME WindowInv, Choose \/ (\E yes \in BOOLEAN : ChangeTrust(yes)) \/ SendMessage
  PROVE  WindowInv'
<1>1. shown.ws # None /\ wire' = wire /\ UNCHANGED <<ws, run, trust, file, told, shown>>
        /\ Decisions'
  BY UserMeans DEF Choose, ChangeTrust, SendMessage
<1>2. UNCHANGED <<gen, req, dirs, expanded, skills>>
  BY DEF Choose, ChangeTrust, SendMessage, explorerVars
<1>3. PICK op \in {"choose", "trust", "run"}, yes \in BOOLEAN : calls' = calls \cup {New(op, yes)}
  BY DEF Choose, ChangeTrust, SendMessage
<1>4. QED BY <1>1, <1>2, <1>3, Asked

\* A program that starts holds nothing but the bootstrap.
LEMMA Started ==
  ASSUME NEW c \in Calls, First0(c), calls = {c}, wire = <<>>, run = "none",
         shown = [ws |-> None, trusted |-> FALSE], skills = None,
         gen = 0, req = [k \in Keys |-> 0], dirs = NoDirs, expanded = FALSE,
         ws \in Workspaces, Decisions
  PROVE  WindowInv
<1>1. MainTypes
  <2>1. IsFiniteSet({c})
    BY FS_Singleton
  <2>2. <<>> \in Seq(Messages)
    OBVIOUS
  <2>3. QED BY <2>1, <2>2 DEF MainTypes
<1>2. ViewTypes
  BY DEF ViewTypes, NoDirs, Directory
<1>3. Pending
  BY DEF Pending, Coming, First0
<1>4. BootInv
  BY DEF BootInv, NoDirs
<1>5. GenInv /\ SkillsInv
  BY DEF GenInv, SkillsInv, First0
<1>6. QED BY <1>1, <1>2, <1>3, <1>4, <1>5 DEF WindowInv, ViewInv

LEMMA FirstCall ==
  ASSUME ws \in Workspaces
  PROVE  CallOf("bootstrap", FALSE) \in Calls /\ First0(CallOf("bootstrap", FALSE))
BY DEF CallOf, Calls, CallSteps, Keys, Ops, First0

LEMMA WindowStarts == ASSUME SessionAssumption, Init PROVE WindowInv
<1>1. ws \in Workspaces /\ Decisions
  BY DEF Init, SessionAssumption, Decisions
<1> DEFINE c == CallOf("bootstrap", FALSE)
<1>2. c \in Calls /\ First0(c)
  BY <1>1, FirstCall
<1>3. calls = {c} /\ wire = <<>> /\ run = "none" /\ shown = [ws |-> None, trusted |-> FALSE]
      /\ skills = None /\ gen = 0 /\ req = [k \in Keys |-> 0] /\ dirs = NoDirs /\ expanded = FALSE
  BY DEF Init
<1> HIDE DEF c
<1>4. QED BY <1>1, <1>2, <1>3, Started

LEMMA RestartKeeps == ASSUME WindowInv, Restart PROVE WindowInv'
<1>1. ws' = ws /\ ws \in Workspaces /\ Decisions'
  BY DEF Restart, WindowInv, MainTypes, Decisions
<1> DEFINE c == CallOf("bootstrap", FALSE)
<1>2. c \in Calls /\ First0(c)
  BY <1>1, FirstCall
<1>3. calls' = {c} /\ wire' = <<>> /\ run' = "none" /\ shown' = [ws |-> None, trusted |-> FALSE]
      /\ skills' = None /\ gen' = 0 /\ req' = [k \in Keys |-> 0] /\ dirs' = NoDirs
      /\ expanded' = FALSE
  BY DEF Restart
<1> HIDE DEF c
<1>4. MainTypes'
  <2>1. IsFiniteSet({c})
    BY FS_Singleton
  <2>2. <<>> \in Seq(Messages)
    OBVIOUS
  <2>3. QED BY <1>1, <1>2, <1>3, <2>1, <2>2 DEF MainTypes
<1>5. ViewTypes'
  BY <1>3 DEF ViewTypes, NoDirs, Directory
<1>6. Pending'
  BY <1>2, <1>3 DEF Pending, Coming, First0
<1>7. BootInv'
  BY <1>2, <1>3 DEF BootInv, NoDirs
<1>8. GenInv' /\ SkillsInv'
  BY <1>2, <1>3 DEF GenInv, SkillsInv, First0
<1>9. QED BY <1>4, <1>5, <1>6, <1>7, <1>8 DEF WindowInv, ViewInv

LEMMA WindowStep == ASSUME SessionAssumption, WindowInv, [Next]_vars PROVE WindowInv'
<1>1. CASE Handlers
  <2>1. PICK c \in calls : Handler(c)
    BY <1>1 DEF Handlers
  <2>2. QED
    BY <2>1, BootstrapKeeps, SuspendKeeps, ChooseWorkspaceKeeps, RecoveredKeeps,
       SetWorkspaceTrustKeeps,
       ListKeeps, GateKeeps, StartRunKeeps DEF Handler
<1>2. CASE RunStarts \/ RunChangesFiles \/ RunEnds
  BY <1>2, RunEventsKeep
<1>3. CASE Deliver
  BY <1>3, ListAnsweredKeeps, ListFailedKeeps, BootstrappedKeeps, ChosenKeeps, TrustAnsweredKeeps,
     SkillsAnsweredKeeps, NoticedKeeps, FilesChangedKeeps DEF Deliver
<1>4. CASE User
  BY <1>4, ToggleKeeps, RefreshKeeps, RetryKeeps, AskedKeeps, RestartKeeps DEF User
<1>5. CASE UNCHANGED vars
  <2>1. /\ UNCHANGED <<ws, trust, file, told, run, calls, wire>>
        /\ UNCHANGED <<shown, gen, req, dirs, expanded, skills>>
    BY <1>5 DEF vars, mainVars, explorerVars
  <2>2. MainTypes' /\ ViewTypes'
    BY <2>1 DEF WindowInv, MainTypes, ViewTypes, Decisions
  <2>3. GenInv' /\ ViewInv' /\ SkillsInv' /\ BootInv'
    BY <2>1 DEF WindowInv, GenInv, ViewInv, SkillsInv, BootInv, Pending, Booting, Live
  <2>4. QED BY <2>2, <2>3 DEF WindowInv
<1>6. QED BY <1>1, <1>2, <1>3, <1>4, <1>5 DEF Next

LEMMA WindowIsSound == ASSUME SessionAssumption PROVE Spec => []WindowInv
<1>1. Init => WindowInv
  BY WindowStarts
<1>2. WindowInv /\ [Next]_vars => WindowInv'
  BY WindowStep
<1>3. QED BY <1>1, <1>2, PTL DEF Spec

\* What is listed belongs to the workspace that is shown, once the window has handled the answer
\* to the last change of workspace.
THEOREM ViewIsOfTheWorkspace == ASSUME SessionAssumption PROVE Spec => []ViewStaysInWorkspace
<1>1. WindowInv => ViewStaysInWorkspace
  <2> SUFFICES ASSUME WindowInv, ~Switching
               PROVE  /\ \A k \in Keys : dirs[k].from \in {None, shown.ws}
                      /\ skills \in {None, shown.ws}
    BY DEF ViewStaysInWorkspace
  <2>1. ws = shown.ws /\ ~Pending
    BY DEF Switching, Unsettled, Pending, Coming, Came
  <2>2. QED BY <2>1 DEF WindowInv, ViewInv
<1>2. QED BY <1>1, WindowIsSound, PTL

-----------------------------------------------------------------------------
\* A decision that was withdrawn is neither in memory nor in the file; at most one operation
\* holds the runs, and while it is a change of trust the decision on the
\* selected workspace is asked for.
Holding(c) == c.op \in {"choose", "trust"} /\ c.step \in {"waiting", "recovering"}
TrustInv ==
  /\ \A w \in Workspaces : told[w] = "no" => ~trust[w] /\ ~file[w]
  /\ \A c \in calls : Holding(c) => held
  /\ \A c, d \in calls : Holding(c) /\ Holding(d) => c = d
  /\ \A c \in calls : c.op = "trust" /\ Holding(c) => told[ws] = "asked"

\* A step that confirms or asks for nothing.
LEMMA NothingDecided ==
  ASSUME TrustInv, UNCHANGED <<trust, file, told>>,
         \A c \in calls' : Holding(c) => c \in calls,
         ws' = ws /\ held' = held
  PROVE  TrustInv'
BY DEF TrustInv

\* What the window asks for does not hold the runs.
LEMMA NewWaits ==
  /\ \A op, yes : New(op, yes).step = "begin" /\ CallOf(op, yes).op = op
                    /\ CallOf(op, yes).step = "begin"
  /\ \A yes : \A c \in SkillCalls(yes) : ~Holding(c)
<1>1. \A op, yes : New(op, yes).step = "begin" /\ CallOf(op, yes).op = op
                     /\ CallOf(op, yes).step = "begin"
  BY DEF New, CallOf
<1>2. QED BY <1>1 DEF SkillCalls, Holding

LEMMA LoadHolds ==
  ASSUME NEW key, NEW g, NEW goOn, NEW rest, Load(key, g, goOn, rest), \A c \in rest : ~Holding(c)
  PROVE  \A c \in calls' : Holding(c) => c \in calls
<1> DEFINE d == [CallOf("list", goOn) EXCEPT !.key = key, !.gen = g, !.req = req'[key]]
<1>1. d.step = "begin"
  BY DEF CallOf
<1>2. calls' = calls \cup rest \cup {d}
  BY DEF Load
<1> HIDE DEF d
<1>3. QED BY <1>1, <1>2 DEF Holding

LEMMA DeliverHolds == ASSUME Deliver PROVE \A c \in calls' : Holding(c) => c \in calls
<1>1. CASE ListAnswered
  <2> DEFINE d == [CallOf("list", FALSE) EXCEPT !.key = "dir", !.gen = gen, !.req = req'["dir"]]
  <2>1. d.step = "begin"
    BY DEF CallOf
  <2>2. calls' = calls \/ calls' = calls \cup {d}
    BY <1>1 DEF ListAnswered
  <2> HIDE DEF d
  <2>3. QED BY <2>1, <2>2 DEF Holding
<1>2. CASE Bootstrapped
  <2> DEFINE lists == SkillCalls(Call.yes)
             d == [CallOf("list", FALSE) EXCEPT !.gen = gen', !.req = 1]
  <2>1. d.step = "begin" /\ \A c \in lists : ~Holding(c)
    <3>1. d.step = "begin"
      BY DEF CallOf
    <3>2. QED BY <3>1, NewWaits
  <2>2. \/ Load("root", gen', expanded, lists)
        \/ calls' = calls \cup lists \cup {d}
    BY <1>2 DEF Bootstrapped, LoadWorkspace
  <2> HIDE DEF d, lists
  <2>3. CASE calls' = calls \cup lists \cup {d}
    BY <2>1, <2>3 DEF Holding
  <2>4. CASE Load("root", gen', expanded, lists)
    <3>1. PICK key, g, goOn : Load(key, g, goOn, lists)
      BY <2>4
    <3>2. QED BY <2>1, <3>1, LoadHolds
  <2>5. QED BY <2>2, <2>3, <2>4
<1>3. CASE Chosen
  <2> DEFINE n == New("bootstrap", FALSE)
             d == [New("bootstrap", FALSE) EXCEPT !.gen = 1]
  <2>1. d.step = "begin"
    BY DEF New, CallOf
  <2>2. calls' = calls \/ calls' = calls \cup {d}
    BY <1>3 DEF Chosen
  <2> HIDE DEF d
  <2>3. QED BY <2>1, <2>2 DEF Holding
<1>4. CASE TrustAnswered
  BY <1>4, NewWaits DEF TrustAnswered
<1>5. CASE FilesChanged
  <2>1. PICK key, g, goOn, rest : Load(key, g, goOn, rest) /\ rest = {}
    BY <1>5 DEF FilesChanged, LoadWorkspace
  <2>2. QED BY <2>1, LoadHolds
<1>6. CASE ListFailed \/ SkillsAnswered \/ Noticed \/ RunAnswered
  BY <1>6 DEF ListFailed, SkillsAnswered, Noticed, RunAnswered
<1>7. QED BY <1>1, <1>2, <1>3, <1>4, <1>5, <1>6 DEF Deliver

LEMMA UserHolds == ASSUME User, ~Restart PROVE \A c \in calls' : Holding(c) => c \in calls
<1>1. CASE \/ Choose \/ SendMessage \/ \E yes \in BOOLEAN : ChangeTrust(yes)
  <2>1. PICK op, yes : calls' = calls \cup {New(op, yes)}
    BY <1>1 DEF Choose, SendMessage, ChangeTrust
  <2>2. QED BY <2>1, NewWaits DEF Holding
<1>2. CASE Toggle \/ Refresh \/ \E key \in Keys : Retry(key)
  <2>1. \/ calls' = calls
        \/ \E key, g, goOn, rest : Load(key, g, goOn, rest) /\ \A c \in rest : ~Holding(c)
    <3>1. CASE Toggle
      <4>1. calls' = calls \/ \E rest : rest = {} /\ Load("dir", gen, FALSE, rest)
        BY <3>1 DEF Toggle
      <4>2. QED BY <4>1
    <3>2. CASE Refresh
      <4>1. Load("root", gen', expanded, SkillCalls(shown.trusted))
        BY <3>2 DEF Refresh, LoadWorkspace
      <4>2. QED BY <4>1, NewWaits
    <3>3. CASE \E key \in Keys : Retry(key)
      <4>1. PICK k, none : none = {} /\ Load(k, gen, FALSE, none)
        BY <3>3 DEF Retry
      <4>2. \E key, g, goOn, rest : Load(key, g, goOn, rest) /\ \A c \in rest : ~Holding(c)
        <5>1. \A c \in none : ~Holding(c)
          BY <4>1
        <5>2. QED BY <4>1, <5>1
      <4>3. QED BY <4>2
    <3>4. QED BY <1>2, <3>1, <3>2, <3>3
  <2>2. QED BY <2>1, LoadHolds
<1>3. QED BY <1>1, <1>2 DEF User

LEMMA HandlerDecides == ASSUME WindowInv, TrustInv, NEW c \in calls, Handler(c) PROVE TrustInv'
<1>1. c \in Calls /\ ws \in Workspaces /\ c.yes \in BOOLEAN /\ Decisions
  BY DEF WindowInv, MainTypes, Calls
<1>2. CASE Suspend(c)
  <2> DEFINE d == [c EXCEPT !.step = "waiting"]
  <2>1. d.op = c.op
    BY <1>1 DEF Calls
  <2>2. CASE Refuse(c) /\ UNCHANGED <<held, told>>
    BY <1>2, <2>2 DEF Suspend, Refuse, Answer, TrustInv
  <2>3. CASE ~held /\ Becomes(c, d)
    <3>1. held' = TRUE /\ calls' = (calls \ {c}) \cup {d} /\ UNCHANGED <<ws, trust, file>>
          /\ told' = IF c.op = "trust" THEN [told EXCEPT ![ws] = "asked"] ELSE told
      BY <1>2, <2>3 DEF Suspend, Becomes
    <3> HIDE DEF d
    <3>2. \A k \in calls : ~Holding(k)
      BY <2>3 DEF TrustInv
    <3>3. \A k \in calls' : Holding(k) => k = d
      BY <3>1, <3>2
    <3>4. \A w \in Workspaces : told'[w] = "no" => told[w] = "no"
      BY <3>1, <1>1 DEF Decisions
    <3>5. d.op = "trust" => told'[ws'] = "asked"
      BY <3>1, <2>1, <1>1 DEF Decisions
    <3>6. QED BY <3>1, <3>3, <3>4, <3>5 DEF TrustInv
  <2>4. QED BY <1>2, <2>2, <2>3 DEF Suspend
<1>3. CASE ChooseWorkspace(c)
  <2>1. Holding(c) /\ c.op = "choose" /\ UNCHANGED <<trust, file, told>>
    BY <1>3 DEF ChooseWorkspace, At, Holding
  <2>2. \A k \in calls : Holding(k) => k = c
    BY <2>1 DEF TrustInv
  <2>3. CASE calls' = calls \ {c}
    BY <2>1, <2>2, <2>3 DEF TrustInv
  <2>4. CASE Becomes(c, [c EXCEPT !.step = "recovering"]) /\ held' = held
    <3> DEFINE d == [c EXCEPT !.step = "recovering"]
    <3>1. d.op = "choose" /\ calls' = (calls \ {c}) \cup {d}
      BY <1>1, <2>1, <2>4 DEF Calls, Becomes
    <3> HIDE DEF d
    <3>2. \A k \in calls' : Holding(k) => k = d
      BY <2>2, <3>1
    <3>3. held
      BY <2>1 DEF TrustInv
    <3>4. QED BY <2>1, <2>4, <3>1, <3>2, <3>3 DEF TrustInv
  <2>5. QED BY <1>3, <2>3, <2>4 DEF ChooseWorkspace, Answer, Refuse
<1>4. CASE Recovered(c)
  <2>1. Holding(c) /\ UNCHANGED <<trust, file, told>> /\ calls' = calls \ {c}
    BY <1>4 DEF Recovered, At, Holding, Answer
  <2>2. \A k \in calls : Holding(k) => k = c
    BY <2>1 DEF TrustInv
  <2>3. QED BY <2>1, <2>2 DEF TrustInv
<1>5. CASE SetWorkspaceTrust(c)
  <2>1. Holding(c) /\ c.op = "trust" /\ ws' = ws /\ calls' = calls \ {c}
    BY <1>5 DEF SetWorkspaceTrust, At, Holding, Answer, Refuse
  <2>2. \A k \in calls : Holding(k) => k = c
    BY <2>1 DEF TrustInv
  <2>3. told[ws] = "asked"
    BY <2>1 DEF TrustInv
  <2>4. \A w \in Workspaces : told'[w] = "no" => ~trust'[w] /\ ~file'[w]
    <3>1. CASE /\ trust' = [trust EXCEPT ![ws] = c.yes] /\ file' = trust'
               /\ told' = [told EXCEPT ![ws] = IF c.yes THEN "yes" ELSE "no"]
      <4>1. ASSUME NEW w \in Workspaces, told'[w] = "no" PROVE ~trust'[w] /\ ~file'[w]
        <5>1. CASE w = ws
          BY <1>1, <3>1, <4>1, <5>1 DEF Decisions
        <5>2. CASE w # ws
          <6>1. told[w] = "no" /\ trust'[w] = trust[w] /\ file'[w] = trust[w]
            BY <1>1, <3>1, <4>1, <5>2 DEF Decisions
          <6>2. QED BY <6>1 DEF TrustInv
        <5>3. QED BY <5>1, <5>2
      <4>2. QED BY <4>1
    <3>2. CASE file' \in {file, [trust EXCEPT ![ws] = c.yes]} /\ UNCHANGED <<trust, told>>
      BY <1>1, <2>3, <3>2 DEF TrustInv, Decisions
    <3>3. QED BY <1>5, <3>1, <3>2 DEF SetWorkspaceTrust
  <2>5. QED BY <2>1, <2>2, <2>4 DEF TrustInv
<1>6. CASE Bootstrap(c) \/ List(c) \/ PassGate(c) \/ LeaveGate(c) \/ StartRun(c)
  <2>1. UNCHANGED <<ws, trust, file, told, held>> /\ c.op \notin {"choose", "trust"}
    BY <1>6 DEF Bootstrap, List, PassGate, LeaveGate, StartRun, mainVars, At
  <2>2. calls' = calls \ {c} \/ \E to : calls' = (calls \ {c}) \cup {[c EXCEPT !.step = to]}
    BY <1>6 DEF Bootstrap, List, PassGate, LeaveGate, StartRun, Becomes, Answer, Refuse
  <2>3. \A to : [c EXCEPT !.step = to].op = c.op
    BY <1>1 DEF Calls
  <2>4. \A k \in calls' : Holding(k) => k \in calls
    <3>1. CASE calls' = calls \ {c}
      BY <3>1
    <3>2. CASE \E to : calls' = (calls \ {c}) \cup {[c EXCEPT !.step = to]}
      <4>1. PICK to : calls' = (calls \ {c}) \cup {[c EXCEPT !.step = to]}
        BY <3>2
      <4> DEFINE d == [c EXCEPT !.step = to]
      <4>2. d.op = c.op /\ calls' = (calls \ {c}) \cup {d}
        BY <2>3, <4>1
      <4> HIDE DEF d
      <4>3. QED BY <2>1, <4>2 DEF Holding
    <3>3. QED BY <2>2, <3>1, <3>2
  <2>5. QED BY <2>1, <2>4, NothingDecided
<1>7. QED BY <1>2, <1>3, <1>4, <1>5, <1>6 DEF Handler

LEMMA TrustStep == ASSUME WindowInv, TrustInv, [Next]_vars PROVE TrustInv'
<1>1. CASE Handlers
  BY <1>1, HandlerDecides DEF Handlers
<1>2. CASE RunStarts \/ RunChangesFiles \/ RunEnds
  <2>1. UNCHANGED <<ws, trust, file, told, held, calls>>
    BY <1>2 DEF RunStarts, RunChangesFiles, RunEnds, runFrame
  <2>2. QED BY <2>1, NothingDecided
<1>3. CASE Deliver
  <2>1. UNCHANGED <<ws, trust, file, told, held>>
    BY <1>3 DEF Deliver, ListAnswered, ListFailed, Bootstrapped, Chosen, TrustAnswered,
       SkillsAnswered,
                Noticed, RunAnswered, FilesChanged, viewOnly, mainVars
  <2>2. QED BY <1>3, <2>1, DeliverHolds, NothingDecided
<1>4. CASE User /\ ~Restart
  <2>1. UNCHANGED <<ws, trust, file, told, held>>
    BY <1>4 DEF User, Toggle, Refresh, Retry, Choose, ChangeTrust, SendMessage, userFrame,
       mainVars
  <2>2. QED BY <1>4, <2>1, UserHolds, NothingDecided
<1>5. CASE Restart
  <2> DEFINE c == CallOf("bootstrap", FALSE)
  <2>1. calls' = {c} /\ trust' = file /\ UNCHANGED <<file, told, ws>>
    BY <1>5 DEF Restart
  <2>2. ~Holding(c)
    BY NewWaits DEF Holding
  <2> HIDE DEF c
  <2>3. QED BY <2>1, <2>2 DEF TrustInv
<1>6. CASE UNCHANGED vars
  BY <1>6, NothingDecided DEF vars, mainVars
<1>7. QED BY <1>1, <1>2, <1>3, <1>4, <1>5, <1>6 DEF Next, User

\* A workspace whose trust was withdrawn, and confirmed so, is trusted again only when the user
\* asks for it: not by a failed save, a restart or another workspace's decision.
THEOREM WithdrawalsLast == ASSUME SessionAssumption PROVE Spec => []WithdrawnStaysWithdrawn
<1>1. Init => TrustInv
  <2> SUFFICES ASSUME Init PROVE TrustInv
    OBVIOUS
  <2> DEFINE c == CallOf("bootstrap", FALSE)
  <2>1. calls = {c} /\ ~Holding(c)
    BY NewWaits DEF Init, Holding
  <2>2. \A w \in Workspaces : told[w] = "no" => ~trust[w] /\ ~file[w]
    BY DEF Init
  <2> HIDE DEF c
  <2>3. QED BY <2>1, <2>2 DEF TrustInv
<1>2. WindowInv /\ TrustInv /\ [Next]_vars => TrustInv'
  BY TrustStep
<1>3. TrustInv => WithdrawnStaysWithdrawn
  BY DEF TrustInv, WithdrawnStaysWithdrawn
<1>4. QED BY <1>1, <1>2, <1>3, WindowIsSound, PTL DEF Spec


-----------------------------------------------------------------------------
(* Child processes and hooks (HostProcesses).  A child that was told to end *)
(* has its kill timer, so its group is killed at the latest as it closes;  *)
(* what a check of the dispatch saw holds at the next one, unless the hook *)
(* was touched in between.                                                 *)

Process ==
  [state : {"none", "preparing", "running", "closed"},
   leader : {"none", "running", "exited", "signalled", "failed"},
   code : {0, 1}, helper : {"none", "silent", "piped"},
   timeout : BOOLEAN, kill : {"none", "armed", "fired"},
   late : BOOLEAN, timedOut : BOOLEAN, cancelled : BOOLEAN]

Forced(r) == r.timedOut \/ r.cancelled

\* A child as the runner leaves it between two steps.
Sound == {r \in Process :
            /\ r.state = "running" /\ Forced(r) => r.kill # "none"
            /\ r.leader = "failed" => r.helper = "none"
            /\ r.state = "closed" /\ Forced(r) => r.helper = "none"
            /\ r.state \in {"none", "preparing"} =>
                 r.helper = "none" /\ r.leader = "none" /\ ~Forced(r)}

ProcsInv == /\ kind \in Kinds /\ aborted \in BOOLEAN
            /\ procs \in [Slots -> Sound]
            /\ CancellationReachesChildren

Reads == [hook : Hooks, content : Contents \cup {Unset}]

HookInv ==
  /\ trusted \in BOOLEAN /\ todo \subseteq Reads
  /\ config \in [Hooks -> Contents \cup {Unset}]
  /\ entries \in [Hooks -> Contents \cup {Unset}] /\ review \subseteq Reads
  /\ step = "approval" => kind = "command"
  /\ step \in {"recheck", "retrust", "start", "process"} /\ kind = "hook" => todo # {}
  /\ AtHook("retrust") \/ AtHook("start") =>
       raced \/ (trusted /\ config[CurrentHook.hook] = CurrentHook.content)
  /\ AtHook("start") => raced \/ Trusts(CurrentHook)

LEMMA NewProcessIsSound == NoProcess \in Sound
                             /\ [NoProcess EXCEPT !.state = "preparing"] \in Sound
                           /\ [NoProcess EXCEPT !.state = "closed"] \in Sound
BY DEF NoProcess, Sound, Process, Forced

\* The signal of forceTerminateSoon changes neither the state of the child nor why it is ended.
LEMMA TerminateIsSound ==
  ASSUME NEW r \in Process, r.state = "running", r.leader = "failed" => r.helper = "none",
         NEW s \in Terminate(r)
  PROVE  s \in Sound /\ s.state = "running" /\ s.cancelled = r.cancelled
<1>1. PICK t \in AfterTerm(r) : s = [t EXCEPT !.kill = "armed", !.late = @ \/ r.kill = "armed"]
  BY DEF Terminate
<1>2. /\ t \in Process /\ t.state = "running" /\ t.cancelled = r.cancelled
      /\ t.leader = "failed" => t.helper = "none"
  BY DEF AfterTerm, Process
<1>3. s \in Process
  <2>1. (t.late \/ r.kill = "armed") \in BOOLEAN
    BY <1>2 DEF Process
  <2>2. QED BY <1>1, <1>2, <2>1 DEF Process
<1>4. /\ s.state = "running" /\ s.cancelled = t.cancelled /\ s.kill = "armed"
      /\ s.leader = t.leader /\ s.helper = t.helper
  BY <1>1, <1>2 DEF Process
<1>5. QED BY <1>2, <1>3, <1>4 DEF Sound

\* One child changes; it does not start to run under a cancelled operation, nor forget it.
LEMMA ChildKeeps ==
  ASSUME ProcsInv, NEW p \in Slots, NEW records, Become(p, records),
         UNCHANGED <<kind, aborted>>,
         \A r \in records :
           /\ r \in Sound
           /\ r.state = "running" /\ aborted /\ kind # "git" =>
                procs[p].state = "running" /\ r.cancelled = procs[p].cancelled
  PROVE  ProcsInv'
<1>1. PICK r \in records : procs' = [procs EXCEPT ![p] = r]
  BY DEF Become
<1>2. procs' \in [Slots -> Sound]
  BY <1>1 DEF ProcsInv
<1>3. ASSUME NEW q \in Slots, aborted, procs'[q].state = "running", kind # "git"
      PROVE  procs'[q].cancelled
  <2>1. CASE q = p
    BY <1>1, <1>3, <2>1 DEF ProcsInv, CancellationReachesChildren, Running
  <2>2. CASE q # p
    BY <1>1, <1>3, <2>2 DEF ProcsInv, CancellationReachesChildren, Running
  <2>3. QED BY <2>1, <2>2
<1>4. QED BY <1>2, <1>3 DEF ProcsInv, CancellationReachesChildren, Running

LEMMA SpawnKeeps == ASSUME ProcsInv, NEW p \in Slots, Spawn(p) PROVE ProcsInv'
<1>1. procs[p] \in Sound /\ procs[p].state = "preparing"
  BY DEF ProcsInv, Spawn
<1>2. \A r \in CancelledEarly(p) : r \in Sound /\ r.state = "closed"
  BY <1>1 DEF CancelledEarly, Sound, Process, Forced
<1>3. ASSUME NEW l \in {"running", "failed"}
      PROVE  [procs[p] EXCEPT !.state = "running", !.timeout = TRUE, !.leader = l] \in Sound
  BY <1>1 DEF Sound, Process, Forced
<1>4. \A r \in Spawned(p) : r \in Sound /\ (r.state = "running" => ~(aborted /\ kind # "git"))
  BY <1>2, <1>3 DEF Spawned, Launched
<1>5. QED BY <1>4, ChildKeeps DEF Spawn, processFrame

LEMMA TimeoutKeeps == ASSUME ProcsInv, NEW p \in Slots, TimeoutFires(p) PROVE ProcsInv'
<1> DEFINE r == [procs[p] EXCEPT !.timeout = FALSE, !.timedOut = TRUE]
<1>1. procs[p] \in Sound /\ procs[p].state = "running"
  BY DEF ProcsInv, TimeoutFires, Running
<1>2. /\ r \in Process /\ r.state = "running" /\ r.cancelled = procs[p].cancelled
      /\ r.leader = "failed" => r.helper = "none"
  BY <1>1 DEF Sound, Process
<1>3. Become(p, Terminate(r)) /\ UNCHANGED <<kind, aborted>>
  BY DEF TimeoutFires, processFrame
<1> HIDE DEF r
<1>4. \A s \in Terminate(r) :
        s \in Sound /\ s.state = "running" /\ s.cancelled = procs[p].cancelled
  BY <1>2, TerminateIsSound
<1>5. QED BY <1>1, <1>3, <1>4, ChildKeeps

LEMMA KillKeeps == ASSUME ProcsInv, NEW p \in Slots, KillFires(p) PROVE ProcsInv'
<1> DEFINE r == [procs[p] EXCEPT !.kill = "fired"]
           s == [procs[p] EXCEPT !.late = FALSE]
           rK == AfterKill(r, FALSE)
           sK == AfterKill(s, FALSE)
<1>1. procs[p] \in Sound /\ procs[p].state = "running"
  BY DEF ProcsInv, KillFires, Running
<1>2. rK \in Sound /\ rK.cancelled = procs[p].cancelled
  BY <1>1 DEF Sound, Process, Forced, AfterKill, Signalled
<1>3. sK \in Sound /\ sK.cancelled = procs[p].cancelled
  BY <1>1 DEF Sound, Process, Forced, AfterKill, Signalled
<1>4. /\ Become(p, {rK}) \/ Become(p, {sK})
      /\ UNCHANGED <<kind, aborted>>
  BY DEF KillFires, processFrame
<1> HIDE DEF r, s, rK, sK
<1>5. CASE Become(p, {rK})
  BY <1>1, <1>2, <1>4, <1>5, ChildKeeps
<1>6. CASE Become(p, {sK})
  BY <1>1, <1>3, <1>4, <1>6, ChildKeeps
<1>7. QED BY <1>4, <1>5, <1>6

LEMMA CloseKeeps == ASSUME ProcsInv, NEW p \in Slots, Close(p) PROVE ProcsInv'
<1> DEFINE r == [procs[p] EXCEPT !.state = "closed", !.timeout = FALSE,
                                 !.kill = IF @ = "armed" THEN "fired" ELSE @]
           t == IF r.kill # "none" /\ (r.timedOut \/ r.cancelled) THEN AfterKill(r, TRUE)
                ELSE r
<1>1. procs[p] \in Sound /\ procs[p].state = "running"
  BY DEF ProcsInv, Close, Running
<1>2. r \in Process /\ r.state = "closed" /\ (Forced(r) => r.kill # "none")
      /\ (r.leader = "failed" => r.helper = "none")
  BY <1>1 DEF Sound, Process, Forced
<1>3. Become(p, {t}) /\ UNCHANGED <<kind, aborted>>
  BY DEF Close, processFrame
<1> HIDE DEF r
<1>4. t \in Sound /\ t.state = "closed"
  BY <1>2 DEF Sound, Process, Forced, AfterKill, Signalled
<1> HIDE DEF t
<1>5. QED BY <1>3, <1>4, ChildKeeps

LEMMA ChildEndsKeep ==
  ASSUME ProcsInv, NEW p \in Slots,
         Fork(p) \/ LeaderEnds(p) \/ HelperEnds(p) \/ PreparationFails(p)
  PROVE  ProcsInv'
<1>1. procs[p] \in Sound
  BY DEF ProcsInv
<1>2. CASE Fork(p)
  <2>1. \A r \in {[procs[p] EXCEPT !.helper = h] : h \in {"silent", "piped"}} :
          r \in Sound /\ r.cancelled = procs[p].cancelled /\ procs[p].state = "running"
    BY <1>1, <1>2 DEF Fork, Running, Sound, Process, Forced
  <2>2. QED BY <1>2, <2>1, ChildKeeps DEF Fork, processFrame
<1>3. CASE LeaderEnds(p)
  <2>1. ASSUME NEW c \in {0, 1}
        PROVE  LET r == [procs[p] EXCEPT !.leader = "exited", !.code = c] IN
               r \in Sound /\ r.cancelled = procs[p].cancelled /\ r.state = procs[p].state
    BY <1>1, <1>3 DEF LeaderEnds, Sound, Process, Forced
  <2> DEFINE R == {[procs[p] EXCEPT !.leader = "exited", !.code = c] : c \in {0, 1}}
  <2>2. \A r \in R : r \in Sound /\ r.cancelled = procs[p].cancelled /\ r.state = procs[p].state
    BY <2>1
  <2>3. Become(p, R) /\ UNCHANGED <<kind, aborted>>
    BY <1>3 DEF LeaderEnds, processFrame
  <2> HIDE DEF R
  <2>4. QED BY <2>2, <2>3, ChildKeeps
<1>4. CASE HelperEnds(p)
  <2> DEFINE r == [procs[p] EXCEPT !.helper = "none"]
  <2>1. r \in Sound /\ r.cancelled = procs[p].cancelled /\ r.state = procs[p].state
    BY <1>1 DEF Sound, Process, Forced
  <2>2. Become(p, {r}) /\ UNCHANGED <<kind, aborted>>
    BY <1>4 DEF HelperEnds, processFrame
  <2> HIDE DEF r
  <2>3. QED BY <2>1, <2>2, ChildKeeps
<1>5. CASE PreparationFails(p)
  <2> DEFINE r == [NoProcess EXCEPT !.state = "closed"]
  <2>1. r \in Sound /\ r.state = "closed"
    BY NewProcessIsSound DEF NoProcess
  <2>2. Become(p, {r}) /\ UNCHANGED <<kind, aborted>>
    BY <1>5 DEF PreparationFails, opFrame
  <2> HIDE DEF r
  <2>3. QED BY <2>1, <2>2, ChildKeeps
<1>6. QED BY <1>2, <1>3, <1>4, <1>5

LEMMA AbortKeeps == ASSUME ProcsInv, Abort PROVE ProcsInv'
<1> DEFINE Mark(p) == [procs[p] EXCEPT !.cancelled = TRUE]
           After(p) == IF Running(p) THEN Terminate(Mark(p)) ELSE {procs[p]}
<1>1. aborted' = TRUE /\ kind' = kind
        /\ procs' \in [Slots -> UNION {After(p) : p \in Slots}]
      /\ \A p \in Slots : procs'[p] \in After(p)
  BY DEF Abort
<1>2. ASSUME NEW p \in Slots
      PROVE  procs'[p] \in Sound /\ (procs'[p].state = "running" => procs'[p].cancelled)
  <2>1. procs[p] \in Sound /\ procs'[p] \in After(p)
    BY <1>1 DEF ProcsInv
  <2>2. CASE Running(p)
    <3>1. /\ Mark(p) \in Process /\ Mark(p).state = "running" /\ Mark(p).cancelled
          /\ Mark(p).leader = "failed" => Mark(p).helper = "none"
      BY <2>1, <2>2 DEF Running, Sound, Process
    <3>2. procs'[p] \in Terminate(Mark(p))
      BY <2>1, <2>2
    <3> HIDE DEF Mark
    <3>3. QED BY <3>1, <3>2, TerminateIsSound
  <2>3. CASE ~Running(p)
    BY <2>1, <2>3 DEF Running
  <2>4. QED BY <2>2, <2>3
<1>3. procs' \in [Slots -> Sound]
  BY <1>1, <1>2
<1>4. QED BY <1>1, <1>2, <1>3 DEF ProcsInv, CancellationReachesChildren, Running

\* Processes that are prepared replace those of the last command.
LEMMA PrepareKeeps ==
  ASSUME ProcsInv, NEW P, Prepare(P), UNCHANGED <<kind, aborted>>
  PROVE  ProcsInv'
<1>1. \A p \in Slots : procs'[p] = procs[p]
                          \/ procs'[p] = [NoProcess EXCEPT !.state = "preparing"]
  BY DEF Prepare
<1>2. procs' \in [Slots -> Sound]
  BY <1>1, NewProcessIsSound DEF Prepare, ProcsInv
<1>3. [NoProcess EXCEPT !.state = "preparing"].state = "preparing"
  BY DEF NoProcess
<1>4. QED BY <1>1, <1>2, <1>3 DEF ProcsInv, CancellationReachesChildren, Running

\* The steps that start children and those that leave them alone.
Begins == \E s, P : Begin(s, P)

LEMMA ProcsInvKept == ASSUME ProcsInv, [HostNext]_hostVars PROVE ProcsInv'
<1>1. ASSUME NEW p \in Slots,
             ProcessStep(p) \/ Fork(p) \/ LeaderEnds(p) \/ HelperEnds(p)
      PROVE  ProcsInv'
  BY <1>1, SpawnKeeps, TimeoutKeeps, KillKeeps, CloseKeeps, ChildEndsKeep DEF ProcessStep
<1>2. CASE Abort
  BY <1>2, AbortKeeps
<1>3. CASE Begins
  BY <1>3, PrepareKeeps DEF Begins, Begin, opFrame
<1>4. CASE UNCHANGED <<kind, aborted, procs>>
  BY <1>4 DEF ProcsInv, CancellationReachesChildren, Running
<1>5. ASSUME Step PROVE Begins \/ UNCHANGED <<kind, aborted, procs>>
  <2>1. CASE AskForCommand \/ CommandEnds \/ InspectionEnds
    BY <2>1 DEF AskForCommand, CommandEnds, InspectionEnds, Quit, opFrame
  <2>2. CASE RunCommand \/ Inspect \/ InspectFurther \/ StartHook
    BY <2>2 DEF RunCommand, Inspect, InspectFurther, StartHook,
       Quit, opFrame, Begins
  <2>3. CASE Dispatch \/ Discover \/ KeepTrusted \/ NextHook \/ Recheck
               \/ Retrust \/ TakeResult \/ DispatchEnds
    BY <2>3 DEF Dispatch, Discover, KeepTrusted, NextHook,
       Recheck, Retrust, TakeResult, DispatchEnds,
       Proceed, dispatchFrame
  <2>4. QED BY <1>5, <2>1, <2>2, <2>3 DEF Step
<1>6. ASSUME \/ Leave \/ TrustWorkspace \/ SaveReview \/ UNCHANGED hostVars
             \/ \E h \in Hooks : (\E c \in Contents \cup {Unset} : EditConfig(h, c))
                                 \/ (\E give \in BOOLEAN : Review(h, give))
      PROVE  UNCHANGED <<kind, aborted, procs>>
  BY <1>6 DEF Leave, TrustWorkspace, SaveReview, EditConfig,
     Review, opVars, hostVars
<1>7. QED BY <1>1, <1>2, <1>3, <1>4, <1>5, <1>6 DEF HostNext

LEMMA InitProcs == HostInit => ProcsInv
BY NewProcessIsSound DEF HostInit, ProcsInv, CancellationReachesChildren,
   Running, NoProcess

LEMMA ProcsInvHolds == HostSpec => []ProcsInv
BY InitProcs, ProcsInvKept, PTL DEF HostSpec

-----------------------------------------------------------------------------
\* Of some numbers, one is the least.
LEMMA LeastNumber ==
  ASSUME NEW T \in SUBSET Nat, T # {}
  PROVE  \E n \in T : \A m \in T : n <= m
<1> DEFINE R == OpToRel(<, Nat)
<1>1. IsWellFoundedOn(R, Nat)
  BY NatLessThanWellFounded
<1>2. \A x, y \in Nat : y < x => <<y, x>> \in R
  BY DEF OpToRel
<1> HIDE DEF R
<1>3. PICK n \in T : \A m \in T : <<m, n>> \notin R
  BY <1>1, WFMin
<1>4. \A m \in T : ~(m < n)
  BY <1>2, <1>3
<1>5. QED BY <1>4

LEMMA CurrentIsRead == ASSUME todo \subseteq Reads, todo # {} PROVE CurrentHook \in todo
<1> DEFINE hooks == {r.hook : r \in todo}
<1>1. hooks \subseteq Nat /\ hooks # {}
  BY DEF Reads, Hooks
<1>2. PICK n \in hooks : \A m \in hooks : n <= m
  BY <1>1, LeastNumber
<1>3. PICK r \in todo : r.hook = n
  BY <1>2
<1>4. QED BY <1>2, <1>3 DEF CurrentHook

LEMMA SameCurrent == ASSUME todo' = todo PROVE CurrentHook' = CurrentHook
BY DEF CurrentHook

\* What the user or a program touches while a hook is being checked marks the check.
LEMMA TouchKeeps ==
  ASSUME HookInv, NEW H, Touch(H), UNCHANGED <<kind, step, todo>>,
         trusted' \in BOOLEAN, config' \in [Hooks -> Contents \cup {Unset}],
         entries' \in [Hooks -> Contents \cup {Unset}], review' \subseteq Reads,
         trusted' # trusted => H = Hooks,
         \A h \in Hooks \ H : config'[h] = config[h] /\ entries'[h] = entries[h]
  PROVE  HookInv'
<1>1. CASE todo # {} /\ CurrentHook.hook \in H
  BY <1>1 DEF HookInv, Touch, AtHook
<1>2. CASE ~(todo # {} /\ CurrentHook.hook \in H)
  <2>1. raced' <=> raced
    BY <1>2 DEF Touch
  <2>2. (todo # {} => CurrentHook.hook \in Hooks) /\ CurrentHook' = CurrentHook
    BY CurrentIsRead DEF HookInv, Reads, CurrentHook
  <2>3. QED BY <1>2, <2>1, <2>2 DEF HookInv, AtHook, Trusts
<1>3. QED BY <1>1, <1>2

LEMMA HookStepsKeep == ASSUME HookInv, Step PROVE HookInv'
<1>1. CASE /\ step' \notin {"recheck", "retrust", "start", "process"} \/ kind # "hook"
           /\ step' = "approval" => kind = "command"
           /\ UNCHANGED <<kind, trusted, config, entries, review, todo>>
  BY <1>1 DEF HookInv, AtHook
<1>2. CASE AskForCommand \/ CommandEnds \/ InspectionEnds
  BY <1>1, <1>2 DEF AskForCommand, CommandEnds, InspectionEnds, Quit,
     Goto, opFrame, hookVars, world
<1>3. CASE RunCommand \/ Inspect \/ InspectFurther
  BY <1>1, <1>3 DEF HookInv, RunCommand, Inspect, InspectFurther,
     RepositoryRoot, SafeConfiguration, Begin, Quit,
     Goto, opFrame, hookVars, world
<1>4. CASE Dispatch \/ DispatchEnds
  BY <1>1, <1>4 DEF Dispatch, DispatchEnds, Return, Goto,
     dispatchFrame, hookVars
<1>5. CASE Discover
  <2>1. Discovered \subseteq Reads
    BY DEF Discovered, HookInv, Reads
  <2>2. /\ todo' \in {todo, Discovered} /\ step' \in {"trust", "done"}
        /\ UNCHANGED <<kind, trusted, config, entries, review>>
    BY <1>5 DEF Discover, HookInv, Return, Goto, dispatchFrame, hookVars
  <2>3. QED BY <2>1, <2>2 DEF HookInv, AtHook
<1>6. CASE KeepTrusted
  BY <1>6 DEF HookInv, AtHook, KeepTrusted, Goto, dispatchFrame
<1>7. CASE NextHook
  BY <1>7 DEF HookInv, AtHook, NextHook, Goto, dispatchFrame, hookVars
<1>8. CASE Recheck
  BY <1>8, SameCurrent DEF HookInv, AtHook, Recheck, Proceed, Goto,
     dispatchFrame, hookVars
<1>9. CASE Retrust
  BY <1>9, SameCurrent DEF HookInv, AtHook, Retrust, Proceed, Goto,
     dispatchFrame, hookVars, Trusts
<1>10. CASE TakeResult
  <2>1. /\ \/ step' = "done" /\ todo' = todo
           \/ step' = "next" /\ todo' = todo \ {CurrentHook}
        /\ todo # {} /\ UNCHANGED <<kind, trusted, config, entries, review>>
    BY <1>10 DEF TakeResult, Goto, dispatchFrame, hookVars, HookInv,
       AtHook
  <2>2. QED BY <2>1 DEF HookInv, AtHook
<1>11. CASE StartHook
  <2>1. /\ step' \in {"process", "done"} /\ AtHook("start")
        /\ UNCHANGED <<kind, trusted, config, entries, review, todo>>
    BY <1>11 DEF StartHook, Begin, Quit, Goto, opFrame,
       hookVars, world
  <2>2. QED BY <2>1 DEF HookInv, AtHook
<1>12. QED BY <1>11, <1>2, <1>3, <1>4, <1>5, <1>6, <1>7, <1>8, <1>9, <1>10 DEF Step

LEMMA HookInvKept == ASSUME HookInv, [HostNext]_hostVars PROVE HookInv'
<1>1. CASE UNCHANGED <<kind, step, trusted, config, entries, review, raced, todo>>
  BY <1>1, SameCurrent DEF HookInv, AtHook, Trusts
<1>2. ASSUME NEW p \in Slots,
             ProcessStep(p) \/ Fork(p) \/ LeaderEnds(p) \/ HelperEnds(p)
      PROVE  HookInv'
  <2>1. CASE PreparationFails(p)
    BY <2>1 DEF PreparationFails, HookInv, AtHook, Goto, opFrame,
       world, hookVars
  <2>2. CASE ~PreparationFails(p)
    BY <1>1, <1>2, <2>2 DEF ProcessStep, Spawn, Fork, LeaderEnds,
       HelperEnds, TimeoutFires, KillFires, Close,
       processFrame, world, hookVars
  <2>3. QED BY <2>1, <2>2
<1>3. CASE Abort \/ UNCHANGED hostVars
  BY <1>1, <1>3 DEF Abort, hostVars, world, hookVars
<1>4. CASE Step
  BY <1>4, HookStepsKeep
<1>5. CASE Leave
  <2>1. Touch({}) /\ UNCHANGED <<kind, step, todo, trusted, config, entries, review>>
    BY <1>5 DEF Leave, opVars, hookVars
  <2>2. QED BY <2>1, TouchKeeps DEF HookInv
<1>6. CASE TrustWorkspace
  <2>1. Touch(Hooks) /\ UNCHANGED <<kind, step, todo, config, entries, review>>
          /\ trusted' \in BOOLEAN
    BY <1>6 DEF TrustWorkspace, opVars, hookVars, HookInv
  <2>2. QED BY <2>1, TouchKeeps DEF HookInv
<1>7. ASSUME NEW h \in Hooks, NEW c \in Contents \cup {Unset},
             EditConfig(h, c) PROVE HookInv'
  <2>1. /\ Touch({h}) /\ UNCHANGED <<kind, step, todo, trusted, entries, review>>
        /\ config' = [config EXCEPT ![h] = c]
    BY <1>7 DEF EditConfig, opVars, hookVars
  <2>2. QED BY <2>1, TouchKeeps DEF HookInv
<1>8. ASSUME NEW h \in Hooks, NEW give \in BOOLEAN, Review(h, give) PROVE HookInv'
  <2>1. UNCHANGED <<kind, step, trusted, config, entries, raced, todo>>
    BY <1>8 DEF Review, opVars, hookVars
  <2>2. review' \subseteq Reads
    BY <1>8 DEF Review, HookInv, Reads
  <2>3. QED BY <2>1, <2>2, SameCurrent DEF HookInv, AtHook, Trusts
<1>9. CASE SaveReview
  <2>1. PICK r \in review : \/ MutateTrust(r)
                            \/ UNCHANGED <<entries, changes, changed, raced>>
    BY <1>9 DEF SaveReview
  <2>2. review' = {} /\ UNCHANGED <<kind, step, todo, trusted, config>>
    BY <1>9 DEF SaveReview, opVars, hookVars
  <2>3. CASE MutateTrust(r)
    <3>1. r \in Reads /\ Touch({r.hook}) /\ entries' = [entries EXCEPT ![r.hook] = r.content]
      BY <2>3 DEF MutateTrust, HookInv
    <3>2. QED BY <2>2, <3>1, TouchKeeps DEF HookInv, Reads
  <2>4. CASE UNCHANGED <<entries, changes, changed, raced>>
    BY <2>2, <2>4, SameCurrent DEF HookInv, AtHook, Trusts
  <2>5. QED BY <2>1, <2>3, <2>4
<1>10. QED BY <1>2, <1>3, <1>4, <1>5, <1>6, <1>7, <1>8, <1>9 DEF HostNext

LEMMA HookInvHolds == HostSpec => []HookInv
<1>1. HostInit => HookInv
  BY DEF HostInit, HookInv, AtHook
<1>2. QED BY <1>1, HookInvKept, PTL DEF HostSpec

\* When a child that was ended by force has closed, nothing of its group is left,
\* for any number of children and any order of timeout, cancellation, kill timer
\* and exit (signalProcessTree and the close handlers of execution.ts and git.ts).
THEOREM NoForcedGroupIsLeft == HostSpec => []ForcedGroupIsGone
<1>1. ProcsInv => ForcedGroupIsGone
  BY DEF ProcsInv, Sound, Forced, ForcedGroupIsGone, Ended
<1>2. QED BY ProcsInvHolds, <1>1, PTL

\* No command and no hook runs on without knowing that its operation was
\* cancelled, even when that happened while its directory was being prepared (execution.ts).
THEOREM ChildrenAreCancelled == HostSpec => []CancellationReachesChildren
<1>1. ProcsInv => CancellationReachesChildren
  BY DEF ProcsInv
<1>2. QED BY ProcsInvHolds, <1>1, PTL

\* A hook starts with the definition its user trusted, in a trusted workspace,
\* unless it was touched while it was being checked (dispatch, hooks.ts).
THEOREM HooksStartTrusted == HostSpec => OnlyTrustedHooksStart
<1>1. HookInv /\ [HostNext]_hostVars =>
        (AtHook("start") /\ step' = "process" =>
           \/ raced
           \/ trusted /\ Trusts(CurrentHook)
             /\ config[CurrentHook.hook] = CurrentHook.content)
  BY DEF HookInv
<1>2. QED BY HookInvHolds, <1>1, PTL DEF HostSpec, OnlyTrustedHooksStart
=============================================================================
