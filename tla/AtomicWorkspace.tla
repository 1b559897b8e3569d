-------------------------- MODULE AtomicWorkspace --------------------------
(***************************************************************************)
(* What the mutation service promises its callers: a workspace whose files *)
(* change several at a time, all or nothing, and a log of the applied      *)
(* actions that is undone newest first.  There is no journal, no backup,   *)
(* no failure and no crash here: MutationService has those and implements  *)
(* this module when nothing else edits the files.                          *)
(***************************************************************************)
EXTENDS Naturals

CONSTANTS Paths,       \* workspace files the actions touch
          Images,      \* contents-and-mode pairs a file can have
          Absent,      \* the image of a missing file
          MaxJournals  \* bound on the actions the log can hold

Img == Images \cup {Absent}
Jids == 1 .. MaxJournals
NoImages == [p \in Paths |-> Absent]

\* An action records, for each file it changes, the image it found and the
\* image it leaves; both are Absent for every other file.
Action == [before : [Paths -> Img], after : [Paths -> Img]]
NoAction == [before |-> NoImages, after |-> NoImages]
Changed(a) == {p \in Paths : a.before[p] # a.after[p]}

\* The files after the images of a's changed files are laid over f.
Overlay(f, a, images) == [p \in Paths |-> IF p \in Changed(a) THEN images[p] ELSE f[p]]
Agrees(f, a, images) == \A p \in Changed(a) : f[p] = images[p]

VARIABLES files,  \* the contents of the workspace
          log,    \* "free", "applied" or "undone", for each journal number
          action  \* what the action of that number did (NoAction when free)

vars == <<files, log, action>>

TypeOK == /\ files \in [Paths -> Img]
          /\ log \in [Jids -> {"free", "applied", "undone"}]
          /\ action \in [Jids -> Action]

Init == /\ files \in [Paths -> Img]
        /\ log = [j \in Jids |-> "free"]
        /\ action = [j \in Jids |-> NoAction]

\* j is newer than every action logged so far.
Fresh(j) == \A k \in Jids : k >= j => log[k] = "free"

Apply(j) ==
  /\ Fresh(j)
  /\ log' = [log EXCEPT ![j] = "applied"]
  /\ \E a \in Action : /\ action' = [action EXCEPT ![j] = a]
                       /\ Agrees(files, a, a.before)
                       /\ files' = Overlay(files, a, a.after)

Newest(j) == /\ log[j] = "applied"
             /\ \A k \in Jids : k > j => log[k] # "applied"

Undo(j) ==
  /\ Newest(j)
  /\ log' = [log EXCEPT ![j] = "undone"]
  /\ Agrees(files, action[j], action[j].after)
  /\ files' = Overlay(files, action[j], action[j].before)
  /\ UNCHANGED action

Next == \E j \in Jids : Apply(j) \/ Undo(j)

Spec == Init /\ [][Next]_vars

-----------------------------------------------------------------------------
\* The newest applied action can always be undone: the files it changed are
\* still as it left them, so undoLast never answers UNDO_CONFLICT.
AlwaysUndoable ==
  \A j \in Jids :
    log[j] = "applied" /\ (\A k \in Jids : k > j => log[k] # "applied") =>
      Agrees(files, action[j], action[j].after)
=============================================================================
