--------------------------- MODULE MCHostProcesses ---------------------------
(* Two hooks, two Git commands side by side, and a few changes from outside. *)
EXTENDS HostProcesses

CONSTANTS c1, c2
MCKinds == {"command", "git", "hook"}
MCContents == {c1, c2}
=============================================================================
