---------------------------- MODULE MCMcpSessions ---------------------------
(* Revision 1 has a server of the user; 2 also one of the workspace with   *)
(* the same id, which is an error once it is authorized; 3 cannot be       *)
(* parsed.                                                                 *)
EXTENDS McpSessions, TLC

CONSTANTS u, r1, r2

Revisions ==
    1 :> [valid |-> TRUE, user |-> {u}, workspace |-> {}] @@
    2 :> [valid |-> TRUE, user |-> {u}, workspace |-> {u}] @@
    3 :> [valid |-> FALSE, user |-> {}, workspace |-> {}]
=============================================================================
