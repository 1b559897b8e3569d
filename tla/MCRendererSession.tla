-------------------------- MODULE MCRendererSession --------------------------
(* Two workspaces, and a few actions of the user between the answers.      *)
EXTENDS RendererSession

CONSTANTS w1, w2
MCWorkspaces == {w1, w2}
MCFirst == w1
=============================================================================
