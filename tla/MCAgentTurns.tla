---------------------------- MODULE MCAgentTurns ----------------------------
(* Two runs, of two rounds of calls and of one.  A single call is asked for in the text,  *)
(* a batch is a read and an edit, or the same edit twice.                  *)
EXTENDS AgentTurns
MCMaxRounds == <<2, 1>>
MCBatches == {<<"read", "edit">>, <<"edit", "edit">>}
=============================================================================
