-------------------------- MODULE MCConversationStore --------------------------
(* Two runs in two conversations, the first of which an earlier version may have left. *)
EXTENDS ConversationStore, TLC
Symmetry == Permutations(Conversations)
===============================================================================
