-------------------------- MODULE MCRunCoordinator --------------------------
(* RunCoordinator with four runs: two of one goal, two of one              *)
(* conversation, and one that shares nothing.                              *)
EXTENDS RunCoordinator

CONSTANTS r1, r2, r3, r4, c1, c2, c3, g1

Conversation == [r \in Runs |-> IF r \in {r1, r3} THEN c1 ELSE IF r = r2 THEN c2 ELSE c3]
Goal == [r \in Runs |-> IF r \in {r1, r2} THEN g1 ELSE NoGoal]
AllOfOneGoal == [m \in Mutations |-> g1]
=============================================================================
