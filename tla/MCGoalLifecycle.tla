-------------------------- MODULE MCGoalLifecycle --------------------------
(* GoalLifecycle with two runs of a goal, one after the other.             *)
EXTENDS GoalLifecycle, TLC

Symmetry == Permutations(Runs) \cup Permutations(Kinds) \cup Permutations(Mutations)
=============================================================================
