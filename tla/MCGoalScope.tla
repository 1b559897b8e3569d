---------------------------- MODULE MCGoalScope ----------------------------
(* GoalScope with two runs over plans of few items and one effect kind.    *)
EXTENDS GoalScope, TLC

Symmetry == Permutations(Items)
=============================================================================
