------------------------- MODULE MCMutationService -------------------------
(* Model-checking instances of MutationService. *)
EXTENDS MutationService, TLC

CONSTANTS f1, f2, i1, i2

MCSymmetry == Permutations({f1, f2}) \cup Permutations({i1, i2})
=============================================================================
