--------------------------- MODULE MCMutationQueue --------------------------
(* Small instances of MutationQueue for TLC.                                *)
EXTENDS MutationQueue, TLC

CONSTANTS m1, m2, m3

MCMutation == {m1, m2, m3}

MCSymmetry == Permutations(MCMutation)
=============================================================================
