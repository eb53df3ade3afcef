--------------------------- MODULE MCBillingPipeline ---------------------------
(* BillingPipeline on a few tracks. *)
EXTENDS BillingPipeline, TLC

CONSTANTS t1, t2, t3

Symmetry == Permutations(Tracks)
=============================================================================
