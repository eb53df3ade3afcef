----------------------------- MODULE MCDelivery -----------------------------
(* Delivery on a few events, with its requests spelled out; the pipeline does *)
(* not know which of its events the API finds malformed.                      *)
EXTENDS Delivery, TLC

CONSTANTS a, b, c, d

MCRequests == (1 .. MaxFlushes) \X (1 .. MaxRetries)
Symmetry == Permutations(Events \ Malformed)
=============================================================================
