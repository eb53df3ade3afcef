----------------------------- MODULE MCIngestApi -----------------------------
(* IngestApi on small sets of events and requests, both of them numbers.  The *)
(* requests are alike, so it is enough to look at the behaviours in which     *)
(* their batches are in order; this takes the place of a symmetry set, which  *)
(* liveness does not allow.                                                   *)
EXTENDS IngestApi

ASSUME OrderAssumption == MaxBatch = 2 /\ Events \subseteq 1 .. 3 /\ Requests \subseteq Nat

Rank(b) == 4 * b[1] + (IF Len(b) = 2 THEN b[2] ELSE 0)
Ordered ==
  \A q, r \in {p \in Requests : phase[p] # "unsent"} : q < r => Rank(batch[q]) <= Rank(batch[r])

MCNext ==
  \/ Serve
  \/ \E r \in Requests, b \in Batches : Send(r, b) /\ Ordered'
  \/ \E r \in Requests, b \in Batches : Create(r, b) /\ Ordered'

MCSpec == ApiInit /\ [][MCNext]_apiVars /\ ApiFairness
=============================================================================
