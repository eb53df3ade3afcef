---------------------------- MODULE EventDelivery ----------------------------
(***************************************************************************)
(* What the pipeline's event delivery promises, without requests, retries, *)
(* transactions or timeouts: events gather in a buffer, a full buffer is   *)
(* sealed as a batch, a sealed batch reaches the database as a whole and   *)
(* at most once, and the buffer is emptied only of events that are stored  *)
(* or that are counted as errors.  A batch that was given up may still be  *)
(* stored later.                                                           *)
(***************************************************************************)
EXTENDS Naturals, Sequences

CONSTANT Events

VARIABLES
  known,      \* events the pipeline has generated
  pending,    \* those in the buffer, in order
  sealed,     \* the batches that were offered to the database
  delivered,  \* events in the database
  failures    \* how many events were given up

vars == <<known, pending, sealed, delivered, failures>>

Elements(s) == {s[i] : i \in DOMAIN s}

Init ==
  /\ known = {}
  /\ pending = <<>>
  /\ sealed = {}
  /\ delivered = {}
  /\ failures = 0

Generate(e) ==
  /\ e \notin known
  /\ known' = known \union {e}
  /\ pending' = Append(pending, e)
  /\ UNCHANGED <<sealed, delivered, failures>>

Seal ==
  /\ pending # <<>>
  /\ sealed' = sealed \union {Elements(pending)}
  /\ UNCHANGED <<known, pending, delivered, failures>>

Deliver(B) ==
  /\ B \intersect delivered = {}
  /\ delivered' = delivered \union B
  /\ UNCHANGED <<known, pending, sealed, failures>>

\* The buffer is emptied: everything in it is in the database ...
Settle ==
  /\ Elements(pending) \in sealed
  /\ Elements(pending) \subseteq delivered
  /\ pending' = <<>>
  /\ UNCHANGED <<known, sealed, delivered, failures>>

\* ... or is counted as lost.
GiveUp ==
  /\ Elements(pending) \in sealed
  /\ failures' = failures + Len(pending)
  /\ pending' = <<>>
  /\ UNCHANGED <<known, sealed, delivered>>

Next ==
  \/ \E e \in Events : Generate(e)
  \/ Seal
  \/ \E B \in sealed : Deliver(B)
  \/ Settle
  \/ GiveUp

Spec == Init /\ [][Next]_vars
=============================================================================
