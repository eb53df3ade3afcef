---------------------------- MODULE MCTransactions ----------------------------
(* Transactions with ids that LIKE takes for each other, one that it does not  *)
(* take for itself, one that breaks it, an id and a store that contain the     *)
(* separator, a key that is too long for the column, and an item that is       *)
(* refused by the schema.                                                      *)
EXTENDS Transactions, TLC

CONSTANTS r1, r2, g1
Symmetry == Permutations({r1, r2})

S == <<"s">>
Bad == [store |-> S, id |-> <<"b">>]
MCItems ==
  { Bad,
    [store |-> S, id |-> <<"a", "_">>],
    [store |-> S, id |-> <<"a", "b">>],
    [store |-> S, id |-> <<"|", "a">>],
    [store |-> S, id |-> <<"a", "\\", "b">>],
    [store |-> <<"s", "|", "|">>, id |-> <<"a", "\\">>] }
MCKeys == {Encode(p.store, p.id) : p \in MCItems}
MCMalformed == {Encode(Bad.store, Bad.id)}

\* LIKE as the database computes it, from left to right.
Matched(key, pattern) ==
  LET from[i \in 1 .. Len(key) + 1, j \in 1 .. Len(pattern) + 1] ==
        CASE j > Len(pattern) -> i > Len(key)
          [] j <= Len(pattern) /\ pattern[j] = AnyRun ->
               from[i, j + 1] \/ (i <= Len(key) /\ from[i + 1, j])
          [] j <= Len(pattern) /\ pattern[j] = Escape ->
               /\ j < Len(pattern) /\ i <= Len(key)
               /\ pattern[j + 1] = key[i] /\ from[i + 1, j + 2]
          [] OTHER ->
               i <= Len(key) /\ pattern[j] \in {AnyChar, key[i]} /\ from[i + 1, j + 1]
  IN from[1, 1]

Words(chars, n) == UNION {[1 .. m -> chars] : m \in 0 .. n}

\* Like is what the database computes.
ASSUME LikeAssumption ==
  \A key \in Words({"a", AnyRun, Escape}, 3), pattern \in Words({"a", AnyChar, AnyRun, Escape}, 4) :
    Like(key, pattern) <=> Matched(key, pattern)
=============================================================================
