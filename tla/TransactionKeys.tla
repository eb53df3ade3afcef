--------------------------- MODULE TransactionKeys ---------------------------
(***************************************************************************)
(* How a store and the id of a transaction in that store share the column  *)
(* transaction_id, and how SQL's LIKE finds them there again.  A name is a *)
(* sequence of characters.  LIKE is PostgreSQL's, with its default escape. *)
(***************************************************************************)
EXTENDS Naturals, Sequences, FiniteSets

Separator == "|"     \* STORE_ID_SEPARATOR
AnyChar == "_"       \* what LIKE takes for any character ...
AnyRun == "%"        \* ... for any number of characters ...
Escape == "\\"       \* ... and for a mark that the next one stands for itself

\* _encode_stored_transaction_id
Encode(s, id) == s \o <<Separator>> \o id

\* (mutation) The place of the last separator.
SplitLast(key) ==
  CHOOSE i \in DOMAIN key :
    key[i] = Separator /\ \A j \in i + 1 .. Len(key) : key[j] # Separator

\* The place of the first separator of a key that has one.
Split(key) ==
  CHOOSE i \in DOMAIN key : key[i] = Separator /\ \A j \in 1 .. i - 1 : key[j] # Separator

\* _decode_stored_transaction_id, of a key that Encode made.
Decode(key) ==
  [store |-> SubSeq(key, 1, Split(key) - 1), id |-> SubSeq(key, Split(key) + 1, Len(key))]

\* What a row found by a business id must end with.
Suffix(id) == <<Separator>> \o id

EndsWith(key, end) ==
  Len(end) <= Len(key) /\ SubSeq(key, Len(key) - Len(end) + 1, Len(key)) = end

\* The places of a pattern that an escape precedes which is not escaped itself: those
\* behind an odd number of escapes.
Escaped(pattern) ==
  {j \in DOMAIN pattern :
     \E n \in 1 .. j - 1 :
       /\ n % 2 = 1
       /\ \A i \in j - n .. j - 1 : pattern[i] = Escape
       /\ j - n > 1 => pattern[j - n - 1] # Escape}

\* The places where character c has its special meaning.
Special(c, pattern) == {j \in DOMAIN pattern : pattern[j] = c} \ Escaped(pattern)

\* The pattern ends with an escape that has nothing to escape.
Dangling(pattern) == Len(pattern) \in Special(Escape, pattern)

\* key LIKE pattern: every character of the key is taken by a place of the pattern, in
\* their order.  A run takes any number of characters, an escape none, and every other
\* place precisely one, which is its own one if the place is not AnyChar.
Like(key, pattern) ==
  LET runs == Special(AnyRun, pattern)
      places == DOMAIN pattern \ Special(Escape, pattern)
  IN /\ ~Dangling(pattern)
     /\ \E at \in [DOMAIN key -> places] :
          /\ \A i \in DOMAIN key :
               at[i] \in runs \union Special(AnyChar, pattern) \/ pattern[at[i]] = key[i]
          /\ \A i, j \in DOMAIN key : i < j => at[i] < at[j] \/ (at[i] = at[j] /\ at[i] \in runs)
          /\ \A p \in places \ runs : \E i \in DOMAIN key : at[i] = p

\* The pattern breaks: the database comes to its end with a part of the key
\* left: LIKE pattern must not end with escape character.
Breaks(key, pattern) ==
  Dangling(pattern) /\ Like(key, SubSeq(pattern, 1, Len(pattern) - 1) \o <<AnyChar, AnyRun>>)

\* The pattern for a business id: the id is not escaped in it ...
IdPattern(id) == <<AnyRun>> \o Suffix(id)

\* ... nor is the name of the store in that for a listing.
StorePattern(s) == s \o <<Separator, AnyRun>>
=============================================================================
