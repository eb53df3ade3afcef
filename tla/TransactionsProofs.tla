------------------------- MODULE TransactionsProofs -------------------------
(***************************************************************************)
(* Proofs about Transactions, for all items, any number of requests and    *)
(* readers, any length of the column and any page size.                    *)
(***************************************************************************)
EXTENDS Transactions, IngestApiProofs, FiniteSetTheorems

-----------------------------------------------------------------------------
(* The keys *)

\* The characters of a key.
Chars == STRING \union {Separator, AnyRun}

\* The members of a concatenation.
LEMMA Concat ==
  ASSUME NEW C, NEW a \in Seq(C), NEW b \in Seq(C)
  PROVE  /\ a \o b \in Seq(C)
         /\ Len(a \o b) = Len(a) + Len(b)
         /\ \A j \in 1 .. Len(a) : (a \o b)[j] = a[j]
         /\ \A j \in 1 .. Len(b) : (a \o b)[Len(a) + j] = b[j]
<1>1. PICK n \in Nat : n = Len(a) /\ DOMAIN a = 1 .. n
  OBVIOUS
<1>2. PICK m \in Nat : m = Len(b) /\ DOMAIN b = 1 .. m
  OBVIOUS
<1>3. a \o b \in Seq(C) /\ Len(a \o b) = Len(a) + Len(b)
  OBVIOUS
<1>4. \A j \in 1 .. n + m : (a \o b)[j] = IF j <= n THEN a[j] ELSE b[j - n]
  BY <1>1, <1>2
<1>5. \A j \in 1 .. n : j \in 1 .. n + m /\ j <= n
  BY <1>2
<1>6. \A j \in 1 .. m : n + j \in 1 .. n + m /\ ~(n + j <= n) /\ (n + j) - n = j
  BY <1>1
<1>7. QED
  BY <1>1, <1>2, <1>3, <1>4, <1>5, <1>6

\* A key is its store, the separator and its id.
LEMMA KeyParts ==
  ASSUME NEW s \in Seq(STRING), NEW d \in Seq(STRING)
  PROVE  /\ Encode(s, d) \in Seq(Chars)
         /\ Len(Encode(s, d)) = Len(s) + 1 + Len(d)
         /\ \A j \in 1 .. Len(s) : Encode(s, d)[j] = s[j]
         /\ Encode(s, d)[Len(s) + 1] = Separator
         /\ \A j \in 1 .. Len(d) : Encode(s, d)[Len(s) + 1 + j] = d[j]
<1>1. PICK C : C = Chars
  OBVIOUS
<1>2. s \in Seq(C) /\ d \in Seq(C) /\ Separator \in C
  BY <1>1 DEF Chars
<1>3. PICK c : c = Separator
  OBVIOUS
<1>4. <<c>> \in Seq(C) /\ Len(<<c>>) = 1 /\ <<c>>[1] = c
  BY <1>2, <1>3
<1>5. PICK h : h = s \o <<c>>
  OBVIOUS
<1>6. /\ h \in Seq(C) /\ Len(h) = Len(s) + 1 /\ h[Len(s) + 1] = c
      /\ \A j \in 1 .. Len(s) : h[j] = s[j]
  BY <1>2, <1>4, <1>5
<1>7. PICK k : k = h \o d
  OBVIOUS
<1>8. /\ k \in Seq(C) /\ Len(k) = Len(h) + Len(d)
      /\ \A j \in 1 .. Len(h) : k[j] = h[j]
      /\ \A j \in 1 .. Len(d) : k[Len(h) + j] = d[j]
  <2>1. h \in Seq(C) /\ d \in Seq(C)
    BY <1>2, <1>6
  <2>2. /\ h \o d \in Seq(C) /\ Len(h \o d) = Len(h) + Len(d)
        /\ \A j \in 1 .. Len(h) : (h \o d)[j] = h[j]
        /\ \A j \in 1 .. Len(d) : (h \o d)[Len(h) + j] = d[j]
    BY <2>1, Concat
  <2>3. QED
    BY <1>7, <2>2
<1>9. k = Encode(s, d)
  BY <1>3, <1>5, <1>7 DEF Encode
<1>10. PICK n \in Nat : n = Len(s)
  OBVIOUS
<1>11. PICK m \in Nat : m = Len(d)
  OBVIOUS
<1>12. Len(k) = n + 1 + m
  BY <1>6, <1>8, <1>10, <1>11
<1>13. \A j \in 1 .. n : k[j] = s[j]
  BY <1>6, <1>8, <1>10
<1>14. k[n + 1] = c
  BY <1>6, <1>8, <1>10
<1>15. \A j \in 1 .. m : k[n + 1 + j] = d[j]
  BY <1>6, <1>8, <1>10, <1>11
<1>16. QED
  BY <1>1, <1>3, <1>8, <1>9, <1>10, <1>11, <1>12, <1>13, <1>14, <1>15

\* Decode takes a key apart where Encode has put it together, if the name of the
\* store has no separator.
LEMMA DecodeEncode ==
  ASSUME NEW s \in Seq(STRING), NEW d \in Seq(STRING),
         \A j \in 1 .. Len(s) : s[j] # Separator
  PROVE  Decode(Encode(s, d)) = [store |-> s, id |-> d]
<1>1. PICK k : k = Encode(s, d)
  OBVIOUS
<1>2. PICK n \in Nat : n = Len(s)
  OBVIOUS
<1>3. PICK m \in Nat : m = Len(d)
  OBVIOUS
<1>4. PICK C : C = Chars
  OBVIOUS
<1>5. /\ k \in Seq(C) /\ Len(k) = n + 1 + m
      /\ \A j \in 1 .. n : k[j] = s[j]
      /\ k[n + 1] = Separator
      /\ \A j \in 1 .. m : k[n + 1 + j] = d[j]
  BY <1>1, <1>2, <1>3, <1>4, KeyParts
<1>6. DOMAIN k = 1 .. n + 1 + m
  BY <1>5
<1>7. Split(k) = n + 1
  <2>1. n + 1 \in DOMAIN k /\ k[n + 1] = Separator
    BY <1>5, <1>6
  <2>2. \A j \in 1 .. (n + 1) - 1 : k[j] # Separator
    BY <1>2, <1>5
  <2>3. ASSUME NEW i \in DOMAIN k, k[i] = Separator, \A j \in 1 .. i - 1 : k[j] # Separator
        PROVE  i = n + 1
    <3>1. ~(i \in 1 .. n)
      BY <1>2, <1>5, <2>3
    <3>2. ~(n + 1 \in 1 .. i - 1)
      BY <1>5, <2>3
    <3>3. QED
      BY <1>6, <2>3, <3>1, <3>2
  <2>4. QED
    BY <2>1, <2>2, <2>3 DEF Split
<1>8. SubSeq(k, 1, (n + 1) - 1) = s
  <2>1. PICK u : u = SubSeq(k, 1, n)
    OBVIOUS
  <2>2. u = [j \in 1 .. n |-> k[j]]
    BY <1>5, <2>1
  <2>3. s = [j \in 1 .. n |-> s[j]]
    BY <1>2
  <2>4. [j \in 1 .. n |-> k[j]] = [j \in 1 .. n |-> s[j]]
    BY <1>5
  <2>5. QED
    BY <2>1, <2>2, <2>3, <2>4
<1>9. SubSeq(k, (n + 1) + 1, Len(k)) = d
  <2>1. PICK u : u = SubSeq(k, n + 2, n + 1 + m)
    OBVIOUS
  <2>2. u \in Seq(C) /\ Len(u) = m /\ \A j \in 1 .. m : u[j] = k[n + 1 + j]
    BY <1>5, <2>1
  <2>3. \A j \in 1 .. m : u[j] = d[j]
    BY <1>5, <2>2
  <2>4. u = [j \in 1 .. m |-> u[j]] /\ d = [j \in 1 .. m |-> d[j]]
    BY <1>3, <2>2
  <2>5. [j \in 1 .. m |-> u[j]] = [j \in 1 .. m |-> d[j]]
    BY <2>3
  <2>6. (n + 1) + 1 = n + 2
    OBVIOUS
  <2>7. QED
    BY <1>5, <2>1, <2>4, <2>5, <2>6
<1>10. QED
  BY <1>1, <1>7, <1>8, <1>9 DEF Decode

\* The pattern for an id without escapes has none, so that nothing is escaped in it.
LEMMA IdPatternParts ==
  ASSUME NEW C, AnyRun \in C, Separator \in C, NEW id \in Seq(C), Escape \notin {id[i] : i \in DOMAIN id}
  PROVE  LET P == IdPattern(id)
             E == Suffix(id)
         IN /\ E \in Seq(C) /\ Len(E) = 1 + Len(id)
            /\ DOMAIN P = 1 .. 2 + Len(id) /\ P[1] = AnyRun
            /\ \A j \in 1 .. Len(E) : P[1 + j] = E[j]
            /\ Special(Escape, P) = {} /\ 1 \in Special(AnyRun, P)
            /\ ~Dangling(P)
<1>1. PICK c : c = Separator
  OBVIOUS
<1>2. PICK w : w = AnyRun
  OBVIOUS
<1>3. PICK e : e = Escape
  OBVIOUS
<1>4. c \in C /\ w \in C /\ e # c /\ e # w
  BY <1>1, <1>2, <1>3 DEF Escape, Separator, AnyRun
<1>5. PICK n \in Nat : n = Len(id) /\ DOMAIN id = 1 .. n
  OBVIOUS
<1>6. <<c>> \in Seq(C) /\ Len(<<c>>) = 1 /\ <<c>>[1] = c
  BY <1>4
<1>7. <<w>> \in Seq(C) /\ Len(<<w>>) = 1 /\ <<w>>[1] = w
  BY <1>4
<1>8. PICK E : E = Suffix(id)
  OBVIOUS
<1>9. E = <<c>> \o id
  BY <1>1, <1>8 DEF Suffix
<1>10. /\ E \in Seq(C) /\ Len(E) = 1 + n /\ E[1] = c
       /\ \A j \in 1 .. n : E[1 + j] = id[j]
  <2>1. /\ E \in Seq(C) /\ Len(E) = Len(<<c>>) + Len(id)
        /\ \A j \in 1 .. Len(<<c>>) : E[j] = <<c>>[j]
        /\ \A j \in 1 .. Len(id) : E[Len(<<c>>) + j] = id[j]
    BY <1>6, <1>9, Concat
  <2>2. QED
    BY <1>5, <1>6, <2>1
<1>11. PICK P : P = IdPattern(id)
  OBVIOUS
<1>12. P = <<w>> \o E
  BY <1>2, <1>8, <1>11 DEF IdPattern
<1>13. /\ P \in Seq(C) /\ Len(P) = 2 + n /\ P[1] = w
       /\ \A j \in 1 .. 1 + n : P[1 + j] = E[j]
  <2>1. /\ P \in Seq(C) /\ Len(P) = Len(<<w>>) + Len(E)
        /\ \A j \in 1 .. Len(<<w>>) : P[j] = <<w>>[j]
        /\ \A j \in 1 .. Len(E) : P[Len(<<w>>) + j] = E[j]
    BY <1>7, <1>10, <1>12, Concat
  <2>2. Len(<<w>>) = 1 /\ <<w>>[1] = w
    BY <1>7
  <2>3. QED
    BY <1>10, <2>1, <2>2
<1>14. DOMAIN P = 1 .. 2 + n
  BY <1>13
<1>15. \A j \in DOMAIN P : P[j] # e
  <2>1. \A j \in 1 .. n : id[j] # e
    BY <1>3, <1>5
  <2>2. \A j \in 1 .. 1 + n : E[j] # e
    <3>1. SUFFICES ASSUME NEW j \in 1 .. 1 + n, j # 1
                   PROVE  E[j] # e
      BY <1>4, <1>10
    <3>2. j - 1 \in 1 .. n /\ 1 + (j - 1) = j
      BY <3>1
    <3>3. QED
      BY <1>10, <2>1, <3>2
  <2>3. SUFFICES ASSUME NEW j \in 1 .. 2 + n, j # 1
                 PROVE  P[j] # e
    BY <1>4, <1>13, <1>14
  <2>4. j - 1 \in 1 .. 1 + n /\ 1 + (j - 1) = j
    BY <2>3
  <2>5. QED
    BY <1>13, <2>2, <2>4
<1>16. Escaped(P) = {}
  <2>1. SUFFICES ASSUME NEW j \in DOMAIN P, NEW l \in 1 .. j - 1, \A i \in j - l .. j - 1 : P[i] = Escape
                 PROVE  FALSE
    BY DEF Escaped
  <2>2. j \in 1 .. 2 + n
    BY <1>14
  <2>3. j - 1 \in j - l .. j - 1 /\ j - 1 \in 1 .. 2 + n
    BY <2>1, <2>2
  <2>4. QED
    BY <1>3, <1>14, <1>15, <2>1, <2>3
<1>17. Special(Escape, P) = {}
  BY <1>3, <1>15 DEF Special
<1>18. 1 \in Special(AnyRun, P)
  <2>1. 1 \in DOMAIN P
    BY <1>14
  <2>2. QED
    BY <1>2, <1>13, <1>16, <2>1 DEF Special
<1>19. ~Dangling(P)
  BY <1>17 DEF Dangling
<1>20. QED
  BY <1>2, <1>5, <1>8, <1>10, <1>11, <1>13, <1>14, <1>17, <1>18, <1>19

\* LIKE finds at least what ends precisely like the id, if that has no escapes.
LEMMA EndsWithIsLike ==
  ASSUME NEW C, AnyRun \in C, Separator \in C,
         NEW id \in Seq(C), Escape \notin {id[i] : i \in DOMAIN id},
         NEW k \in Seq(C), EndsWith(k, Suffix(id))
  PROVE  Like(k, IdPattern(id))
<1>1. PICK n \in Nat : n = Len(id)
  OBVIOUS
<1>2. PICK P : P = IdPattern(id)
  OBVIOUS
<1>3. PICK E : E = Suffix(id)
  OBVIOUS
<1>4. /\ E \in Seq(C) /\ Len(E) = 1 + n
      /\ DOMAIN P = 1 .. 2 + n /\ P[1] = AnyRun
      /\ \A j \in 1 .. 1 + n : P[1 + j] = E[j]
      /\ Special(Escape, P) = {} /\ 1 \in Special(AnyRun, P)
      /\ ~Dangling(P)
  BY <1>1, <1>2, <1>3, IdPatternParts
<1>5. PICK m \in Nat : m = Len(k) /\ DOMAIN k = 1 .. m
  OBVIOUS
<1>6. 1 + n <= m /\ SubSeq(k, m - (1 + n) + 1, m) = E
  BY <1>3, <1>4, <1>5 DEF EndsWith
<1>7. PICK o \in Nat : o = m - (1 + n)
  BY <1>6
<1>8. m = o + (1 + n)
  BY <1>7
<1>9. \A j \in 1 .. 1 + n : k[o + j] = E[j]
  <2>1. PICK u : u = SubSeq(k, o + 1, m)
    OBVIOUS
  <2>2. u = E
    BY <1>6, <1>7, <2>1
  <2>3. \A j \in 1 .. 1 + n : u[j] = k[o + j]
    BY <1>5, <1>8, <2>1
  <2>4. QED
    BY <2>2, <2>3
<1>10. PICK at : at = [i \in 1 .. m |-> IF i <= o THEN 1 ELSE i - o + 1]
  OBVIOUS
<1>11. \A i \in 1 .. o : i \in 1 .. m /\ at[i] = 1
  BY <1>8, <1>10
<1>12. \A i \in o + 1 .. m : i \in 1 .. m /\ at[i] = i - o + 1 /\ at[i] \in 2 .. 2 + n
  BY <1>8, <1>10
<1>13. \A i \in 1 .. m : i \in 1 .. o \/ i \in o + 1 .. m
  OBVIOUS
<1>14. at \in [DOMAIN k -> DOMAIN P]
  <2>1. \A i \in 1 .. m : at[i] \in 1 .. 2 + n
    BY <1>11, <1>12, <1>13
  <2>2. QED
    BY <1>4, <1>5, <1>10, <2>1
<1>15. ASSUME NEW i \in DOMAIN k
       PROVE  at[i] \in Special(AnyRun, P) \/ P[at[i]] = k[i]
  <2>1. CASE i \in 1 .. o
    BY <1>4, <1>11, <2>1
  <2>2. CASE i \in o + 1 .. m
    <3>1. PICK j \in 1 .. 1 + n : j = i - o
      BY <1>8, <2>2
    <3>2. at[i] = 1 + j /\ i = o + j
      BY <1>12, <2>2, <3>1
    <3>3. QED
      BY <1>4, <1>9, <3>2
  <2>3. QED
    BY <1>5, <1>13, <2>1, <2>2
<1>16. ASSUME NEW i \in DOMAIN k, NEW j \in DOMAIN k, i < j
       PROVE  at[i] < at[j] \/ (at[i] = at[j] /\ at[i] \in Special(AnyRun, P))
  <2>1. i \in 1 .. m /\ j \in 1 .. m
    BY <1>5
  <2>2. CASE j \in 1 .. o
    <3>1. i \in 1 .. o
      BY <1>16, <2>1, <2>2
    <3>2. QED
      BY <1>4, <1>11, <2>2, <3>1
  <2>3. CASE j \in o + 1 .. m /\ i \in 1 .. o
    BY <1>11, <1>12, <2>3
  <2>4. CASE j \in o + 1 .. m /\ i \in o + 1 .. m
    BY <1>12, <1>16, <2>4
  <2>5. QED
    BY <1>13, <2>1, <2>2, <2>3, <2>4
<1>17. ASSUME NEW p \in DOMAIN P \ Special(AnyRun, P)
       PROVE  \E i \in DOMAIN k : at[i] = p
  <2>1. p \in 1 .. 2 + n /\ p # 1
    BY <1>4
  <2>2. PICK i : i = o + (p - 1)
    OBVIOUS
  <2>3. i \in o + 1 .. m /\ i - o + 1 = p
    BY <1>8, <2>1, <2>2
  <2>4. i \in 1 .. m /\ at[i] = p
    BY <1>12, <2>3
  <2>5. QED
    BY <1>5, <2>4
<1>18. DOMAIN P \ Special(Escape, P) = DOMAIN P
  BY <1>4
<1>19. Like(k, P)
  <2>1. at \in [DOMAIN k -> DOMAIN P \ Special(Escape, P)]
    BY <1>14, <1>18
  <2>2. \A i \in DOMAIN k :
          at[i] \in Special(AnyRun, P) \union Special(AnyChar, P) \/ P[at[i]] = k[i]
    BY <1>15
  <2>3. \A i, j \in DOMAIN k :
          i < j => at[i] < at[j] \/ (at[i] = at[j] /\ at[i] \in Special(AnyRun, P))
    BY <1>16
  <2>4. \A p \in (DOMAIN P \ Special(Escape, P)) \ Special(AnyRun, P) :
          \E i \in DOMAIN k : at[i] = p
    BY <1>17, <1>18
  <2>5. ~Dangling(P)
    BY <1>4
  <2>6. QED
    BY <2>1, <2>2, <2>3, <2>4, <2>5, Zenon DEF Like
<1>20. QED
  BY <1>2, <1>19

-----------------------------------------------------------------------------
(* The requests *)

\* The posts that a request carries are its batch; before its last item is checked
\* one is left to be asked for.
Carried ==
  \A r \in Requests :
    /\ DOMAIN batch[r] = DOMAIN posted[r]
    /\ \A i \in DOMAIN posted[r] : batch[r][i] = Encode(posted[r][i].store, posted[r][i].id)
    /\ phase[r] = "unsent" => checked[r] = 0
    /\ phase[r] = "sent" => checked[r] < Len(batch[r])

RequestsInd ==
  /\ ApiInv
  /\ posted \in [Requests -> Seq(Items)]
  /\ checked \in [Requests -> Nat]
  /\ Carried
  /\ Checks
  /\ IsFiniteSet(store)

\* A batch has finitely many ids.
LEMMA FiniteIds ==
  ASSUME ApiInv, NEW r \in Requests
  PROVE  IsFiniteSet(Ids(r)) /\ NewIds(r) \subseteq Ids(r)
<1>1. PICK b \in Seq(Events) : b = batch[r]
  BY DEF ApiInv, ApiTypeOK
<1>2. PICK n \in Nat : DOMAIN b = 1 .. n
  BY <1>1
<1>3. b \in Surjection(1 .. n, Ids(r))
  BY <1>1, <1>2 DEF Ids, Surjection
<1>4. IsFiniteSet(1 .. n)
  BY FS_Interval
<1>5. NewIds(r) \subseteq Ids(r)
  BY DEF NewIds, Ids, ApiInv, Positions
<1>6. QED
  BY <1>3, <1>4, <1>5, FS_Surjection

\* Keys of items are what clients send.
LEMMA PostsAreBatches ==
  ASSUME NEW ps \in Posts
  PROVE  /\ [i \in DOMAIN ps |-> Encode(ps[i].store, ps[i].id)] \in Batches
         /\ ps \in Seq(Items) /\ Len(ps) \in Nat \ {0} /\ DOMAIN ps = 1 .. Len(ps)
<1>1. PICK n \in 1 .. MaxBatch : ps \in [1 .. n -> Items]
  BY DEF Posts
<1>2. n \in Nat \ {0}
  BY MaxBatchAssumption
<1>3. ps \in Seq(Items) /\ Len(ps) = n /\ DOMAIN ps = 1 .. n
  BY <1>1, <1>2
<1>4. \A i \in 1 .. n : Encode(ps[i].store, ps[i].id) \in Events
  BY <1>1, KeysAssumption DEF Keys
<1>5. [i \in DOMAIN ps |-> Encode(ps[i].store, ps[i].id)] \in [1 .. n -> Events]
  BY <1>3, <1>4
<1>6. QED
  BY <1>2, <1>3, <1>5 DEF Batches

\* What the writes share with the events API are steps of that API.
LEMMA ApiSteps ==
  ASSUME ApiInv
  PROVE  /\ \A r \in Requests, ps \in Posts : Post(r, ps) => ApiNext
         /\ \A r \in Requests : Write(r) => Handle(r) \/ Fail(r)
         /\ Restart => Crash
<1>1. ASSUME NEW r \in Requests, NEW ps \in Posts, Post(r, ps)
      PROVE  ApiNext
  BY <1>1, PostsAreBatches DEF Post, ApiNext
<1>2. ASSUME NEW r \in Requests, Write(r)
      PROVE  Handle(r) \/ Fail(r)
  <2>1. TooLong(r) => phase[r] = "inserting"
    BY DEF TooLong, NextRow
  <2>2. QED
    BY <1>2, <2>1 DEF Write, Handle, Fail, DbError
<1>3. QED
  BY <1>1, <1>2 DEF Restart

\* Asking for an item moves nothing but the request itself, which may begin to insert.
LEMMA CheckApiInv ==
  ASSUME ApiInv, NEW r \in Requests, Check(r)
  PROVE  ApiInv'
<1> USE DEF ApiInv
<1>1. phase[r] = "sent" /\ UNCHANGED <<store, batch, held, reply>>
  BY DEF Check, Checking
<1>2. CASE UNCHANGED <<phase, fresh, todo>>
  BY <1>1, <1>2, ApiNextInv DEF apiVars
<1>3. CASE /\ phase' = [phase EXCEPT ![r] = "inserting"]
           /\ fresh' = [fresh EXCEPT ![r] = DOMAIN batch[r]]
           /\ todo' = [todo EXCEPT ![r] = DOMAIN batch[r]]
  <2>1. DOMAIN batch[r] \subseteq Nat
    BY DEF ApiTypeOK
  <2>2. ApiTypeOK'
    BY <1>1, <1>3, <2>1 DEF ApiTypeOK, Phases
  <2>3. Positions' /\ Untouched' /\ HeldRows'
    BY <1>1, <1>3 DEF ApiTypeOK, Positions, Untouched, HeldRows
  <2>4. InsertedBeforeReply' /\ KeysExclusive' /\ SkippedIsStored'
    BY <1>1, <1>3 DEF ApiTypeOK, Untouched, InsertedBeforeReply, KeysExclusive, SkippedIsStored, Open
  <2>5. QED
    BY <2>2, <2>3, <2>4
<1>4. QED
  BY <1>2, <1>3 DEF Check

\* A refusal undoes nothing.
LEMMA RefuseApiInv ==
  ASSUME ApiInv, NEW r \in Requests, Refuse(r)
  PROVE  ApiInv'
  BY RollbackInv DEF Refuse, Checking, ErrorReplies

\* The rows of IngestApi stay in order, and the table only grows.
LEMMA ApiKept ==
  ASSUME ApiInv, [Next]_vars
  PROVE  ApiInv' /\ store \subseteq store' /\ (IsFiniteSet(store) => IsFiniteSet(store'))
<1>1. ASSUME [ApiNext]_apiVars
      PROVE  ApiInv' /\ store \subseteq store' /\ (IsFiniteSet(store) => IsFiniteSet(store'))
  <2>1. ApiInv'
    BY <1>1, ApiNextInv
  <2>2. CASE store' = store
    BY <2>1, <2>2
  <2>3. ASSUME NEW r \in Requests, store' = store \union NewIds(r)
        PROVE  store \subseteq store' /\ (IsFiniteSet(store) => IsFiniteSet(store'))
    <3>1. IsFiniteSet(NewIds(r))
      BY FiniteIds, FS_Subset
    <3>2. QED
      BY <2>3, <3>1, FS_Union
  <2>4. QED
    BY <1>1, <2>1, <2>2, <2>3, StoreSteps
<1>2. ASSUME NEW r \in Requests, Check(r) \/ Refuse(r)
      PROVE  ApiInv' /\ store' = store
  BY <1>2, CheckApiInv, RefuseApiInv DEF Check, Refuse, Rollback
<1>3. ASSUME NEW g \in Readers,
             \/ \E id \in Asks : Get(g, id)
             \/ GetAgain(g)
             \/ \E s \in Stores : List(g, s)
             \/ ListTotal(g)
      PROVE  UNCHANGED apiVars
  BY <1>3 DEF Get, GetAgain, List, ListTotal
<1>4. QED
  BY <1>1, <1>2, <1>3, ApiSteps DEF Next, vars, ApiNext, Serve

\* Once its items are checked, a request keeps what it carries, and it is not opened
\* or refused any more.
LEMMA WritesKeep ==
  ASSUME ApiInv, Restart \/ \E r \in Requests : Write(r)
  PROVE  /\ UNCHANGED <<batch, fresh, posted, checked>>
         /\ \A q \in Requests :
              /\ Open(q)' => Open(q)
              /\ phase'[q] \in {"unsent", "sent"} => phase'[q] = phase[q]
              /\ reply'[q] = "refused" => reply[q] = "refused"
<1> USE DEF ApiInv, ApiTypeOK
<1>1. CASE Restart
  BY <1>1 DEF Restart, Crash, Open
<1>2. ASSUME NEW r \in Requests, Write(r)
      PROVE  /\ UNCHANGED <<batch, fresh, posted, checked>>
             /\ \A q \in Requests :
                  /\ Open(q)' => Open(q)
                  /\ phase'[q] \in {"unsent", "sent"} => phase'[q] = phase[q]
                  /\ reply'[q] = "refused" => reply[q] = "refused"
  <2>1. UNCHANGED <<posted, checked>>
    BY <1>2 DEF Write
  <2>2. CASE InsertRow(r)
    BY <2>1, <2>2 DEF InsertRow, Open
  <2>3. CASE Reject(r) \/ Lose(r)
    BY <2>1, <2>3 DEF Reject, Lose, Open
  <2>4. CASE Commit(r) \/ CommitUnknown(r)
    BY <2>1, <2>4 DEF Commit, CommitUnknown, CommitPoint, Flushed, Open
  <2>5. CASE Respond(r)
    BY <2>1, <2>5 DEF Respond, Flushed, Open
  <2>6. CASE \E why \in {"conflict", "deadlock", "failed"} : Rollback(r, why)
    BY <2>1, <2>6 DEF Rollback, Open
  <2>7. QED
    BY <1>2, <2>2, <2>3, <2>4, <2>5, <2>6 DEF Write, Fail, Conflict, DeadlockAbort, DbError
<1>3. QED
  BY <1>1, <1>2

\* Nothing was posted at the start.
LEMMA RequestsStart == Init => RequestsInd
<1> SUFFICES ASSUME Init PROVE RequestsInd
  OBVIOUS
<1>1. ApiInv /\ store = {}
  BY ApiInitInv DEF Init, ApiInit
<1>2. posted \in [Requests -> Seq(Items)] /\ checked \in [Requests -> Nat]
  BY DEF Init
<1>3. \A r \in Requests : /\ phase[r] = "unsent" /\ reply[r] = "none" /\ fresh[r] = {} /\ checked[r] = 0
                          /\ batch[r] = <<>> /\ posted[r] = <<>>
  BY DEF Init, ApiInit
<1>4. DOMAIN <<>> = {} /\ Len(<<>>) = 0
  OBVIOUS
<1>5. Carried
  BY <1>3, <1>4 DEF Carried
<1>6. Checks
  BY <1>3, <1>4 DEF Checks, Open
<1>7. QED
  BY <1>1, <1>2, <1>5, <1>6, FS_EmptySet DEF RequestsInd

\* A request arrives.
LEMMA PostKeeps ==
  ASSUME RequestsInd, NEW r \in Requests, NEW ps \in Posts, Post(r, ps)
  PROVE  (posted \in [Requests -> Seq(Items)] /\ checked \in [Requests -> Nat] /\ Carried /\ Checks)'
<1>1. PICK b : b = [i \in DOMAIN ps |-> Encode(ps[i].store, ps[i].id)]
  OBVIOUS
<1>2. /\ ps \in Seq(Items) /\ Len(ps) \in Nat \ {0} /\ DOMAIN ps = 1 .. Len(ps)
      /\ b \in Seq(Events) /\ DOMAIN b = DOMAIN ps
  BY <1>1, PostsAreBatches, BatchesAreSequences
<1>3. Len(b) = Len(ps)
  BY <1>2
<1>4. /\ phase[r] = "unsent"
      /\ \A q \in Requests : /\ phase'[q] = IF q = r THEN "sent" ELSE phase[q]
                             /\ batch'[q] = IF q = r THEN b ELSE batch[q]
                             /\ posted'[q] = IF q = r THEN ps ELSE posted[q]
      /\ UNCHANGED <<store, fresh, reply, checked>>
  BY <1>1 DEF Post, Send, RequestsInd, ApiInv, ApiTypeOK
<1>5. posted' \in [Requests -> Seq(Items)] /\ checked' \in [Requests -> Nat]
  BY <1>2, <1>4 DEF Post, RequestsInd
<1>6. checked[r] = 0 /\ fresh[r] = {} /\ reply[r] = "none" /\ ~Open(r)
  BY <1>4 DEF RequestsInd, Carried, ApiInv, Untouched, Open
<1>7. Carried'
  <2>1. ASSUME NEW q \in Requests
        PROVE  /\ DOMAIN batch'[q] = DOMAIN posted'[q]
               /\ \A i \in DOMAIN posted'[q] : batch'[q][i] = Encode(posted'[q][i].store, posted'[q][i].id)
               /\ phase'[q] = "unsent" => checked'[q] = 0
               /\ phase'[q] = "sent" => checked'[q] < Len(batch'[q])
    <3>1. CASE q = r
      <4>1. batch'[q] = b /\ posted'[q] = ps /\ phase'[q] = "sent" /\ checked'[q] = 0
        BY <1>4, <1>6, <3>1
      <4>2. 0 < Len(b)
        BY <1>2, <1>3
      <4>3. \A i \in DOMAIN ps : b[i] = Encode(ps[i].store, ps[i].id)
        BY <1>1
      <4>4. QED
        BY <1>2, <4>1, <4>2, <4>3
    <3>2. CASE q # r
      BY <1>4, <3>2 DEF RequestsInd, Carried
    <3>3. QED
      BY <3>1, <3>2
  <2>2. QED
    BY <2>1 DEF Carried
<1>8. ASSUME NEW q \in Requests
      PROVE  /\ checked'[q] \in 0 .. Len(batch'[q])
             /\ Open(q)' => checked'[q] = Len(batch'[q])
             /\ fresh'[q] \in {{}, DOMAIN batch'[q]}
             /\ reply'[q] = "refused" => Ids(q)' \intersect store' # {}
  <2>1. CASE q = r
    BY <1>2, <1>3, <1>4, <1>6, <2>1 DEF Open
  <2>2. CASE q # r
    BY <1>4, <2>2 DEF Open, RequestsInd, Checks, Ids
  <2>3. QED
    BY <2>1, <2>2
<1>9. QED
  BY <1>5, <1>7, <1>8 DEF Checks

\* An item is asked for and absent.
LEMMA CheckKeeps ==
  ASSUME RequestsInd, NEW r \in Requests, Check(r)
  PROVE  (posted \in [Requests -> Seq(Items)] /\ checked \in [Requests -> Nat] /\ Carried /\ Checks)'
<1>1. PICK n \in Nat : n = checked[r]
  BY DEF RequestsInd
<1>2. PICK l \in Nat : l = Len(batch[r])
  BY DEF RequestsInd, ApiInv, ApiTypeOK
<1>3. phase[r] = "sent" /\ n < l
  BY <1>1, <1>2 DEF Check, Checking, RequestsInd, Carried
<1>4. /\ UNCHANGED <<store, batch, held, reply, posted>>
      /\ checked' \in [Requests -> Nat]
      /\ \A q \in Requests : checked'[q] = IF q = r THEN n + 1 ELSE checked[q]
  BY <1>1 DEF Check, RequestsInd
<1>5. \/ n + 1 < l /\ UNCHANGED <<phase, fresh>>
      \/ /\ n + 1 = l
         /\ \A q \in Requests : /\ phase'[q] = IF q = r THEN "inserting" ELSE phase[q]
                                /\ fresh'[q] = IF q = r THEN DOMAIN batch[q] ELSE fresh[q]
  BY <1>1, <1>2, <1>3, <1>4 DEF Check, RequestsInd, ApiInv, ApiTypeOK
<1>6. posted' \in [Requests -> Seq(Items)]
  BY <1>4 DEF RequestsInd
<1>7. reply[r] = "none" /\ ~Open(r) /\ fresh[r] = {}
  BY <1>3 DEF RequestsInd, ApiInv, Untouched, Open
<1>8. ASSUME NEW q \in Requests, q # r
      PROVE  phase'[q] = phase[q] /\ fresh'[q] = fresh[q] /\ checked'[q] = checked[q]
  BY <1>4, <1>5, <1>8
<1>9. /\ phase'[r] # "unsent" /\ (phase'[r] = "sent" => n + 1 < l)
      /\ (phase'[r] # "sent" => n + 1 = l)
      /\ fresh'[r] \in {{}, DOMAIN batch[r]}
  BY <1>3, <1>5, <1>7
<1>10. Carried'
  <2>1. ASSUME NEW q \in Requests
        PROVE  /\ DOMAIN batch'[q] = DOMAIN posted'[q]
               /\ \A i \in DOMAIN posted'[q] : batch'[q][i] = Encode(posted'[q][i].store, posted'[q][i].id)
               /\ phase'[q] = "unsent" => checked'[q] = 0
               /\ phase'[q] = "sent" => checked'[q] < Len(batch'[q])
    BY <1>2, <1>4, <1>8, <1>9 DEF RequestsInd, Carried
  <2>2. QED
    BY <2>1 DEF Carried
<1>11. ASSUME NEW q \in Requests
       PROVE  /\ checked'[q] \in 0 .. Len(batch'[q])
              /\ Open(q)' => checked'[q] = Len(batch'[q])
              /\ fresh'[q] \in {{}, DOMAIN batch'[q]}
              /\ reply'[q] = "refused" => Ids(q)' \intersect store' # {}
  <2>1. CASE q = r
    <3>1. n + 1 \in 0 .. l /\ reply'[r] = "none"
      BY <1>3, <1>4, <1>7
    <3>2. QED
      BY <1>2, <1>4, <1>9, <2>1, <3>1 DEF Open
  <2>2. CASE q # r
    <3>1. UNCHANGED <<phase[q], fresh[q], checked[q], batch, store, reply>>
      BY <1>4, <1>8, <2>2
    <3>2. Ids(q)' = Ids(q) /\ (Open(q)' <=> Open(q))
      BY <3>1 DEF Ids, Open
    <3>3. QED
      BY <3>1, <3>2 DEF RequestsInd, Checks
  <2>3. QED
    BY <2>1, <2>2
<1>12. QED
  BY <1>4, <1>6, <1>10, <1>11 DEF Checks

\* An item exists.
LEMMA RefuseKeeps ==
  ASSUME RequestsInd, NEW r \in Requests, Refuse(r)
  PROVE  (posted \in [Requests -> Seq(Items)] /\ checked \in [Requests -> Nat] /\ Carried /\ Checks)'
<1>1. /\ phase[r] = "sent" /\ Asked(r) \in store
      /\ UNCHANGED <<store, batch, fresh, todo, posted, checked>>
      /\ \A q \in Requests : /\ phase'[q] = IF q = r THEN "closed" ELSE phase[q]
                             /\ q # r => reply'[q] = reply[q]
  BY DEF Refuse, Checking, Rollback, RequestsInd, ApiInv, ApiTypeOK
<1>2. Asked(r) \in Ids(r)
  <2>1. checked[r] \in Nat /\ checked[r] < Len(batch[r]) /\ batch[r] \in Seq(Events)
    BY <1>1 DEF RequestsInd, Carried, ApiInv, ApiTypeOK
  <2>2. checked[r] + 1 \in DOMAIN batch[r]
    BY <2>1
  <2>3. QED
    BY <2>2 DEF Asked, Ids
<1>3. Carried' /\ posted' \in [Requests -> Seq(Items)] /\ checked' \in [Requests -> Nat]
  BY <1>1 DEF RequestsInd, Carried
<1>4. ASSUME NEW q \in Requests
      PROVE  /\ checked'[q] \in 0 .. Len(batch'[q])
             /\ Open(q)' => checked'[q] = Len(batch'[q])
             /\ fresh'[q] \in {{}, DOMAIN batch'[q]}
             /\ reply'[q] = "refused" => Ids(q)' \intersect store' # {}
  <2>1. Ids(q)' = Ids(q) /\ (Open(q)' => Open(q))
    BY <1>1 DEF Ids, Open
  <2>2. reply'[q] = "refused" => Ids(q) \intersect store # {}
    BY <1>1, <1>2 DEF RequestsInd, Checks
  <2>3. QED
    BY <1>1, <2>1, <2>2 DEF RequestsInd, Checks
<1>5. QED
  BY <1>3, <1>4 DEF Checks

\* A request is written, or the process stops.
LEMMA WriteKeeps ==
  ASSUME RequestsInd, Restart \/ \E r \in Requests : Write(r)
  PROVE  (posted \in [Requests -> Seq(Items)] /\ checked \in [Requests -> Nat] /\ Carried /\ Checks)'
<1>1. store \subseteq store'
  BY ApiKept DEF Next, RequestsInd
<1>2. /\ UNCHANGED <<batch, fresh, posted, checked>>
      /\ \A q \in Requests :
           /\ Open(q)' => Open(q)
           /\ phase'[q] \in {"unsent", "sent"} => phase'[q] = phase[q]
           /\ reply'[q] = "refused" => reply[q] = "refused"
  BY WritesKeep DEF RequestsInd
<1>3. Carried' /\ posted' \in [Requests -> Seq(Items)] /\ checked' \in [Requests -> Nat]
  BY <1>2 DEF RequestsInd, Carried
<1>4. \A q \in Requests : Ids(q)' = Ids(q)
  BY <1>2 DEF Ids
<1>5. Checks'
  BY <1>1, <1>2, <1>4 DEF RequestsInd, Checks
<1>6. QED
  BY <1>3, <1>5

\* A step that leaves the requests alone.
LEMMA ReadersKeep ==
  ASSUME RequestsInd, UNCHANGED <<apiVars, posted, checked>>
  PROVE  (posted \in [Requests -> Seq(Items)] /\ checked \in [Requests -> Nat] /\ Carried /\ Checks)'
<1>1. UNCHANGED <<store, phase, batch, fresh, todo, held, reply, posted, checked>>
  BY DEF apiVars
<1>2. QED
  BY <1>1 DEF RequestsInd, Carried, Checks, Open, Ids

\* Every step keeps the invariant.
LEMMA RequestsNext ==
  ASSUME RequestsInd, [Next]_vars
  PROVE  RequestsInd'
<1>1. ApiInv' /\ IsFiniteSet(store')
  BY ApiKept DEF RequestsInd
<1>2. (posted \in [Requests -> Seq(Items)] /\ checked \in [Requests -> Nat] /\ Carried /\ Checks)'
  <2>1. ASSUME NEW g \in Readers,
               \/ \E id \in Asks : Get(g, id)
               \/ GetAgain(g)
               \/ \E s \in Stores : List(g, s)
               \/ ListTotal(g)
        PROVE  UNCHANGED <<apiVars, posted, checked>>
    BY <2>1 DEF Get, GetAgain, List, ListTotal
  <2>2. UNCHANGED vars => UNCHANGED <<apiVars, posted, checked>>
    BY DEF vars
  <2>3. QED
    BY <2>1, <2>2, PostKeeps, CheckKeeps, RefuseKeeps, WriteKeeps, ReadersKeep DEF Next
<1>3. QED
  BY <1>1, <1>2 DEF RequestsInd

\* The invariant of the requests.
THEOREM RequestsInvariant == Spec => []RequestsInd
<1>1. RequestsInd /\ [Next]_vars => RequestsInd'
  BY RequestsNext
<1>2. QED
  BY <1>1, RequestsStart, PTL DEF Spec

-----------------------------------------------------------------------------
(* The answers of 200 *)

\* A step lands a request only by its commit or its answer, as in IngestApi: asking
\* for an item lands nothing.
LEMMA LandedKept ==
  ASSUME CommitBeforeReply, RequestsInd, LandedInv, [Next]_vars
  PROVE  LandedInv'
<1>1. CASE [ApiNext]_apiVars
  BY <1>1, LandedNext DEF RequestsInd
<1>2. ASSUME NEW r \in Requests, Check(r) \/ Refuse(r)
      PROVE  LandedInv'
  <2>1. phase[r] = "sent" /\ fresh[r] = {} /\ reply[r] = "none"
    BY <1>2 DEF Check, Refuse, Checking, RequestsInd, ApiInv, Untouched
  <2>2. /\ UNCHANGED <<store, batch>>
        /\ \A q \in Requests : q # r => UNCHANGED <<phase[q], fresh[q], reply[q]>>
        /\ phase'[r] \in {"sent", "inserting", "closed"} /\ reply'[r] \in {"none", "refused"}
    <3>1. CASE Check(r)
      BY <2>1, <3>1 DEF Check, RequestsInd, ApiInv, ApiTypeOK
    <3>2. CASE Refuse(r)
      BY <2>1, <3>2 DEF Refuse, Rollback, RequestsInd, ApiInv, ApiTypeOK
    <3>3. QED
      BY <1>2, <3>1, <3>2
  <2>3. ~Landed(r)'
    BY <2>2 DEF Landed
  <2>4. ASSUME NEW q \in Requests, q # r
        PROVE  Ids(q)' = Ids(q) /\ NewIds(q)' = NewIds(q) /\ (Landed(q)' <=> Landed(q)) /\ phase'[q] = phase[q]
    BY <2>2, <2>4 DEF Ids, NewIds, Landed
  <2>5. QED
    BY <2>2, <2>3, <2>4 DEF LandedInv
<1>3. ASSUME NEW g \in Readers,
             \/ \E id \in Asks : Get(g, id)
             \/ GetAgain(g)
             \/ \E s \in Stores : List(g, s)
             \/ ListTotal(g)
      PROVE  UNCHANGED apiVars
  BY <1>3 DEF Get, GetAgain, List, ListTotal
<1>4. QED
  BY <1>1, <1>2, <1>3, ApiSteps DEF Next, vars, ApiNext, Serve, RequestsInd

\* No step forgets a row that was acknowledged.
THEOREM TransactionsAreStored == Spec /\ CommitBeforeReply => [](RequestsInd /\ LandedInv)
<1>1. CASE CommitBeforeReply
  <2>1. Init => LandedInv
    BY LandedInit DEF Init
  <2>2. RequestsInd /\ LandedInv /\ [Next]_vars => LandedInv'
    BY <1>1, LandedKept
  <2>3. QED
    BY <2>1, <2>2, RequestsInvariant, PTL DEF Spec
<1>2. QED
  BY <1>1

\* No transaction is acknowledged as new by two answers, although exists() is asked
\* in another transaction of the database than the one that it races with.
THEOREM TransactionsAreCreatedOnce == Spec /\ CommitBeforeReply => []IngestedOnce
<1>1. LandedInv => IngestedOnce
  BY DEF LandedInv, Landed, IngestedOnce
<1>2. QED
  BY <1>1, TransactionsAreStored, PTL

\* What was acknowledged is read back as it was posted.
THEOREM PostsAreReadAsPosted == Spec /\ CommitBeforeReply => []ReadAsPosted
<1>1. RequestsInd /\ LandedInv => ReadAsPosted
  <2> SUFFICES ASSUME RequestsInd, LandedInv, NEW r \in Requests, reply[r] = "ok", NEW i \in DOMAIN posted[r]
               PROVE  /\ batch[r][i] \in store
                      /\ Separator \notin {posted[r][i].store[j] : j \in DOMAIN posted[r][i].store}
                           => Decode(batch[r][i]) = posted[r][i]
    BY DEF ReadAsPosted
  <2>1. batch[r][i] \in store
    BY DEF RequestsInd, Carried, LandedInv, Landed, Ids
  <2>2. PICK p \in Items : p = posted[r][i]
    BY DEF RequestsInd
  <2>3. p = [store |-> p.store, id |-> p.id] /\ p.store \in Seq(STRING) /\ p.id \in Seq(STRING)
    BY ItemsAssumption
  <2>4. batch[r][i] = Encode(p.store, p.id)
    BY <2>2 DEF RequestsInd, Carried
  <2>5. ASSUME Separator \notin {p.store[j] : j \in DOMAIN p.store}
        PROVE  Decode(batch[r][i]) = p
    <3>1. \A j \in 1 .. Len(p.store) : p.store[j] # Separator
      BY <2>3, <2>5
    <3>2. QED
      BY <2>3, <2>4, <3>1, DecodeEncode
  <2>6. QED
    BY <2>1, <2>2, <2>5
<1>2. QED
  BY <1>1, TransactionsAreStored, PTL

-----------------------------------------------------------------------------
(* The readers *)

\* A reader between its two SELECTs asks for an id of an item or a key, and has not seen
\* the row with precisely that, which then was not acknowledged, if commits precede the
\* answers; one that counts has seen no more rows than there are.
ReadersInd ==
  \A g \in Readers :
    /\ read[g].phase = "again" =>
         /\ DOMAIN read[g] = {"phase", "id", "row", "acked"}
         /\ read[g].id \in Asks
         /\ CommitBeforeReply => read[g].acked \subseteq store /\ read[g].id \notin read[g].acked
    /\ read[g].phase = "page" =>
         /\ read[g].first \in Nat
         /\ read[g].first <= Cardinality(Listed(read[g].store))

FoundIfCommitted == CommitBeforeReply => AckedIsFound

\* The rows listed are some of the table.
LEMMA ListedRows ==
  ASSUME IsFiniteSet(store), NEW s
  PROVE  IsFiniteSet(Listed(s)) /\ Cardinality(Listed(s)) \in Nat
<1>1. Listed(s) \subseteq store
  BY DEF Listed
<1>2. QED
  BY <1>1, FS_Subset, FS_CardinalityType

\* What was acknowledged is in the table.
LEMMA AckedRows ==
  ASSUME CommitBeforeReply => LandedInv
  PROVE  CommitBeforeReply => Acked \subseteq store
  BY DEF LandedInv, Landed, Acked

\* What is asked for, and what is stored, are sequences of characters.
LEMMA AsksAreWords == Events \subseteq Seq(Chars) /\ Asks \subseteq Seq(Chars)
<1>1. \A d \in Seq(STRING) : d \in Seq(Chars)
  BY DEF Chars
<1>2. \A p \in Items : p.store \in Seq(STRING) /\ p.id \in Seq(STRING)
  BY ItemsAssumption
<1>3. \A p \in Items : Encode(p.store, p.id) \in Seq(Chars)
  BY <1>2, KeyParts
<1>4. QED
  BY <1>1, <1>2, <1>3, KeysAssumption DEF Keys, Asks

NoEscape(id) == Escape \notin {id[i] : i \in DOMAIN id}

\* The pattern of an id without escapes finds the keys that end with the id, and
\* breaks at none.
LEMMA WholeIsFound ==
  ASSUME NEW id \in Asks, NoEscape(id)
  PROVE  /\ \A j \in Events : EndsWith(j, Suffix(id)) => [id |-> id, key |-> j] \in Finds
         /\ Breaking(id) = {}
<1>1. PICK C : C = Chars
  OBVIOUS
<1>2. AnyRun \in C /\ Separator \in C /\ id \in Seq(C) /\ Events \subseteq Seq(C)
  BY <1>1, AsksAreWords DEF Chars
<1>3. Escape \notin {id[i] : i \in DOMAIN id}
  BY DEF NoEscape
<1>4. ASSUME NEW j \in Events, EndsWith(j, Suffix(id))
      PROVE  [id |-> id, key |-> j] \in Finds
  <2>1. j \in Seq(C)
    BY <1>2
  <2>2. Like(j, IdPattern(id))
    BY <1>2, <1>3, <1>4, <2>1, EndsWithIsLike
  <2>3. PICK m : m = <<id, j>>
    OBVIOUS
  <2>4. m \in Asks \X Keys /\ m[1] = id /\ m[2] = j
    BY <2>3, KeysAssumption
  <2>5. Like(m[2], IdPattern(m[1]))
    BY <2>2, <2>4
  <2>6. QED
    BY <2>4, <2>5, Zenon DEF Finds
<1>5. ~Dangling(IdPattern(id))
  BY <1>2, <1>3, IdPatternParts
<1>6. ASSUME NEW k \in Breaking(id)
      PROVE  FALSE
  <2>1. [id |-> id, key |-> k] \in Broken
    BY <1>6 DEF Breaking
  <2>2. PICK m \in Asks \X Keys : Breaks(m[2], IdPattern(m[1])) /\ [id |-> id, key |-> k] = [id |-> m[1], key |-> m[2]]
    BY <2>1 DEF Broken
  <2>3. m[1] = id
    BY <2>2
  <2>4. Dangling(IdPattern(m[1]))
    BY <2>2 DEF Breaks
  <2>5. QED
    BY <1>5, <2>3, <2>4
<1>7. QED
  BY <1>4, <1>6

\* If an acknowledged row ends with the id, and that has no escapes, then one that is
\* found does.
LEMMA BestIsExact ==
  ASSUME ApiInv, IsFiniteSet(store), NEW id \in Asks, NoEscape(id),
         NEW j \in store, EndsWith(j, Suffix(id))
  PROVE  Best(id) # {} /\ \A k \in Best(id) : EndsWith(k, Suffix(id))
<1>1. j \in Candidates(id) /\ j \in Exact(id)
  <2>1. j \in Events
    BY DEF ApiInv, ApiTypeOK
  <2>2. [id |-> id, key |-> j] \in Finds
    BY <2>1, WholeIsFound
  <2>3. QED
    BY <2>2 DEF Candidates, Exact
<1>2. CASE Cardinality(Candidates(id)) > 1
  BY <1>1, <1>2 DEF Best, Exact
<1>3. CASE ~(Cardinality(Candidates(id)) > 1)
  <2>1. PICK S : S = Candidates(id)
    OBVIOUS
  <2>2. IsFiniteSet(S) /\ j \in S
    BY <1>1, <2>1, FS_Subset DEF Candidates
  <2>3. PICK n \in Nat : n = Cardinality(S)
    BY <2>2, FS_CardinalityType
  <2>4. IsFiniteSet(S \ {j}) /\ Cardinality(S \ {j}) = n - 1
    BY <2>2, <2>3, FS_RemoveElement
  <2>5. Cardinality(S \ {j}) \in Nat
    BY <2>4, FS_CardinalityType
  <2>6. n <= 1
    BY <1>3, <2>1, <2>3
  <2>7. Cardinality(S \ {j}) = 0
    BY <2>3, <2>4, <2>5, <2>6
  <2>8. S = {j}
    BY <2>2, <2>4, <2>7, FS_EmptySet
  <2>9. Best(id) = {j}
    BY <1>3, <2>1, <2>8 DEF Best
  <2>10. QED
    BY <2>9
<1>4. QED
  BY <1>2, <1>3

\* The readers are idle at the start.
LEMMA ReadersStart == Init => ReadersInd /\ FoundIfCommitted /\ PageFitsTotal /\ DOMAIN read = Readers
  BY DEF Init, NoRead, ReadersInd, FoundIfCommitted, AckedIsFound, PageFitsTotal

\* Others go on while a reader waits between its SELECTs.
LEMMA ReadersWait ==
  ASSUME RequestsInd, ReadersInd, FoundIfCommitted, PageFitsTotal, DOMAIN read = Readers,
         UNCHANGED read, store \subseteq store', IsFiniteSet(store')
  PROVE  ReadersInd' /\ FoundIfCommitted' /\ PageFitsTotal' /\ (DOMAIN read)' = Readers
<1>1. ASSUME NEW s
      PROVE  Listed(s) \subseteq Listed(s)'
  BY DEF Listed
<1>2. ASSUME NEW g \in Readers, read[g].phase = "page"
      PROVE  read[g].first <= Cardinality(Listed(read[g].store)')
  <2>1. PICK s : s = read[g].store
    OBVIOUS
  <2>2. PICK A : A = Listed(s)
    OBVIOUS
  <2>3. PICK B : B = Listed(s)'
    OBVIOUS
  <2>4. IsFiniteSet(A) /\ Cardinality(A) \in Nat
    BY <2>2, ListedRows DEF RequestsInd
  <2>5. B \subseteq store'
    BY <2>3 DEF Listed
  <2>6. IsFiniteSet(B) /\ A \subseteq B
    BY <1>1, <2>2, <2>3, <2>5, FS_Subset
  <2>7. Cardinality(B) \in Nat /\ Cardinality(A) <= Cardinality(B)
    BY <2>6, FS_CardinalityType, FS_Subset
  <2>8. read[g].first \in Nat /\ read[g].first <= Cardinality(A)
    BY <1>2, <2>1, <2>2 DEF ReadersInd
  <2>9. read[g].first <= Cardinality(B)
    BY <2>4, <2>7, <2>8
  <2>10. QED
    BY <2>1, <2>3, <2>9
<1>3. QED
  BY <1>2 DEF ReadersInd, FoundIfCommitted, AckedIsFound, PageFitsTotal

\* What the invariant and the properties say of one reader.
ReaderInd(g) ==
  /\ read[g].phase = "again" =>
       /\ DOMAIN read[g] = {"phase", "id", "row", "acked"}
       /\ read[g].id \in Asks
       /\ CommitBeforeReply => read[g].acked \subseteq store /\ read[g].id \notin read[g].acked
  /\ read[g].phase = "page" =>
       /\ read[g].first \in Nat
       /\ read[g].first <= Cardinality(Listed(read[g].store))
  /\ /\ CommitBeforeReply
     /\ read[g].phase \in {"found", "missing", "failed"}
     /\ \E k \in read[g].acked :
          /\ k = read[g].id \/ EndsWith(k, Suffix(read[g].id))
          /\ k # read[g].id => NoEscape(read[g].id)
     => /\ read[g].phase = "found"
        /\ read[g].row = read[g].id \/ EndsWith(read[g].row, Suffix(read[g].id))
  /\ read[g].phase = "listed" => read[g].page <= read[g].total

\* One reader goes on.
LEMMA ReaderSteps ==
  ASSUME ReadersInd, FoundIfCommitted, PageFitsTotal, DOMAIN read = Readers,
         NEW g \in Readers, NEW new, read' = [read EXCEPT ![g] = new], store' = store,
         ReaderInd(g)'
  PROVE  ReadersInd' /\ FoundIfCommitted' /\ PageFitsTotal' /\ (DOMAIN read)' = Readers
<1>1. /\ DOMAIN read' = Readers
      /\ \A h \in Readers : h # g => read'[h] = read[h]
  OBVIOUS
<1>2. \A s : Listed(s)' = Listed(s)
  BY DEF Listed
<1>3. ReadersInd'
  BY <1>1, <1>2 DEF ReadersInd, ReaderInd
<1>4. FoundIfCommitted'
  BY <1>1 DEF FoundIfCommitted, AckedIsFound, ReaderInd, NoEscape
<1>5. PageFitsTotal'
  BY <1>1 DEF PageFitsTotal, ReaderInd
<1>6. QED
  BY <1>1, <1>3, <1>4, <1>5

\* The first SELECT for an id: what it finds is just that.
LEMMA GetKeeps ==
  ASSUME CommitBeforeReply => LandedInv, NEW g \in Readers, DOMAIN read = Readers, NEW id \in Asks, Get(g, id)
  PROVE  ReaderInd(g)' /\ store' = store /\ \E new : read' = [read EXCEPT ![g] = new]
<1>1. PICK new : new = [phase |-> IF id \in store THEN "found" ELSE "again",
                        id |-> id, row |-> id, acked |-> Acked]
  OBVIOUS
<1>2. read' = [read EXCEPT ![g] = new] /\ read'[g] = new /\ store' = store
  BY <1>1 DEF Get, apiVars
<1>3. /\ new.phase = IF id \in store THEN "found" ELSE "again"
      /\ new.id = id /\ new.row = id /\ new.acked = Acked
      /\ DOMAIN new = {"phase", "id", "row", "acked"}
  BY <1>1
<1>4. CommitBeforeReply => new.acked \subseteq store
  BY <1>3, AckedRows
<1>5. CASE id \in store
  <2>1. new.phase = "found"
    BY <1>3, <1>5
  <2>2. QED
    BY <1>2, <1>3, <2>1 DEF ReaderInd
<1>6. CASE id \notin store
  <2>1. new.phase = "again" /\ (CommitBeforeReply => new.id \notin new.acked)
    BY <1>3, <1>4, <1>6
  <2>2. QED
    BY <1>2, <1>3, <1>4, <2>1 DEF ReaderInd
<1>7. QED
  BY <1>5, <1>6

\* The second SELECT: a row that was acknowledged before the first and ends with the
\* id is still there, its pattern finds it if the id has no escapes, and one that ends
\* with the id is preferred.
LEMMA GetAgainKeeps ==
  ASSUME RequestsInd, ReadersInd, NEW g \in Readers, DOMAIN read = Readers, GetAgain(g)
  PROVE  ReaderInd(g)' /\ store' = store /\ \E new : read' = [read EXCEPT ![g] = new]
<1>1. PICK old : old = read[g]
  OBVIOUS
<1>2. /\ old.phase = "again" /\ DOMAIN old = {"phase", "id", "row", "acked"}
      /\ old.id \in Asks
      /\ CommitBeforeReply => old.acked \subseteq store /\ old.id \notin old.acked
  BY <1>1 DEF GetAgain, ReadersInd
<1>3. \/ /\ Breaking(old.id) # {}
         /\ read' = [read EXCEPT ![g].phase = "failed"]
      \/ /\ Best(old.id) = {}
         /\ read' = [read EXCEPT ![g].phase = "missing"]
      \/ \E k \in Best(old.id) : read' = [read EXCEPT ![g].phase = "found", ![g].row = k]
  BY <1>1 DEF GetAgain
<1>4. store' = store
  BY DEF GetAgain, apiVars
<1>5. ASSUME CommitBeforeReply, NEW j \in old.acked,
             j = old.id \/ EndsWith(j, Suffix(old.id)), j # old.id => NoEscape(old.id)
      PROVE  /\ Breaking(old.id) = {} /\ Best(old.id) # {}
             /\ \A k \in Best(old.id) : EndsWith(k, Suffix(old.id))
  <2>1. NoEscape(old.id) /\ j \in store /\ EndsWith(j, Suffix(old.id))
    BY <1>2, <1>5
  <2>2. Breaking(old.id) = {}
    BY <1>2, <2>1, WholeIsFound
  <2>3. QED
    BY <1>2, <2>1, <2>2, BestIsExact DEF RequestsInd
<1>6. ASSUME NEW p \in {"failed", "missing"}, read' = [read EXCEPT ![g].phase = p],
             Breaking(old.id) # {} \/ Best(old.id) = {}
      PROVE  ReaderInd(g)' /\ \E new : read' = [read EXCEPT ![g] = new]
  <2>1. PICK new : new = [old EXCEPT !.phase = p]
    OBVIOUS
  <2>2. read' = [read EXCEPT ![g] = new] /\ read'[g] = new
    BY <1>1, <1>6, <2>1
  <2>3. new.phase = p /\ new.id = old.id /\ new.acked = old.acked
    BY <1>2, <2>1
  <2>4. QED
    BY <1>5, <1>6, <2>2, <2>3 DEF ReaderInd
<1>7. ASSUME NEW k \in Best(old.id), read' = [read EXCEPT ![g].phase = "found", ![g].row = k]
      PROVE  ReaderInd(g)' /\ \E new : read' = [read EXCEPT ![g] = new]
  <2>1. PICK new : new = [old EXCEPT !.phase = "found", !.row = k]
    OBVIOUS
  <2>2. read' = [read EXCEPT ![g] = new] /\ read'[g] = new
    BY <1>1, <1>7, <2>1
  <2>3. new.phase = "found" /\ new.id = old.id /\ new.acked = old.acked /\ new.row = k
    BY <1>2, <2>1
  <2>4. QED
    BY <1>4, <1>5, <2>2, <2>3 DEF ReaderInd
<1>8. QED
  BY <1>3, <1>4, <1>6, <1>7

\* The page of a listing.
LEMMA ListKeeps ==
  ASSUME RequestsInd, NEW g \in Readers, DOMAIN read = Readers, NEW s, List(g, s)
  PROVE  ReaderInd(g)' /\ store' = store /\ \E new : read' = [read EXCEPT ![g] = new]
<1>1. PICK new : new = [phase |-> "page", store |-> s, first |-> Cardinality(Listed(s))]
  OBVIOUS
<1>2. read' = [read EXCEPT ![g] = new] /\ read'[g] = new /\ store' = store
  BY <1>1 DEF List, apiVars
<1>3. new.phase = "page" /\ new.store = s /\ new.first = Cardinality(Listed(s))
  BY <1>1
<1>4. Cardinality(Listed(s)) \in Nat /\ Cardinality(Listed(s)) <= Cardinality(Listed(s))
  <2>1. PICK n \in Nat : n = Cardinality(Listed(s))
    BY ListedRows DEF RequestsInd
  <2>2. QED
    BY <2>1
<1>5. Listed(s)' = Listed(s)
  BY <1>2 DEF Listed
<1>6. QED
  BY <1>2, <1>3, <1>4, <1>5 DEF ReaderInd

\* The total of a listing: rows are never taken away.
LEMMA ListTotalKeeps ==
  ASSUME RequestsInd, ReadersInd, NEW g \in Readers, DOMAIN read = Readers, ListTotal(g)
  PROVE  ReaderInd(g)' /\ store' = store /\ \E new : read' = [read EXCEPT ![g] = new]
<1>1. PICK old : old = read[g]
  OBVIOUS
<1>2. old.phase = "page"
  BY <1>1 DEF ListTotal
<1>3. PICK n \in Nat : n = old.first
  BY <1>1, <1>2 DEF ReadersInd
<1>4. PICK m \in Nat : m = Cardinality(Listed(old.store))
  BY ListedRows DEF RequestsInd
<1>5. n <= m
  BY <1>1, <1>2, <1>3, <1>4 DEF ReadersInd
<1>6. PICK new : new = [phase |-> "listed", page |-> Page(n), total |-> m]
  OBVIOUS
<1>7. read' = [read EXCEPT ![g] = new] /\ read'[g] = new /\ store' = store
  BY <1>1, <1>3, <1>4, <1>6 DEF ListTotal, apiVars
<1>8. new.phase = "listed" /\ new.page = Page(n) /\ new.total = m
  BY <1>6
<1>9. Page(n) <= m
  BY <1>5, LimitAssumption DEF Page
<1>10. QED
  BY <1>7, <1>8, <1>9 DEF ReaderInd

\* Every step keeps what the readers have been told true.
LEMMA ReadersNext ==
  ASSUME RequestsInd, CommitBeforeReply => LandedInv, ReadersInd, FoundIfCommitted, PageFitsTotal, DOMAIN read = Readers, [Next]_vars
  PROVE  ReadersInd' /\ FoundIfCommitted' /\ PageFitsTotal' /\ (DOMAIN read)' = Readers
<1>1. ASSUME NEW g \in Readers,
             \/ \E id \in Asks : Get(g, id)
             \/ GetAgain(g)
             \/ \E s \in Stores : List(g, s)
             \/ ListTotal(g)
      PROVE  ReadersInd' /\ FoundIfCommitted' /\ PageFitsTotal' /\ (DOMAIN read)' = Readers
  <2>1. ReaderInd(g)' /\ store' = store /\ \E new : read' = [read EXCEPT ![g] = new]
    BY <1>1, GetKeeps, GetAgainKeeps, ListKeeps, ListTotalKeeps
  <2>2. QED
    BY <2>1, ReaderSteps
<1>2. ASSUME \/ \E r \in Requests : (\E ps \in Posts : Post(r, ps)) \/ Check(r) \/ Refuse(r) \/ Write(r)
             \/ Restart
             \/ UNCHANGED vars
      PROVE  read' = read
  BY <1>2 DEF Post, Check, Refuse, Write, Restart, vars
<1>3. store \subseteq store' /\ IsFiniteSet(store')
  BY ApiKept DEF RequestsInd
<1>4. QED
  BY <1>1, <1>2, <1>3, ReadersWait DEF Next

\* The invariant of the readers.
THEOREM ReadersInvariant == Spec => [](ReadersInd /\ FoundIfCommitted /\ PageFitsTotal)
<1> DEFINE Landing == CommitBeforeReply => LandedInv
<1>1. Spec => [](RequestsInd /\ Landing)
  <2>1. CASE CommitBeforeReply
    <3>1. RequestsInd /\ LandedInv => RequestsInd /\ Landing
      OBVIOUS
    <3> HIDE DEF Landing
    <3>2. QED
      BY <2>1, <3>1, TransactionsAreStored, PTL
  <2>2. CASE ~CommitBeforeReply
    <3>1. RequestsInd => RequestsInd /\ Landing
      BY <2>2
    <3> HIDE DEF Landing
    <3>2. QED
      BY <3>1, RequestsInvariant, PTL
  <2>3. QED
    BY <2>1, <2>2
<1>2. RequestsInd /\ Landing /\ ReadersInd /\ FoundIfCommitted /\ PageFitsTotal /\ DOMAIN read = Readers
        /\ [Next]_vars
        => (ReadersInd /\ FoundIfCommitted /\ PageFitsTotal /\ DOMAIN read = Readers)'
  BY ReadersNext
<1> HIDE DEF Landing
<1>3. QED
  BY <1>1, <1>2, ReadersStart, PTL DEF Spec

\* GET of an id finds the transactions that were acknowledged before it, unless it takes
\* LIKE to find them and the id has LIKE's escape character.
THEOREM AckedIsReadBack == Spec /\ CommitBeforeReply => []AckedIsFound
<1>1. CASE CommitBeforeReply
  <2>1. FoundIfCommitted => AckedIsFound
    BY <1>1 DEF FoundIfCommitted
  <2>2. QED
    BY <2>1, ReadersInvariant, PTL
<1>2. QED
  BY <1>1

\* The page of a listing fits the total that is told with it.
THEOREM PagesFitTotals == Spec => []PageFitsTotal
  BY ReadersInvariant, PTL

\* The type invariant; a request inserts only what it has asked for and not found.
THEOREM TransactionsAreChecked == Spec => []TransactionsInv
<1>1. RequestsInd /\ DOMAIN read = Readers => TransactionsInv
  BY DEF RequestsInd, TransactionsInv, TypeOK, ApiInv
<1>2. DOMAIN read = Readers /\ [Next]_vars => (DOMAIN read = Readers)'
  BY DEF Next, Post, Check, Refuse, Write, Restart, Get, GetAgain, List, ListTotal, vars
<1>3. QED
  BY <1>1, <1>2, ReadersStart, RequestsInvariant, PTL DEF Spec

\* A request adds all of its transactions to the table in one step or none of them,
\* and nothing takes a row away.
THEOREM BulksAreAtomic ==
  Spec => [][store' # store => \E r \in Requests : store' = store \union Ids(r)]_vars
<1>1. ASSUME RequestsInd, [Next]_vars
      PROVE  [store' # store => \E r \in Requests : store' = store \union Ids(r)]_vars
  <2>1. CASE [ApiNext]_apiVars
    <3>1. ASSUME NEW r \in Requests, store' = store \union NewIds(r), store' # store
          PROVE  store' = store \union Ids(r)
      <4>1. fresh[r] # {}
        BY <3>1 DEF NewIds
      <4>2. fresh[r] = DOMAIN batch[r]
        BY <1>1, <4>1 DEF RequestsInd, Checks
      <4>3. QED
        BY <3>1, <4>2 DEF NewIds, Ids
    <3>2. QED
      BY <1>1, <2>1, <3>1, StoreSteps DEF RequestsInd
  <2>2. ASSUME \/ \E r \in Requests : Check(r) \/ Refuse(r)
               \/ \E g \in Readers :
                    \/ \E id \in Asks : Get(g, id)
                    \/ GetAgain(g)
                    \/ \E s \in Stores : List(g, s)
                    \/ ListTotal(g)
        PROVE  store' = store
    BY <2>2 DEF Check, Refuse, Rollback, Get, GetAgain, List, ListTotal, apiVars
  <2>3. QED
    BY <1>1, <2>1, <2>2, ApiSteps DEF Next, vars, ApiNext, Serve, RequestsInd
<1>2. RequestsInd /\ [Next]_vars => [store' # store => \E r \in Requests : store' = store \union Ids(r)]_vars
  BY <1>1
<1>3. QED
  BY <1>2, RequestsInvariant, PTL DEF Spec
=============================================================================
