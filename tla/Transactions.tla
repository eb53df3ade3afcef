---------------------------- MODULE Transactions ----------------------------
(***************************************************************************)
(* The transactions API.  POST /transactions and POST /transactions/bulk   *)
(* ask for one item after the other whether it exists, and then insert all *)
(* of them; a request is one transaction of the database, as in IngestApi, *)
(* whose rows, session and failures it shares.  Rows are told apart by the *)
(* unique column transaction_id, so that the "events" of IngestApi are the *)
(* stored ids here.  GET /transactions/{id} and GET /transactions read by  *)
(* two SELECTs each, between which others may commit.                      *)
(***************************************************************************)
EXTENDS IngestApi, TransactionKeys

CONSTANTS
  Items,       \* [store, id] of the transactions that clients may post
  KeyLength,   \* length of the column transaction_id: 64
  Readers,     \* requests that read
  Limit        \* limit of a listing

\* A store and an id are sequences of characters.
ASSUME ItemsAssumption ==
  \A p \in Items :
    p = [store |-> p.store, id |-> p.id] /\ p.store \in Seq(STRING) /\ p.id \in Seq(STRING)
\* The stored ids are those of the items.
Keys == {Encode(p.store, p.id) : p \in Items}
ASSUME KeysAssumption == Events = Keys
ASSUME KeyLengthAssumption == KeyLength \in Nat
ASSUME LimitAssumption == Limit \in Nat

VARIABLES
  posted,    \* the items each request carries
  checked,   \* how many of them it has asked for
  read       \* what each reader asks for and was told

vars == <<apiVars, posted, checked, read>>

\* What may be asked for: ids, and keys of the column.
Asks == {p.id : p \in Items} \union Keys
NoRead == [phase |-> "idle"]

TypeOK ==
  /\ ApiTypeOK
  /\ posted \in [Requests -> Seq(Items)]
  /\ checked \in [Requests -> Nat]
  /\ DOMAIN read = Readers

Init ==
  /\ ApiInit
  /\ posted = [r \in Requests |-> <<>>]
  /\ checked = [r \in Requests |-> 0]
  /\ read = [g \in Readers |-> NoRead]

-----------------------------------------------------------------------------
(* POST /transactions, POST /transactions/bulk *)

\* A client posts the items ps.
Post(r, ps) ==
  /\ Send(r, [i \in DOMAIN ps |-> Encode(ps[i].store, ps[i].id)])
  /\ posted' = [posted EXCEPT ![r] = ps]
  /\ UNCHANGED <<checked, read>>

\* The item that exists() is asked for next.
Asked(r) == batch[r][checked[r] + 1]

\* A connection of the pool is free: requests hold one from their first SELECT.
Free ==
  Cardinality(Connected \union {r \in Requests : phase[r] = "sent" /\ checked[r] > 0})
    + Cardinality({g \in Readers : read[g].phase \in {"again", "page"}}) < Connections

Checking(r) ==
  /\ phase[r] = "sent"
  /\ Ids(r) \intersect Malformed = {}
  /\ checked[r] > 0 \/ Free

\* (mutation) The rows are inserted after the first item was found absent.
CheckFirstOnly(r) ==
  /\ Checking(r)
  /\ Asked(r) \notin store
  /\ checked' = [checked EXCEPT ![r] = @ + 1]
  /\ phase' = [phase EXCEPT ![r] = "inserting"]
  /\ fresh' = [fresh EXCEPT ![r] = DOMAIN batch[r]]
  /\ todo' = [todo EXCEPT ![r] = DOMAIN batch[r]]
  /\ UNCHANGED <<store, batch, held, reply, posted, read>>

\* The item is absent; after the last one the rows are inserted.
Check(r) ==
  /\ Checking(r)
  /\ Asked(r) \notin store
  /\ checked' = [checked EXCEPT ![r] = @ + 1]
  /\ IF checked'[r] = Len(batch[r])
       THEN /\ phase' = [phase EXCEPT ![r] = "inserting"]
            /\ fresh' = [fresh EXCEPT ![r] = DOMAIN batch[r]]
            /\ todo' = [todo EXCEPT ![r] = DOMAIN batch[r]]
       ELSE UNCHANGED <<phase, fresh, todo>>
  /\ UNCHANGED <<store, batch, held, reply, posted, read>>

\* The item exists: 409 for the whole request.
Refuse(r) ==
  /\ Checking(r)
  /\ Asked(r) \in store
  /\ Rollback(r, "refused")
  /\ UNCHANGED <<posted, checked, read>>

\* The row the INSERT has come to does not fit into the column.
TooLong(r) == \E i \in todo[r] : NextRow(r, i) /\ Len(batch[r][i]) > KeyLength

Write(r) ==
  /\ \/ Reject(r)
     \/ ~TooLong(r) /\ (InsertRow(r) \/ Conflict(r))
     \/ TooLong(r) /\ Rollback(r, "failed")
     \/ DeadlockAbort(r)
     \/ Commit(r)
     \/ Respond(r)
     \/ Fail(r)
  /\ UNCHANGED <<posted, checked, read>>

\* The API process stops; a request that is still checking is lost (Fail) first.
Restart ==
  /\ Crash
  /\ \A r \in Requests : phase[r] = "sent" => checked[r] = 0
  /\ UNCHANGED <<posted, checked, read>>

-----------------------------------------------------------------------------
(* GET /transactions/{id}, GET /transactions *)

\* The stored ids that were acknowledged so far.
Acked == UNION {Ids(r) : r \in {q \in Requests : reply[q] = "ok"}}

\* get_transaction: the row with precisely the id that is asked for ...
Get(g, id) ==
  /\ read[g] = NoRead
  /\ Free
  /\ read' = [read EXCEPT ![g] =
       [phase |-> IF id \in store THEN "found" ELSE "again",
        id |-> id, row |-> id, acked |-> Acked]]
  /\ UNCHANGED <<apiVars, posted, checked>>

\* Which ids find which keys, and at which keys their patterns break.
Finds == {[id |-> m[1], key |-> m[2]] : m \in {m \in Asks \X Keys : Like(m[2], IdPattern(m[1]))}}
Broken == {[id |-> m[1], key |-> m[2]] : m \in {m \in Asks \X Keys : Breaks(m[2], IdPattern(m[1]))}}

Candidates(id) == {k \in store : k = id \/ [id |-> id, key |-> k] \in Finds}
Breaking(id) == {k \in store : [id |-> id, key |-> k] \in Broken}
Exact(id) == {k \in Candidates(id) : EndsWith(k, Suffix(id))}

\* (mutation) The first of several rows is taken as it comes.
BestFirst(id) == Candidates(id)

\* The rows that get_by_business_transaction_id may return: one that ends like
\* the id is asked for, if there are several and one ends with it.
Best(id) ==
  IF Cardinality(Candidates(id)) > 1 /\ Exact(id) # {} THEN Exact(id) ELSE Candidates(id)

\* ... or else a row of any store whose key ends like it, if the pattern that is made
\* of it does not break.
GetAgain(g) ==
  /\ read[g].phase = "again"
  /\ LET id == read[g].id
     IN \/ /\ Breaking(id) # {}
           /\ read' = [read EXCEPT ![g].phase = "failed"]
        \/ /\ Breaking(id) = {} /\ Best(id) = {}
           /\ read' = [read EXCEPT ![g].phase = "missing"]
        \/ /\ Breaking(id) = {}
           /\ \E k \in Best(id) :
                read' = [read EXCEPT ![g].phase = "found", ![g].row = k]
  /\ UNCHANGED <<apiVars, posted, checked>>

\* The stores, and which of them finds which keys.
Stores == {p.store : p \in Items}
Lists ==
  {[store |-> m[1], key |-> m[2]] : m \in {m \in Stores \X Keys : Like(m[2], StorePattern(m[1]))}}

Listed(s) == {k \in store : [store |-> s, key |-> k] \in Lists}

\* How many of n rows are on the first page.
Page(n) == IF n > Limit THEN Limit ELSE n

\* list_transactions of store s: the rows of the page ...
List(g, s) ==
  /\ read[g] = NoRead
  /\ Free
  /\ read' = [read EXCEPT ![g] =
       [phase |-> "page", store |-> s, first |-> Cardinality(Listed(s))]]
  /\ UNCHANGED <<apiVars, posted, checked>>

\* (mutation) The total is counted before the page is read.
ListTotalFirst(g) ==
  /\ read[g].phase = "page"
  /\ read' = [read EXCEPT ![g] =
       [phase |-> "listed", page |-> Page(Cardinality(Listed(@.store))), total |-> @.first]]
  /\ UNCHANGED <<apiVars, posted, checked>>

\* ... and then their total.
ListTotal(g) ==
  /\ read[g].phase = "page"
  /\ read' = [read EXCEPT ![g] =
       [phase |-> "listed", page |-> Page(@.first), total |-> Cardinality(Listed(@.store))]]
  /\ UNCHANGED <<apiVars, posted, checked>>

\* What a client may post; MaxBatch is only a bound of the model, a bulk has no limit.
Posts == UNION {[1 .. n -> Items] : n \in 1 .. MaxBatch}

Next ==
  \/ \E r \in Requests :
       \/ \E ps \in Posts : Post(r, ps)
       \/ Check(r)
       \/ Refuse(r)
       \/ Write(r)
  \/ Restart
  \/ \E g \in Readers :
       \/ \E id \in Asks : Get(g, id)
       \/ GetAgain(g)
       \/ \E s \in Stores : List(g, s)
       \/ ListTotal(g)

Spec == Init /\ [][Next]_vars

-----------------------------------------------------------------------------
(* Properties *)

\* A request inserts only when it has asked for all its items and found every one
\* absent; one that was refused was refused for an item that is in the table.
Checks ==
  \A r \in Requests :
    /\ checked[r] \in 0 .. Len(batch[r])
    /\ Open(r) => checked[r] = Len(batch[r])
    /\ fresh[r] \in {{}, DOMAIN batch[r]}
    /\ reply[r] = "refused" => Ids(r) \intersect store # {}

\* The type invariant, that of the rows and transactions of IngestApi, which the
\* writes share, and Checks: the order of exists() and create in the service.
TransactionsInv ==
  /\ TypeOK
  /\ ApiInv
  /\ Checks

\* A transaction that was acknowledged is read back with the store and the id it
\* was posted with, whatever its id is, if the store's name has no separator.
\* For CommitBeforeReply.
ReadAsPosted ==
  \A r \in Requests : reply[r] = "ok" =>
    \A i \in DOMAIN posted[r] :
      /\ batch[r][i] \in store
      /\ Separator \notin {posted[r][i].store[j] : j \in DOMAIN posted[r][i].store}
           => Decode(batch[r][i]) = posted[r][i]

\* GET of an id that was acknowledged before is answered, with a row that is or ends
\* with just that id, although the two SELECTs are at different times and the second
\* one takes '_' and '%' in the id for other characters; unless the second one is
\* needed and the id has the escape character of LIKE.
AckedIsFound ==
  \A g \in Readers :
    LET id == read[g].id
        asked(k) == k = id \/ EndsWith(k, Suffix(id))
    IN /\ read[g].phase \in {"found", "missing", "failed"}
       /\ \E k \in read[g].acked :
            asked(k) /\ (k # id => Escape \notin {id[i] : i \in DOMAIN id})
       => read[g].phase = "found" /\ asked(read[g].row)

\* A page of a listing never has more rows than the total says, although others
\* commit between the two.
PageFitsTotal ==
  \A g \in Readers : read[g].phase = "listed" => read[g].page <= read[g].total
=============================================================================
