--------------------------- MODULE IngestApiProofs ---------------------------
(***************************************************************************)
(* Proofs about IngestApi, for every set of events and requests and every  *)
(* batch size.                                                             *)
(***************************************************************************)
EXTENDS IngestApi, TLAPS

\* A posted batch is a non-empty sequence of event ids.
LEMMA BatchesAreSequences == \A b \in Batches : b \in Seq(Events)
  BY MaxBatchAssumption DEF Batches

\* The initial state satisfies the invariant.
LEMMA ApiInitInv == ApiInit => ApiInv
  BY DEF ApiInit, ApiInv, ApiTypeOK, Phases, Replies, Positions, Untouched, HeldRows,
         InsertedBeforeReply, KeysExclusive, SkippedIsStored, Open

\* Each action preserves it; first, posting a batch.
LEMMA SendInv ==
  ASSUME ApiInv, NEW r \in Requests, NEW b \in Seq(Events), Send(r, b)
  PROVE  ApiInv'
  BY DEF Send, ApiInv, ApiTypeOK, Phases, Replies, Positions, Untouched, HeldRows,
         InsertedBeforeReply, KeysExclusive, SkippedIsStored, Open

\* Create preserves the invariant: all its rows are still to be inserted.
LEMMA CreateInv ==
  ASSUME ApiInv, NEW r \in Requests, NEW b \in Seq(Events), Create(r, b)
  PROVE  ApiInv'
<1> USE DEF Create, ApiInv
<1>1. DOMAIN b \subseteq Nat
  OBVIOUS
<1>2. ApiTypeOK'
  BY <1>1 DEF ApiTypeOK, Phases
<1>3. Positions' /\ Untouched' /\ HeldRows'
  BY DEF ApiTypeOK, Positions, Untouched, HeldRows
<1>4. InsertedBeforeReply' /\ KeysExclusive' /\ SkippedIsStored'
  BY DEF ApiTypeOK, Untouched, InsertedBeforeReply, KeysExclusive, SkippedIsStored, Open
<1>5. QED
  BY <1>2, <1>3, <1>4

\* Lose preserves the invariant.
LEMMA LoseInv ==
  ASSUME ApiInv, NEW r \in Requests, Lose(r)
  PROVE  ApiInv'
  BY DEF Lose, ApiInv, ApiTypeOK, Phases, Replies, Positions, Untouched, HeldRows,
         InsertedBeforeReply, KeysExclusive, SkippedIsStored, Open

\* Reject preserves the invariant.
LEMMA RejectInv ==
  ASSUME ApiInv, NEW r \in Requests, Reject(r)
  PROVE  ApiInv'
  BY DEF Reject, ApiInv, ApiTypeOK, Phases, Replies, ErrorReplies, Positions, Untouched,
         HeldRows, InsertedBeforeReply, KeysExclusive, SkippedIsStored, Open

\* CheckExisting preserves the invariant: what it skips is committed.
LEMMA CheckExistingInv ==
  ASSUME ApiInv, NEW r \in Requests, CheckExisting(r)
  PROVE  ApiInv'
  BY DEF CheckExisting, ApiInv, ApiTypeOK, Phases, Replies, Positions, Untouched,
         HeldRows, InsertedBeforeReply, KeysExclusive, SkippedIsStored, Open

\* Inserting the row at position i moves its key into held.
LEMMA InsertRowInv ==
  ASSUME ApiInv, NEW r \in Requests, InsertRow(r)
  PROVE  ApiInv'
<1> USE DEF ApiInv
<1>1. PICK i \in todo[r] :
        /\ phase[r] = "inserting"
        /\ batch[r][i] \notin store \union held[r]
        /\ \A q \in Requests : q # r => batch[r][i] \notin held[q]
        /\ held' = [held EXCEPT ![r] = @ \union {batch[r][i]}]
        /\ todo' = [todo EXCEPT ![r] = @ \ {i}]
  BY DEF InsertRow, NextRow, Waiting, WaitsFor
<1>2. i \in fresh[r] /\ i \in DOMAIN batch[r] /\ batch[r][i] \in Events
  BY <1>1 DEF Positions, ApiTypeOK
<1>3. UNCHANGED <<store, phase, batch, fresh, reply>>
  BY DEF InsertRow
<1>4. held' = [q \in Requests |-> IF q = r THEN held[r] \union {batch[r][i]} ELSE held[q]]
  BY <1>1 DEF ApiTypeOK
<1>5. todo' = [q \in Requests |-> IF q = r THEN todo[r] \ {i} ELSE todo[q]]
  BY <1>1 DEF ApiTypeOK
<1>6. ApiTypeOK'
  BY <1>2, <1>3, <1>4, <1>5 DEF ApiTypeOK
<1>7. Positions' /\ Untouched' /\ SkippedIsStored'
  BY <1>1, <1>3, <1>4, <1>5 DEF Positions, Untouched, SkippedIsStored, Open
<1>8. HeldRows'
  <2> SUFFICES ASSUME NEW q \in Requests
      PROVE  held'[q] = IF phase[q] \in {"inserting", "answered"}
                          THEN {batch[q][k] : k \in fresh[q] \ todo'[q]} ELSE {}
    BY <1>3 DEF HeldRows
  <2>1. CASE q = r
    <3>1. fresh[r] \ todo'[r] = (fresh[r] \ todo[r]) \union {i}
      BY <1>1, <1>2, <1>5
    <3>2. held[r] = {batch[r][k] : k \in fresh[r] \ todo[r]}
      BY <1>1 DEF HeldRows
    <3>3. QED
      BY <1>1, <1>4, <2>1, <3>1, <3>2
  <2>2. CASE q # r
    BY <1>4, <1>5, <2>2 DEF HeldRows
  <2>3. QED
    BY <2>1, <2>2
<1>9. InsertedBeforeReply'
  BY <1>3, <1>5 DEF InsertedBeforeReply
<1>10. KeysExclusive'
  BY <1>1, <1>3, <1>4 DEF KeysExclusive
<1>11. QED
  BY <1>6, <1>7, <1>8, <1>9, <1>10

\* Undoing an open transaction gives up the keys it holds.
LEMMA RollbackInv ==
  ASSUME ApiInv, NEW r \in Requests, NEW why \in ErrorReplies, Rollback(r, why),
         phase[r] \in {"sent", "inserting", "answered"}
  PROVE  ApiInv'
<1> USE DEF ApiInv
<1>1. phase' = [q \in Requests |-> IF q = r THEN "closed" ELSE phase[q]]
  BY DEF Rollback, ApiTypeOK
<1>2. held' = [q \in Requests |-> IF q = r THEN {} ELSE held[q]]
  BY DEF Rollback, ApiTypeOK
<1>3. reply' = [q \in Requests |-> IF q = r /\ reply[q] = "none" THEN why ELSE reply[q]]
  BY DEF Rollback, ApiTypeOK
<1>4. UNCHANGED <<store, batch, fresh, todo>>
  BY DEF Rollback
<1>5. ApiTypeOK'
  BY <1>1, <1>2, <1>3, <1>4 DEF ApiTypeOK, Phases, Replies
<1>6. Positions' /\ Untouched' /\ HeldRows' /\ KeysExclusive'
  <2>1. Positions'
    BY <1>1, <1>2, <1>3, <1>4 DEF Positions
  <2>2. Untouched'
    BY <1>1, <1>2, <1>3, <1>4 DEF Untouched
  <2>3. HeldRows'
    BY <1>1, <1>2, <1>3, <1>4 DEF HeldRows
  <2>4. KeysExclusive'
    BY <1>1, <1>2, <1>3, <1>4 DEF KeysExclusive
  <2>5. QED
    BY <2>1, <2>2, <2>3, <2>4
<1>7. why # "ok" /\ why # "none"
  BY DEF ErrorReplies
<1>8. InsertedBeforeReply'
  BY <1>1, <1>3, <1>4, <1>7 DEF InsertedBeforeReply
<1>9. SkippedIsStored'
  BY <1>1, <1>3, <1>4, <1>7 DEF SkippedIsStored, Open
<1>10. QED
  BY <1>5, <1>6, <1>8, <1>9

\* Committing moves the keys a request holds into the table.
LEMMA CommitKeys ==
  ASSUME ApiInv, NEW r \in Requests, CommitPoint(r),
         store' = store \union held[r], held' = [held EXCEPT ![r] = {}]
  PROVE  /\ store' \subseteq Events
         /\ store \subseteq store'
         /\ held' = [q \in Requests |-> IF q = r THEN {} ELSE held[q]]
         /\ KeysExclusive'
         /\ todo[r] = {}
<1> USE DEF ApiInv
<1>1. held' = [q \in Requests |-> IF q = r THEN {} ELSE held[q]]
  BY DEF ApiTypeOK
<1>2. KeysExclusive'
  BY <1>1 DEF KeysExclusive
<1>3. todo[r] = {}
  BY DEF CommitPoint, Flushed, InsertedBeforeReply
<1>4. QED
  BY <1>1, <1>2, <1>3 DEF ApiTypeOK

\* Commit preserves the invariant: the rows that become visible are held by nobody else.
LEMMA CommitInv ==
  ASSUME ApiInv, NEW r \in Requests, Commit(r)
  PROVE  ApiInv'
<1> USE DEF ApiInv
<1> DEFINE after == IF CommitBeforeReply THEN "committed" ELSE "closed"
<1>1. /\ store' \subseteq Events
      /\ store \subseteq store'
      /\ held' = [q \in Requests |-> IF q = r THEN {} ELSE held[q]]
      /\ KeysExclusive'
      /\ todo[r] = {}
  BY CommitKeys DEF Commit
<1>2. phase' = [q \in Requests |-> IF q = r THEN after ELSE phase[q]]
  BY DEF Commit, ApiTypeOK
<1>3. UNCHANGED <<batch, fresh, todo, reply>>
  BY DEF Commit
<1>4. phase[r] \in {"inserting", "answered"}
  BY DEF Commit, CommitPoint, Flushed
<1>5. after \in {"committed", "closed"}
  OBVIOUS
<1> HIDE DEF after
<1>6. ApiTypeOK'
  BY <1>1, <1>2, <1>3, <1>5 DEF ApiTypeOK, Phases
<1>7. Positions' /\ Untouched' /\ HeldRows' /\ InsertedBeforeReply'
  <2>1. Positions'
    BY <1>1, <1>2, <1>3, <1>5 DEF Positions
  <2>2. Untouched'
    BY <1>1, <1>2, <1>3, <1>5 DEF Untouched
  <2>3. HeldRows'
    BY <1>1, <1>2, <1>3, <1>5 DEF HeldRows
  <2>4. InsertedBeforeReply'
    BY <1>1, <1>2, <1>3, <1>5 DEF InsertedBeforeReply
  <2>5. QED
    BY <2>1, <2>2, <2>3, <2>4
<1>8. SkippedIsStored'
  BY <1>1, <1>2, <1>3, <1>4 DEF SkippedIsStored, Open
<1>9. QED
  BY <1>1, <1>6, <1>7, <1>8

\* CommitUnknown preserves the invariant, for the reason Commit does.
LEMMA CommitUnknownInv ==
  ASSUME ApiInv, NEW r \in Requests, CommitUnknown(r)
  PROVE  ApiInv'
<1> USE DEF ApiInv
<1>1. /\ store' \subseteq Events
      /\ store \subseteq store'
      /\ held' = [q \in Requests |-> IF q = r THEN {} ELSE held[q]]
      /\ KeysExclusive'
      /\ todo[r] = {}
  BY CommitKeys DEF CommitUnknown
<1>2. phase' = [q \in Requests |-> IF q = r THEN "closed" ELSE phase[q]]
  BY DEF CommitUnknown, ApiTypeOK
<1>3. reply' = [q \in Requests |-> IF q = r /\ reply[q] = "none" THEN "failed" ELSE reply[q]]
  BY DEF CommitUnknown, ApiTypeOK
<1>4. UNCHANGED <<batch, fresh, todo>>
  BY DEF CommitUnknown
<1>5. ApiTypeOK'
  BY <1>1, <1>2, <1>3, <1>4 DEF ApiTypeOK, Phases, Replies, ErrorReplies
<1>6. Positions' /\ Untouched' /\ HeldRows' /\ InsertedBeforeReply'
  <2>1. Positions'
    BY <1>1, <1>2, <1>3, <1>4 DEF Positions
  <2>2. Untouched'
    BY <1>1, <1>2, <1>3, <1>4 DEF Untouched
  <2>3. HeldRows'
    BY <1>1, <1>2, <1>3, <1>4 DEF HeldRows
  <2>4. InsertedBeforeReply'
    BY <1>1, <1>2, <1>3, <1>4 DEF InsertedBeforeReply
  <2>5. QED
    BY <2>1, <2>2, <2>3, <2>4
<1>7. SkippedIsStored'
  BY <1>1, <1>2, <1>3, <1>4 DEF SkippedIsStored, Open
<1>8. QED
  BY <1>1, <1>5, <1>6, <1>7

\* Respond preserves the invariant.
LEMMA RespondInv ==
  ASSUME ApiInv, NEW r \in Requests, Respond(r)
  PROVE  ApiInv'
  BY DEF Respond, Flushed, ApiInv, ApiTypeOK, Phases, Replies, Positions, Untouched,
         HeldRows, InsertedBeforeReply, KeysExclusive, SkippedIsStored, Open

\* Crash preserves the invariant: the open transactions end with their rows.
LEMMA CrashInv ==
  ASSUME ApiInv, Crash
  PROVE  ApiInv'
  BY DEF Crash, ApiInv, ApiTypeOK, Phases, Replies, Positions, Untouched,
         HeldRows, InsertedBeforeReply, KeysExclusive, SkippedIsStored, Open

\* Every step of the API and of the network preserves the invariant.
LEMMA ServeInv ==
  ASSUME ApiInv, Serve
  PROVE  ApiInv'
<1>1. CASE Crash
  BY <1>1, CrashInv
<1>2. CASE \E r \in Requests : Handle(r) \/ Fail(r)
  <2>1. PICK r \in Requests : Handle(r) \/ Fail(r)
    BY <1>2
  <2>2. CASE Reject(r) \/ CheckExisting(r) \/ InsertRow(r) \/ Commit(r) \/ Respond(r)
    BY <2>2, RejectInv, CheckExistingInv, InsertRowInv, CommitInv, RespondInv
  <2>3. CASE Lose(r) \/ CommitUnknown(r)
    BY <2>3, LoseInv, CommitUnknownInv
  <2>4. ASSUME Conflict(r) \/ DeadlockAbort(r) \/ DbError(r)
        PROVE  ApiInv'
    <3>1. phase[r] \in {"sent", "inserting", "answered"}
      BY <2>4 DEF Conflict, DeadlockAbort, DbError, NextRow, WaitsFor
    <3>2. \E why \in ErrorReplies : Rollback(r, why)
      BY <2>4 DEF Conflict, DeadlockAbort, DbError, ErrorReplies
    <3>3. QED
      BY <3>1, <3>2, RollbackInv
  <2>5. QED
    BY <2>1, <2>2, <2>3, <2>4 DEF Handle, Fail
<1>3. QED
  BY <1>1, <1>2 DEF Serve

\* Every step of the API and its clients preserves the invariant.
LEMMA ApiNextInv == ApiInv /\ [ApiNext]_apiVars => ApiInv'
<1>1. ASSUME ApiInv, ApiNext PROVE ApiInv'
  <2>1. CASE Serve
    BY <1>1, <2>1, ServeInv
  <2>2. CASE \E r \in Requests, b \in Batches : Send(r, b)
    BY <1>1, <2>2, SendInv, BatchesAreSequences
  <2>3. CASE \E r \in Requests, b \in Batches : Create(r, b)
    BY <1>1, <2>3, CreateInv, BatchesAreSequences
  <2>4. QED
    BY <1>1, <2>1, <2>2, <2>3 DEF ApiNext
<1>2. ASSUME ApiInv, UNCHANGED apiVars PROVE ApiInv'
  BY <1>2 DEF apiVars, ApiInv, ApiTypeOK, Positions, Untouched, HeldRows,
              InsertedBeforeReply, KeysExclusive, SkippedIsStored, Open
<1>3. QED
  BY <1>1, <1>2

\* The bookkeeping of the requests and of the table's keys is right in every
\* reachable state: one holder for a key, rows held by open transactions only,
\* duplicates skipped only for committed rows.
THEOREM ApiInvariant == ApiSpec => []ApiInv
  BY ApiInitInv, ApiNextInv, PTL DEF ApiSpec

-----------------------------------------------------------------------------
\* The new rows of a request that is past its commit are stored, and no two such
\* requests have a new row in common.  For CommitBeforeReply.
Landed(r) == phase[r] = "committed" \/ reply[r] = "ok"

LandedInv ==
  \A r \in Requests : Landed(r) =>
    /\ Ids(r) \subseteq store
    /\ phase[r] \in {"committed", "closed"}
    /\ \A q \in Requests \ {r} : Landed(q) => NewIds(r) \intersect NewIds(q) = {}

\* The table only grows, and a step changes it only by the commit of a request:
\* by all the events the request found absent.
LEMMA StoreSteps ==
  ASSUME ApiInv, [ApiNext]_apiVars
  PROVE  \/ store' = store
         \/ \E r \in Requests : /\ Commit(r) \/ CommitUnknown(r)
                                /\ todo[r] = {}
                                /\ held[r] = NewIds(r)
                                /\ store' = store \union NewIds(r)
<1>1. CASE UNCHANGED apiVars
  BY <1>1 DEF apiVars
<1>2. CASE Crash \/ \E r \in Requests, b \in Batches : Send(r, b) \/ Create(r, b)
  BY <1>2 DEF Crash, Send, Create
<1>3. ASSUME NEW r \in Requests, Handle(r) \/ Fail(r)
      PROVE  \/ store' = store
             \/ /\ Commit(r) \/ CommitUnknown(r)
                /\ todo[r] = {}
                /\ held[r] = NewIds(r)
                /\ store' = store \union NewIds(r)
  <2>1. CASE Commit(r) \/ CommitUnknown(r)
    <3>1. todo[r] = {} /\ phase[r] \in {"inserting", "answered"}
      BY <2>1 DEF Commit, CommitUnknown, CommitPoint, Flushed, ApiInv, InsertedBeforeReply
    <3>2. held[r] = NewIds(r)
      BY <3>1 DEF ApiInv, HeldRows, NewIds
    <3>3. QED
      BY <2>1, <3>1, <3>2 DEF Commit, CommitUnknown
  <2>2. CASE ~(Commit(r) \/ CommitUnknown(r))
    BY <1>3, <2>2 DEF Handle, Fail, Lose, Reject, CheckExisting, InsertRow, Conflict,
                      DeadlockAbort, DbError, Rollback, Respond
  <2>3. QED
    BY <2>1, <2>2
<1>4. QED
  BY <1>1, <1>2, <1>3 DEF ApiNext, Serve

\* One step of the table adds the whole batch of new events of one request.
THEOREM BatchesAreAtomic == ApiSpec => BatchAtomic
<1>1. ApiInv /\ [ApiNext]_apiVars =>
        [store' # store => \E r \in Requests : todo[r] = {} /\ store' = store \union NewIds(r)]_apiVars
  BY StoreSteps
<1>2. QED
  BY <1>1, ApiInvariant, PTL DEF ApiSpec, BatchAtomic

\* Nothing has landed at the start.
LEMMA LandedInit == ApiInit => LandedInv
  BY DEF ApiInit, LandedInv, Landed

\* A step leaves the requests that have landed as they are and lands at most the
\* one that it commits or answers.
LEMMA LandedSteps ==
  ASSUME CommitBeforeReply, ApiInv, LandedInv, [ApiNext]_apiVars
  PROVE  /\ \A q \in Requests : Landed(q) =>
              Ids(q)' = Ids(q) /\ NewIds(q)' = NewIds(q) /\ phase'[q] \in {"committed", "closed"}
         /\ \A q \in Requests : Landed(q)' => Landed(q) \/ Commit(q)
         /\ store \subseteq store'
<1>1. CASE UNCHANGED apiVars
  BY <1>1 DEF apiVars, Ids, NewIds, Landed, LandedInv
<1>2. CASE Crash
  BY <1>2 DEF Crash, Ids, NewIds, Landed, LandedInv, Open
<1>3. ASSUME NEW r \in Requests, NEW b \in Batches, Send(r, b) \/ Create(r, b)
      PROVE  /\ \A q \in Requests : Landed(q) =>
                  Ids(q)' = Ids(q) /\ NewIds(q)' = NewIds(q) /\ phase'[q] \in {"committed", "closed"}
             /\ \A q \in Requests : Landed(q)' => Landed(q) \/ Commit(q)
             /\ store \subseteq store'
  BY <1>3 DEF Send, Create, Ids, NewIds, Landed, LandedInv, ApiInv, ApiTypeOK
<1>4. ASSUME NEW r \in Requests, Handle(r) \/ Fail(r)
      PROVE  /\ \A q \in Requests : Landed(q) =>
                  Ids(q)' = Ids(q) /\ NewIds(q)' = NewIds(q) /\ phase'[q] \in {"committed", "closed"}
             /\ \A q \in Requests : Landed(q)' => Landed(q) \/ Commit(q)
             /\ store \subseteq store'
  <2> USE DEF Ids, NewIds, Landed, LandedInv, ApiInv, ApiTypeOK
  <2>1. CASE Lose(r)
    BY <2>1 DEF Lose
  <2>2. CASE Reject(r)
    BY <2>2 DEF Reject
  <2>3. CASE CheckExisting(r)
    BY <2>3 DEF CheckExisting
  <2>4. CASE InsertRow(r)
    BY <2>4 DEF InsertRow
  <2>5. CASE \E why \in ErrorReplies : Rollback(r, why)
    BY <2>5 DEF Rollback, ErrorReplies
  <2>6. CASE Commit(r)
    BY <2>6 DEF Commit, CommitPoint, Flushed
  <2>7. CASE CommitUnknown(r)
    BY <2>7 DEF CommitUnknown, CommitPoint, Flushed
  <2>8. CASE Respond(r)
    BY <2>8 DEF Respond
  <2>9. (Conflict(r) \/ DeadlockAbort(r) \/ DbError(r)) => \E why \in ErrorReplies : Rollback(r, why)
    BY DEF Conflict, DeadlockAbort, DbError, ErrorReplies
  <2>10. QED
    BY <1>4, <2>1, <2>2, <2>3, <2>4, <2>5, <2>6, <2>7, <2>8, <2>9 DEF Handle, Fail
<1>5. QED
  BY <1>1, <1>2, <1>3, <1>4 DEF ApiNext, Serve

\* A request that commits has every one of its events in the table, and none of
\* those it adds was there before.
LEMMA LandedNext ==
  ASSUME CommitBeforeReply, ApiInv, LandedInv, [ApiNext]_apiVars
  PROVE  LandedInv'
<1>1. ASSUME NEW r \in Requests, Commit(r)
      PROVE  /\ Ids(r)' \subseteq store'
             /\ NewIds(r)' = NewIds(r)
             /\ NewIds(r) \intersect store = {}
             /\ phase'[r] = "committed"
             /\ \A q \in Requests : Commit(q) => q = r
  <2>1. phase[r] = "inserting" /\ todo[r] = {}
    BY <1>1 DEF Commit, CommitPoint, Flushed
  <2>2. held[r] = NewIds(r) /\ NewIds(r) \intersect store = {}
    BY <2>1 DEF ApiInv, HeldRows, KeysExclusive, NewIds
  <2>3. \A i \in DOMAIN batch[r] : batch[r][i] \in store \union NewIds(r)
    BY <2>1 DEF ApiInv, SkippedIsStored, Open, NewIds
  <2>4. \A q \in Requests : Commit(q) => q = r
    BY <1>1 DEF Commit, CommitPoint, Flushed, ApiInv, ApiTypeOK
  <2>5. QED
    BY <1>1, <2>2, <2>3, <2>4 DEF Commit, Ids, NewIds, ApiInv, ApiTypeOK
<1>2. /\ \A q \in Requests : Landed(q) =>
           Ids(q)' = Ids(q) /\ NewIds(q)' = NewIds(q) /\ phase'[q] \in {"committed", "closed"}
      /\ \A q \in Requests : Landed(q)' => Landed(q) \/ Commit(q)
      /\ store \subseteq store'
  BY LandedSteps
<1>3. \A q \in Requests : NewIds(q) \subseteq Ids(q)
  BY DEF NewIds, Ids, ApiInv, Positions
<1>4. ASSUME NEW r \in Requests, Landed(r)'
      PROVE  Ids(r)' \subseteq store' /\ phase'[r] \in {"committed", "closed"}
  BY <1>1, <1>2, <1>4 DEF LandedInv
<1>5. ASSUME NEW r \in Requests, NEW q \in Requests \ {r}, Landed(r)', Landed(q)'
      PROVE  NewIds(r)' \intersect NewIds(q)' = {}
  <2>1. CASE Landed(r) /\ Landed(q)
    BY <1>2, <2>1 DEF LandedInv
  <2>2. CASE Landed(r) /\ Commit(q)
    BY <1>1, <1>2, <1>3, <2>2 DEF LandedInv
  <2>3. CASE Commit(r) /\ Landed(q)
    BY <1>1, <1>2, <1>3, <2>3 DEF LandedInv
  <2>4. QED
    BY <1>1, <1>2, <1>5, <2>1, <2>2, <2>3
<1>6. QED
  BY <1>4, <1>5 DEF LandedInv

\* When the session is closed before the reply is sent, an answer of 200 means
\* that all the rows of its request are committed, and by that request alone.
THEOREM LandedInvariant == ApiSpec /\ CommitBeforeReply => [](ApiInv /\ LandedInv)
<1>1. CASE CommitBeforeReply
  <2>1. ApiInv /\ LandedInv /\ [ApiNext]_apiVars => LandedInv'
    BY <1>1, LandedNext
  <2>2. QED
    BY <2>1, LandedInit, ApiInvariant, PTL DEF ApiSpec
<1>2. QED
  BY <1>1

\* An answer of 200 means that every event of the batch is in the database.
THEOREM AckedEventsAreStored == ApiSpec /\ CommitBeforeReply => []AckedIsStored
<1>1. LandedInv => AckedIsStored
  BY DEF LandedInv, Landed, AckedIsStored
<1>2. QED
  BY <1>1, LandedInvariant, PTL

\* No event is counted as ingested by two answers.
THEOREM EventsAreIngestedOnce == ApiSpec /\ CommitBeforeReply => []IngestedOnce
<1>1. LandedInv => IngestedOnce
  BY DEF LandedInv, Landed, IngestedOnce
<1>2. QED
  BY <1>1, LandedInvariant, PTL

-----------------------------------------------------------------------------
\* A request is refused for a taken key by the action Conflict only, and keeps
\* its batch and the positions it found absent from then on.
LEMMA ConflictSteps ==
  ASSUME ApiInv, [ApiNext]_apiVars, NEW q \in Requests, reply'[q] = "conflict"
  PROVE  /\ reply[q] = "conflict" \/ Conflict(q)
         /\ batch'[q] = batch[q] /\ fresh'[q] = fresh[q]
<1> USE DEF ApiInv, ApiTypeOK
<1>1. CASE UNCHANGED apiVars
  BY <1>1 DEF apiVars
<1>2. CASE Crash
  BY <1>2 DEF Crash
<1>3. ASSUME NEW r \in Requests, NEW b \in Batches, Send(r, b) \/ Create(r, b)
      PROVE  reply[q] = "conflict" /\ batch'[q] = batch[q] /\ fresh'[q] = fresh[q]
  BY <1>3 DEF Send, Create, Untouched
<1>4. ASSUME NEW r \in Requests, Handle(r) \/ Fail(r)
      PROVE  /\ reply[q] = "conflict" \/ Conflict(q)
             /\ batch'[q] = batch[q] /\ fresh'[q] = fresh[q]
  <2>1. CASE Lose(r) \/ Reject(r) \/ InsertRow(r) \/ Commit(r) \/ CommitUnknown(r) \/ Respond(r)
    BY <2>1 DEF Lose, Reject, InsertRow, Commit, CommitUnknown, Respond
  <2>2. CASE CheckExisting(r)
    BY <2>2 DEF CheckExisting, Untouched
  <2>3. CASE Conflict(r)
    <3>1. r # q => reply[q] = "conflict"
      BY <2>3 DEF Conflict, Rollback
    <3>2. UNCHANGED <<batch, fresh>>
      BY <2>3 DEF Conflict, Rollback
    <3>3. QED
      BY <2>3, <3>1, <3>2
  <2>4. CASE DeadlockAbort(r) \/ DbError(r)
    BY <2>4 DEF DeadlockAbort, DbError, Rollback
  <2>5. QED
    BY <1>4, <2>1, <2>2, <2>3, <2>4 DEF Handle, Fail
<1>5. QED
  BY <1>1, <1>2, <1>3, <1>4 DEF ApiNext, Serve

\* A refusal for a taken key has a cause that lasts.
THEOREM ConflictsHaveCauses == ApiSpec => []ConflictHasCause
<1>1. ApiInit => ConflictHasCause
  BY DEF ApiInit, ConflictHasCause
<1>2. ASSUME ApiInv, ConflictHasCause, [ApiNext]_apiVars PROVE ConflictHasCause'
  <2>1. store \subseteq store'
    BY <1>2, StoreSteps
  <2>2. ASSUME NEW q \in Requests, reply'[q] = "conflict"
        PROVE  \/ NewIds(q) \intersect store # {}
               \/ \E i, j \in fresh[q] : i # j /\ batch[q][i] = batch[q][j]
    <3>1. CASE reply[q] = "conflict"
      BY <1>2, <3>1 DEF ConflictHasCause
    <3>2. CASE Conflict(q)
      <4>1. PICK i \in todo[q] : NextRow(q, i) /\ batch[q][i] \in store \union held[q]
        BY <3>2 DEF Conflict
      <4>2. i \in fresh[q]
        BY <1>2 DEF ApiInv, Positions
      <4>3. held[q] = {batch[q][j] : j \in fresh[q] \ todo[q]}
        BY <1>2, <4>1 DEF ApiInv, HeldRows, NextRow
      <4>4. QED
        BY <4>1, <4>2, <4>3 DEF NewIds
    <3>3. QED
      BY <1>2, <2>2, <3>1, <3>2, ConflictSteps
  <2>3. ASSUME NEW q \in Requests, reply'[q] = "conflict"
        PROVE  batch'[q] = batch[q] /\ fresh'[q] = fresh[q]
    BY <1>2, <2>3, ConflictSteps
  <2>4. QED
    BY <2>1, <2>2, <2>3 DEF ConflictHasCause, NewIds
<1>3. QED
  BY <1>1, <1>2, ApiInvariant, PTL DEF ApiSpec

-----------------------------------------------------------------------------
\* An answer that precedes the commit stands for rows that are stored or inserted.
THEOREM AnsweredEventsAreInserted == ApiSpec => []AnsweredIsInserted
<1>1. ApiInv => AnsweredIsInserted
  <2> SUFFICES ASSUME ApiInv, NEW r \in Requests, phase[r] = "answered",
                      NEW i \in DOMAIN batch[r]
      PROVE  batch[r][i] \in store \union held[r]
    BY DEF AnsweredIsInserted, Ids
  <2>1. todo[r] = {} /\ held[r] = {batch[r][j] : j \in fresh[r] \ todo[r]}
    BY DEF ApiInv, InsertedBeforeReply, HeldRows
  <2>2. i \in fresh[r] \/ batch[r][i] \in store
    BY DEF ApiInv, SkippedIsStored, Open
  <2>3. QED
    BY <2>1, <2>2
<1>2. QED
  BY <1>1, ApiInvariant, PTL

\* The rows of one INSERT go in by their position: those that are in precede
\* those that are still to come.
RowsInOrder ==
  \A r \in Requests : \A j \in fresh[r] \ todo[r] : \A k \in todo[r] : j < k

\* Only InsertRow takes a row off those to come, and it takes the first one.
LEMMA RowsInOrderNext ==
  ASSUME ApiInv, RowsInOrder, [ApiNext]_apiVars
  PROVE  RowsInOrder'
<1> USE DEF ApiInv, ApiTypeOK
<1>1. CASE UNCHANGED <<fresh, todo>>
  BY <1>1 DEF RowsInOrder
<1>2. ASSUME NEW r \in Requests, NEW b \in Batches, Send(r, b) \/ Create(r, b)
      PROVE  RowsInOrder'
  BY <1>2 DEF Send, Create, RowsInOrder
<1>3. ASSUME NEW r \in Requests, CheckExisting(r)
      PROVE  RowsInOrder'
  BY <1>3 DEF CheckExisting, RowsInOrder
<1>4. ASSUME NEW r \in Requests, InsertRow(r)
      PROVE  RowsInOrder'
  <2>1. PICK i \in todo[r] : /\ \A j \in todo[r] : i <= j
                             /\ todo' = [todo EXCEPT ![r] = @ \ {i}]
                             /\ fresh' = fresh
    BY <1>4 DEF InsertRow, NextRow
  <2>2. todo[r] \subseteq Nat /\ fresh[r] \subseteq Nat
    OBVIOUS
  <2>3. \A k \in todo'[r] : i < k
    BY <2>1, <2>2
  <2>4. QED
    BY <2>1, <2>3 DEF RowsInOrder
<1>5. CASE Crash \/ \E r \in Requests :
             \/ Reject(r) \/ Conflict(r) \/ DeadlockAbort(r) \/ Commit(r) \/ Respond(r)
             \/ Fail(r)
  BY <1>1, <1>5 DEF Crash, Reject, Conflict, DeadlockAbort, Commit, Respond, Fail, Lose,
                    DbError, CommitUnknown, Rollback
<1>6. QED
  BY <1>1, <1>2, <1>3, <1>4, <1>5 DEF ApiNext, Serve, Handle, apiVars

\* The rows of a request are inserted in their order, whatever interrupts it.
THEOREM RowsGoInInOrder == ApiSpec => []RowsInOrder
<1>1. ApiInit => RowsInOrder
  BY DEF ApiInit, RowsInOrder
<1>2. QED
  BY <1>1, RowsInOrderNext, ApiInvariant, PTL DEF ApiSpec
=============================================================================
