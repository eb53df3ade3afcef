------------------------------ MODULE IngestApi ------------------------------
(***************************************************************************)
(* The batch ingestion endpoint POST /events/ingest, and POST /events and  *)
(* POST /events/bulk, which make the ids themselves: concurrent requests,  *)
(* each in a database transaction of its own, over the events table whose  *)
(* primary key is the id the event was given.                              *)
(*                                                                         *)
(* An ingestion reads which of its ids exist (get_existing_ids), adds the  *)
(* others (create_many: one INSERT whose rows go in one after the other)   *)
(* and commits when its session is closed.  PostgreSQL runs at its default *)
(* READ COMMITTED: the SELECT sees committed rows only, and an INSERT of a *)
(* key that another open transaction has inserted waits for that           *)
(* transaction's end.                                                      *)
(***************************************************************************)
EXTENDS Naturals, Sequences, FiniteSets

CONSTANTS
  Events,             \* event ids, the uuid4 values of event_id
  Requests,           \* requests that clients may post
  Malformed,          \* ids of the items that IngestEventItem rejects
  MaxBatch,           \* IngestRequest.events: max_length; for Create only a bound of the model
  Connections,        \* pool_size + max_overflow of create_async_engine
  CommitBeforeReply   \* whether the session is closed before the reply is sent

ASSUME MaxBatchAssumption == MaxBatch \in Nat \ {0}
ASSUME ConnectionsAssumption == Connections \in Nat \ {0}
ASSUME MalformedAssumption == Malformed \subseteq Events
ASSUME CommitBeforeReplyAssumption == CommitBeforeReply \in BOOLEAN

VARIABLES
  store,    \* ids of the committed rows of the events table
  phase,    \* how far each request has come
  batch,    \* the ids it carries, in order
  fresh,    \* positions of the items it found absent: IngestResponse.ingested
  todo,     \* the positions among these whose row is not inserted yet
  held,     \* ids of the rows it has inserted and neither committed nor undone
  reply     \* the answer it was sent

apiVars == <<store, phase, batch, fresh, todo, held, reply>>

Phases == {"unsent", "sent", "inserting", "committed", "answered", "closed"}
\* 422, the 409 of the transactions endpoint, and three causes of a 500.
ErrorReplies == {"unprocessable", "refused", "conflict", "deadlock", "failed"}
Replies == {"none", "ok"} \union ErrorReplies

Batches == UNION {[1 .. n -> Events] : n \in 1 .. MaxBatch}
Ids(r) == {batch[r][i] : i \in DOMAIN batch[r]}
NewIds(r) == {batch[r][i] : i \in fresh[r]}
\* The requests whose session holds a connection of the pool; others wait for one,
\* until it is free or the pool's timeout passes (DbError).
Connected == {r \in Requests : phase[r] \in {"inserting", "answered"}}
Open(r) == phase[r] \in {"inserting", "committed", "answered"}

ApiTypeOK ==
  /\ store \subseteq Events
  /\ phase \in [Requests -> Phases]
  /\ batch \in [Requests -> Seq(Events)]
  /\ fresh \in [Requests -> SUBSET Nat]
  /\ todo \in [Requests -> SUBSET Nat]
  /\ held \in [Requests -> SUBSET Events]
  /\ reply \in [Requests -> Replies]

ApiInit ==
  /\ store = {}
  /\ phase = [r \in Requests |-> "unsent"]
  /\ batch = [r \in Requests |-> <<>>]
  /\ fresh = [r \in Requests |-> {}]
  /\ todo = [r \in Requests |-> {}]
  /\ held = [r \in Requests |-> {}]
  /\ reply = [r \in Requests |-> "none"]

-----------------------------------------------------------------------------
(* The network, and the requests without ids of their own *)

\* A client posts batch b.
Send(r, b) ==
  /\ phase[r] = "unsent"
  /\ phase' = [phase EXCEPT ![r] = "sent"]
  /\ batch' = [batch EXCEPT ![r] = b]
  /\ UNCHANGED <<store, fresh, todo, held, reply>>

\* Ids that nobody has used: uuid4 in the server.
Unused(b) ==
  /\ \A i \in DOMAIN b : b[i] \notin store \union Malformed \union UNION {Ids(r) : r \in Requests}
  /\ \A i, j \in DOMAIN b : i # j => b[i] # b[j]

\* POST /events, POST /events/bulk: the server makes the ids b, and inserts
\* without a look at the table.  Their number has no limit in EventBulkCreateRequest:
\* MaxBatch is only a bound of the model here.
Create(r, b) ==
  /\ phase[r] = "unsent"
  /\ Unused(b)
  /\ Cardinality(Connected) < Connections
  /\ phase' = [phase EXCEPT ![r] = "inserting"]
  /\ batch' = [batch EXCEPT ![r] = b]
  /\ fresh' = [fresh EXCEPT ![r] = DOMAIN b]
  /\ todo' = [todo EXCEPT ![r] = DOMAIN b]
  /\ UNCHANGED <<store, held, reply>>

\* The request never reaches the application.
Lose(r) ==
  /\ phase[r] = "sent"
  /\ phase' = [phase EXCEPT ![r] = "closed"]
  /\ UNCHANGED <<store, batch, fresh, todo, held, reply>>

-----------------------------------------------------------------------------
(* The handler *)

\* Validation answers 422 for the whole request when any item is malformed.
Reject(r) ==
  /\ phase[r] = "sent"
  /\ Ids(r) \intersect Malformed # {}
  /\ phase' = [phase EXCEPT ![r] = "closed"]
  /\ reply' = [reply EXCEPT ![r] = "unprocessable"]
  /\ UNCHANGED <<store, batch, fresh, todo, held>>

\* (mutation) The lookup sees rows that are not committed, as at READ UNCOMMITTED.
CheckExistingDirtyRead(r) ==
  /\ phase[r] = "sent"
  /\ Cardinality(Connected) < Connections
  /\ Ids(r) \intersect Malformed = {}
  /\ LET absent == {i \in DOMAIN batch[r] :
                     batch[r][i] \notin store \union UNION {held[q] : q \in Requests}}
     IN /\ fresh' = [fresh EXCEPT ![r] = absent]
        /\ todo' = [todo EXCEPT ![r] = absent]
  /\ phase' = [phase EXCEPT ![r] = "inserting"]
  /\ UNCHANGED <<store, batch, held, reply>>

\* get_existing_ids, then the loop that sorts items into duplicates and new.
\* An id that the batch carries twice is new twice: only the table is asked.
CheckExisting(r) ==
  /\ phase[r] = "sent"
  /\ Cardinality(Connected) < Connections
  /\ Ids(r) \intersect Malformed = {}
  /\ LET absent == {i \in DOMAIN batch[r] : batch[r][i] \notin store}
     IN /\ fresh' = [fresh EXCEPT ![r] = absent]
        /\ todo' = [todo EXCEPT ![r] = absent]
  /\ phase' = [phase EXCEPT ![r] = "inserting"]
  /\ UNCHANGED <<store, batch, held, reply>>

\* The row that the INSERT of create_many has come to is the one at position i.
NextRow(r, i) ==
  /\ phase[r] = "inserting"
  /\ i \in todo[r]
  /\ \A j \in todo[r] : i <= j

\* That row's key is held by the open transaction of request q.
WaitsFor(r, q) == \E i \in todo[r] : NextRow(r, i) /\ q # r /\ batch[r][i] \in held[q]

Waiting(r) == \E q \in Requests : WaitsFor(r, q)

\* (mutation) INSERT ... ON CONFLICT DO NOTHING, which still counts the row.
InsertRowOrSkip(r) ==
  /\ ~Waiting(r)
  /\ \E i \in todo[r] :
       /\ NextRow(r, i)
       /\ held' = [held EXCEPT ![r] = @ \union ({batch[r][i]} \ store)]
       /\ todo' = [todo EXCEPT ![r] = @ \ {i}]
  /\ UNCHANGED <<store, phase, batch, fresh, reply>>

\* (mutation) Every row is committed as it is inserted (autocommit).
InsertRowAutocommit(r) ==
  /\ ~Waiting(r)
  /\ \E i \in todo[r] :
       /\ NextRow(r, i)
       /\ batch[r][i] \notin store
       /\ store' = store \union {batch[r][i]}
       /\ todo' = [todo EXCEPT ![r] = @ \ {i}]
  /\ UNCHANGED <<phase, batch, fresh, held, reply>>

\* (mutation) The row goes in although another transaction holds its key.
InsertRowUnlocked(r) ==
  /\ \E i \in todo[r] :
       /\ NextRow(r, i)
       /\ batch[r][i] \notin store \union held[r]
       /\ held' = [held EXCEPT ![r] = @ \union {batch[r][i]}]
       /\ todo' = [todo EXCEPT ![r] = @ \ {i}]
  /\ UNCHANGED <<store, phase, batch, fresh, reply>>

InsertRow(r) ==
  /\ ~Waiting(r)
  /\ \E i \in todo[r] :
       /\ NextRow(r, i)
       /\ batch[r][i] \notin store \union held[r]
       /\ held' = [held EXCEPT ![r] = @ \union {batch[r][i]}]
       /\ todo' = [todo EXCEPT ![r] = @ \ {i}]
  /\ UNCHANGED <<store, phase, batch, fresh, reply>>

\* (mutation) The session is committed on the way out of an exception too.
RollbackCommits(r, why) ==
  /\ store' = store \union held[r]
  /\ phase' = [phase EXCEPT ![r] = "closed"]
  /\ held' = [held EXCEPT ![r] = {}]
  /\ reply' = [reply EXCEPT ![r] = IF @ = "none" THEN why ELSE @]
  /\ UNCHANGED <<batch, fresh, todo>>

\* session.rollback() undoes every row of the request; the exception it
\* re-raises is answered 500 unless a reply has gone out already.
Rollback(r, why) ==
  /\ phase' = [phase EXCEPT ![r] = "closed"]
  /\ held' = [held EXCEPT ![r] = {}]
  /\ reply' = [reply EXCEPT ![r] = IF @ = "none" THEN why ELSE @]
  /\ UNCHANGED <<store, batch, fresh, todo>>

\* (mutation) A key that an open transaction holds is refused without waiting.
ConflictNoWait(r) ==
  /\ \E i \in todo[r] : NextRow(r, i) /\ (Waiting(r) \/ batch[r][i] \in store \union held[r])
  /\ Rollback(r, "conflict")

\* The primary key is taken: IntegrityError out of session.flush().
Conflict(r) ==
  /\ ~Waiting(r)
  /\ \E i \in todo[r] : NextRow(r, i) /\ batch[r][i] \in store \union held[r]
  /\ Rollback(r, "conflict")

\* (mutation) Cycles of waiting transactions are not broken.
NoDeadlockAbort(r) == FALSE /\ Rollback(r, "deadlock")

\* PostgreSQL breaks a cycle of waiting transactions by failing one on it.
DeadlockAbort(r) ==
  /\ \E S \in SUBSET Requests :
       /\ r \in S
       /\ \A p \in S : \E q \in S : WaitsFor(p, q)
       /\ \A q \in S : \E p \in S : WaitsFor(p, q)
  /\ Rollback(r, "deadlock")

\* Any other database error: in the lookup, in the INSERT or in the COMMIT.
DbError(r) ==
  /\ phase[r] \in {"sent", "inserting", "answered"}
  /\ Rollback(r, "failed")

\* create_many has returned: every new row is inserted.
Flushed(r) == phase[r] = "inserting" /\ todo[r] = {}

CommitPoint(r) == IF CommitBeforeReply THEN Flushed(r) ELSE phase[r] = "answered"

\* session.commit(), when the request's session dependency is closed.
Commit(r) ==
  /\ CommitPoint(r)
  /\ store' = store \union held[r]
  /\ held' = [held EXCEPT ![r] = {}]
  /\ phase' = [phase EXCEPT ![r] = IF CommitBeforeReply THEN "committed" ELSE "closed"]
  /\ UNCHANGED <<batch, fresh, todo, reply>>

\* The commit takes effect but the connection is lost before the database says so.
CommitUnknown(r) ==
  /\ CommitPoint(r)
  /\ store' = store \union held[r]
  /\ held' = [held EXCEPT ![r] = {}]
  /\ phase' = [phase EXCEPT ![r] = "closed"]
  /\ reply' = [reply EXCEPT ![r] = IF @ = "none" THEN "failed" ELSE @]
  /\ UNCHANGED <<batch, fresh, todo>>

\* (mutation) The reply goes out as soon as create_many returns.
RespondBeforeCommit(r) ==
  /\ Flushed(r) /\ reply[r] = "none"
  /\ reply' = [reply EXCEPT ![r] = "ok"]
  /\ UNCHANGED <<store, phase, batch, fresh, todo, held>>

\* The IngestResponse is sent.
Respond(r) ==
  /\ IF CommitBeforeReply THEN phase[r] = "committed" ELSE Flushed(r)
  /\ reply' = [reply EXCEPT ![r] = "ok"]
  /\ phase' = [phase EXCEPT ![r] = IF CommitBeforeReply THEN "closed" ELSE "answered"]
  /\ UNCHANGED <<store, batch, fresh, todo, held>>

\* The API process stops and is started again: the requests it was serving
\* end without an answer and the database undoes their open transactions.
Crash ==
  /\ \E r \in Requests : Open(r)
  /\ phase' = [r \in Requests |-> IF Open(r) THEN "closed" ELSE phase[r]]
  /\ held' = [r \in Requests |-> {}]
  /\ UNCHANGED <<store, batch, fresh, todo, reply>>

-----------------------------------------------------------------------------
\* What the event loop and the database do by themselves for a request ...
Handle(r) ==
  \/ Reject(r) \/ CheckExisting(r) \/ InsertRow(r) \/ Conflict(r)
  \/ DeadlockAbort(r) \/ Commit(r) \/ Respond(r)

\* ... and what may befall it.
Fail(r) == Lose(r) \/ DbError(r) \/ CommitUnknown(r)

Serve == (\E r \in Requests : Handle(r) \/ Fail(r)) \/ Crash

ApiNext == Serve \/ \E r \in Requests, b \in Batches : Send(r, b) \/ Create(r, b)

ApiSpec == ApiInit /\ [][ApiNext]_apiVars

\* The event loop and the database keep working on every request they hold;
\* no failure is ever owed.
ApiFairness == \A r \in Requests : WF_apiVars(Handle(r))

FairApiSpec == ApiSpec /\ ApiFairness

-----------------------------------------------------------------------------
(* Properties *)

\* The rows of the table and of the open transactions are what the requests
\* say: the type invariant, the rows each request has still to insert, the rows
\* it holds, one holder for a key, and items skipped as duplicates only when
\* their row is committed.
Positions ==
  \A r \in Requests : todo[r] \subseteq fresh[r] /\ fresh[r] \subseteq DOMAIN batch[r]

Untouched ==
  \A r \in Requests :
    /\ phase[r] = "unsent" => batch[r] = <<>>
    /\ phase[r] \in {"unsent", "sent"} => fresh[r] = {} /\ held[r] = {} /\ reply[r] = "none"

HeldRows ==
  \A r \in Requests :
    held[r] = IF phase[r] \in {"inserting", "answered"}
                THEN {batch[r][i] : i \in fresh[r] \ todo[r]}
                ELSE {}

InsertedBeforeReply ==
  \A r \in Requests : phase[r] \in {"committed", "answered"} \/ reply[r] = "ok" => todo[r] = {}

KeysExclusive ==
  \A r \in Requests :
    /\ held[r] \intersect store = {}
    /\ \A q \in Requests \ {r} : held[r] \intersect held[q] = {}

SkippedIsStored ==
  \A r \in Requests : Open(r) \/ reply[r] = "ok" =>
    \A i \in DOMAIN batch[r] \ fresh[r] : batch[r][i] \in store

ApiInv ==
  /\ ApiTypeOK
  /\ Positions
  /\ Untouched
  /\ HeldRows
  /\ InsertedBeforeReply
  /\ KeysExclusive
  /\ SkippedIsStored

\* A client that was answered 200 finds every event of its batch in the
\* database, the skipped duplicates too (EventService.ingest_batch reports as a
\* duplicate what it only read).  For CommitBeforeReply.
AckedIsStored == \A r \in Requests : reply[r] = "ok" => Ids(r) \subseteq store

\* No two answers count the same event as ingested, however the requests that
\* carry it overlap: the sum of the "ingested" counts is the number of rows.
\* For CommitBeforeReply.
IngestedOnce ==
  \A r, q \in Requests :
    r # q /\ reply[r] = "ok" /\ reply[q] = "ok" => NewIds(r) \intersect NewIds(q) = {}

\* A request refused for a taken key had a reason that lasts: one of its events
\* really is stored, or it carries one twice.  It was not refused for a row that
\* another request inserted and then took back.
ConflictHasCause ==
  \A r \in Requests : reply[r] = "conflict" =>
    \/ NewIds(r) \intersect store # {}
    \/ \E i, j \in fresh[r] : i # j /\ batch[r][i] = batch[r][j]

\* When the reply precedes the commit, an acknowledged batch whose transaction
\* is still open is stored or inserted, never merely read.
AnsweredIsInserted ==
  \A r \in Requests : phase[r] = "answered" => Ids(r) \subseteq store \union held[r]

\* The table changes by whole batches: one step adds all the events a request
\* found absent, or nothing, and never takes a row away.
BatchAtomic ==
  [][store' # store => \E r \in Requests : todo[r] = {} /\ store' = store \union NewIds(r)]_apiVars

\* Every request that is posted comes to an end and gives up its rows, also when
\* requests wait for each other's keys in a cycle.
RequestsEnd ==
  \A r \in Requests : phase[r] \in {"sent", "inserting"} ~> (phase[r] = "closed" /\ held[r] = {})
=============================================================================
