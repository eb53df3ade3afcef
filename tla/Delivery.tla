------------------------------ MODULE Delivery ------------------------------
(***************************************************************************)
(* The pipeline's EventEmitter delivering to the ingestion endpoint.  A    *)
(* camera process emits events one after the other; a full buffer, and the *)
(* end of the video, is posted as one batch, up to MaxRetries times, each  *)
(* attempt a request of its own.  The pipeline is one thread: it does      *)
(* nothing else while a batch is posted.  But an attempt it has given up   *)
(* waiting for lives on in the API, next to its retry.                     *)
(***************************************************************************)
EXTENDS IngestApi

CONSTANTS
  BatchSize,    \* EventEmitter batch_size
  MaxRetries,   \* EventEmitter max_retries
  MaxFlushes,   \* bound on the number of batches posted
  DryRun        \* EventEmitter dry_run

ASSUME BatchSizeAssumption == BatchSize \in 1 .. MaxBatch
ASSUME MaxRetriesAssumption == MaxRetries \in Nat \ {0}
ASSUME MaxFlushesAssumption == MaxFlushes \in Nat
ASSUME DryRunAssumption == DryRun \in BOOLEAN
\* A request of the emitter is named by the flush and the attempt it is.
ASSUME RequestsAssumption == Requests = (1 .. MaxFlushes) \X (1 .. MaxRetries)

VARIABLES
  emitted,       \* ids of the events emitted so far
  buffer,        \* _buffer
  estate,        \* what the emitter is doing
  attempt,       \* attempt of the current flush
  flushes,       \* flushes begun
  video,         \* "running", or "ended" once the last flush was called
  totalEmitted,  \* _total_emitted
  totalErrors    \* _total_errors

emitterVars == <<emitted, buffer, estate, attempt, flushes, video, totalEmitted, totalErrors>>
vars == <<apiVars, emitterVars>>

Buffered == {buffer[i] : i \in DOMAIN buffer}
Current == <<flushes, attempt>>

TypeOK ==
  /\ ApiTypeOK
  /\ emitted \subseteq Events
  /\ buffer \in Seq(Events)
  /\ estate \in {"idle", "posting", "waiting"}
  /\ attempt \in 1 .. MaxRetries
  /\ flushes \in Nat
  /\ video \in {"running", "ended"}
  /\ totalEmitted \in Nat
  /\ totalErrors \in Nat

Init ==
  /\ ApiInit
  /\ emitted = {}
  /\ buffer = <<>>
  /\ estate = "idle"
  /\ attempt = 1
  /\ flushes = 0
  /\ video = "running"
  /\ totalEmitted = 0
  /\ totalErrors = 0

-----------------------------------------------------------------------------
(* EventEmitter *)

\* _flush() of a buffer that holds buf: a dry run counts the events and clears;
\* otherwise the retry loop starts at its first attempt.
Flush(buf) ==
  IF DryRun \/ buf = <<>>
    THEN /\ buffer' = <<>>
         /\ totalEmitted' = totalEmitted + Len(buf)
         /\ UNCHANGED <<estate, attempt, flushes>>
    ELSE /\ flushes < MaxFlushes
         /\ buffer' = buf
         /\ estate' = "posting"
         /\ attempt' = 1
         /\ flushes' = flushes + 1
         /\ UNCHANGED totalEmitted

\* emit(): the event gets a fresh id and joins the buffer, which is flushed
\* within the call when it is full.
Emit(e) ==
  /\ estate = "idle" /\ video = "running"
  /\ e \notin emitted
  /\ emitted' = emitted \union {e}
  /\ IF Len(buffer) + 1 >= BatchSize
       THEN Flush(Append(buffer, e))
       ELSE /\ buffer' = Append(buffer, e)
            /\ UNCHANGED <<estate, attempt, flushes, totalEmitted>>
  /\ UNCHANGED <<apiVars, video, totalErrors>>

\* (mutation) The video ends without the last flush.
EndOfVideoNoFlush ==
  /\ estate = "idle" /\ video = "running"
  /\ video' = "ended"
  /\ UNCHANGED <<apiVars, emitted, buffer, estate, attempt, flushes, totalEmitted, totalErrors>>

\* process_video's finally clause: flush() at the end of the video.
EndOfVideo ==
  /\ estate = "idle" /\ video = "running"
  /\ video' = "ended"
  /\ Flush(buffer)
  /\ UNCHANGED <<apiVars, emitted, totalErrors>>

\* (mutation) The payload is built from the buffer in any order.
PostUnordered ==
  /\ estate = "posting"
  /\ estate' = "waiting"
  /\ \E b \in [DOMAIN buffer -> Buffered] :
       /\ {b[i] : i \in DOMAIN b} = Buffered
       /\ Send(Current, b)
  /\ UNCHANGED <<emitted, buffer, attempt, flushes, video, totalEmitted, totalErrors>>

\* requests.post, after the wait that precedes a retry.
Post ==
  /\ estate = "posting"
  /\ estate' = "waiting"
  /\ Send(Current, buffer)
  /\ UNCHANGED <<emitted, buffer, attempt, flushes, video, totalEmitted, totalErrors>>

\* (mutation) raise_for_status is left out: any answer empties the buffer.
SucceedOnAnyStatus ==
  /\ estate = "waiting"
  /\ reply[Current] # "none"
  /\ totalEmitted' =
       totalEmitted + IF reply[Current] = "ok" THEN Cardinality(fresh[Current]) ELSE 0
  /\ buffer' = <<>>
  /\ estate' = "idle"
  /\ UNCHANGED <<apiVars, emitted, attempt, flushes, video, totalErrors>>

\* A 200 arrives.  It reports no item errors: building an Event from a
\* validated item raises nothing.  Duplicates are counted nowhere.
Succeed ==
  /\ estate = "waiting"
  /\ reply[Current] = "ok"
  /\ totalEmitted' = totalEmitted + Cardinality(fresh[Current])
  /\ buffer' = <<>>
  /\ estate' = "idle"
  /\ UNCHANGED <<apiVars, emitted, attempt, flushes, video, totalErrors>>

\* (mutation) The loop runs once too often.
AttemptFailsOnceMore ==
  /\ estate = "waiting"
  /\ IF attempt <= MaxRetries
       THEN /\ estate' = "posting"
            /\ attempt' = attempt + 1
            /\ UNCHANGED <<buffer, totalErrors>>
       ELSE /\ estate' = "idle"
            /\ totalErrors' = totalErrors + Len(buffer)
            /\ buffer' = <<>>
            /\ UNCHANGED attempt
  /\ UNCHANGED <<apiVars, emitted, flushes, video, totalEmitted>>

\* (mutation) The errors are counted at every failed attempt.
AttemptFailsCountsEach ==
  /\ estate = "waiting"
  /\ totalErrors' = totalErrors + Len(buffer)
  /\ IF attempt < MaxRetries
       THEN /\ estate' = "posting"
            /\ attempt' = attempt + 1
            /\ UNCHANGED buffer
       ELSE /\ estate' = "idle"
            /\ buffer' = <<>>
            /\ UNCHANGED attempt
  /\ UNCHANGED <<apiVars, emitted, flushes, video, totalEmitted>>

\* (mutation) A batch is dropped without being counted.
AttemptFailsUncounted ==
  /\ estate = "waiting"
  /\ IF attempt < MaxRetries
       THEN /\ estate' = "posting"
            /\ attempt' = attempt + 1
            /\ UNCHANGED buffer
       ELSE /\ estate' = "idle"
            /\ buffer' = <<>>
            /\ UNCHANGED attempt
  /\ UNCHANGED <<apiVars, emitted, flushes, video, totalEmitted, totalErrors>>

\* RequestException: a status of 400 or above, a refused or broken connection,
\* or no answer within the timeout, whatever has become of the request; an
\* answer sent in time may be lost on its way.  The next attempt follows, or
\* the batch is dropped and its events counted as errors.
AttemptFails ==
  /\ estate = "waiting"
  /\ IF attempt < MaxRetries
       THEN /\ estate' = "posting"
            /\ attempt' = attempt + 1
            /\ UNCHANGED <<buffer, totalErrors>>
       ELSE /\ estate' = "idle"
            /\ totalErrors' = totalErrors + Len(buffer)
            /\ buffer' = <<>>
            /\ UNCHANGED attempt
  /\ UNCHANGED <<apiVars, emitted, flushes, video, totalEmitted>>

Emitter == (\E e \in Events : Emit(e)) \/ EndOfVideo \/ Post \/ Succeed \/ AttemptFails

Api == Serve /\ UNCHANGED emitterVars

Next == Emitter \/ Api

Spec == Init /\ [][Next]_vars

\* The pipeline thread keeps running, every video ends, and requests.post
\* returns or raises within its timeout.  Nothing is asked of the API.
Fairness ==
  /\ WF_vars(EndOfVideo)
  /\ WF_vars(Post)
  /\ WF_vars(Succeed \/ AttemptFails)

FairSpec == Spec /\ Fairness

-----------------------------------------------------------------------------
(* Properties *)

\* How the requests of the emitter relate to its buffer.  The type invariant; the
\* buffer holds different events, at most a batch; the attempts of the current
\* flush carry the buffer, those of earlier ones nothing that is in it; the
\* attempts of one flush carry one batch, those of different flushes have no
\* event in common; an attempt inserts its whole batch or nothing; and nothing is
\* in the table that was not posted.
Sent(r) == phase[r] # "unsent"

BufferIsNew ==
  /\ Buffered \subseteq emitted
  /\ \A i, j \in DOMAIN buffer : buffer[i] = buffer[j] => i = j

BufferFits ==
  /\ Len(buffer) <= BatchSize
  /\ estate = "idle" => Len(buffer) < BatchSize
  /\ estate # "idle" => ~DryRun /\ buffer # <<>> /\ flushes \in 1 .. MaxFlushes
  /\ estate = "waiting" => Sent(Current)

AttemptsCarryBuffer ==
  \A r \in Requests : Sent(r) =>
    /\ r[1] <= flushes
    /\ Ids(r) \subseteq emitted
    /\ \A i, j \in DOMAIN batch[r] : batch[r][i] = batch[r][j] => i = j
    /\ IF estate # "idle" /\ r[1] = flushes
         THEN batch[r] = buffer
         ELSE Ids(r) \intersect Buffered = {}

OneBatchPerFlush ==
  \A r, q \in Requests : Sent(r) /\ Sent(q) =>
    IF r[1] = q[1] THEN batch[r] = batch[q] ELSE Ids(r) \intersect Ids(q) = {}

WholeFresh == \A r \in Requests : fresh[r] \in {{}, DOMAIN batch[r]}

StoredWasSent == \A e \in store : \E r \in Requests : Sent(r) /\ e \in Ids(r)

DeliveryInv ==
  /\ TypeOK
  /\ BufferIsNew
  /\ BufferFits
  /\ AttemptsCarryBuffer
  /\ OneBatchPerFlush
  /\ WholeFresh
  /\ StoredWasSent

\* An event that has left the buffer is in the database or was counted as an
\* error: the count of errors is at least the number of events missing.  For
\* CommitBeforeReply.
NoSilentLoss == ~DryRun => Cardinality((emitted \ Buffered) \ store) <= totalErrors

\* No event is counted twice: emitted, failed or still buffered.
CountedOnce == totalEmitted + totalErrors + Len(buffer) <= Cardinality(emitted)

\* The pipeline never reports more events emitted than the database has.
\* For CommitBeforeReply.
EmittedIsStored == ~DryRun => totalEmitted <= Cardinality(store)

\* Every batch is in the database as a whole or not at all, also when several
\* of its attempts run at once.
WholeBatches ==
  \A r \in Requests : Ids(r) \subseteq store \/ Ids(r) \intersect store = {}

\* A retry is refused for a taken key only when its whole batch is stored.
RefusedRetryIsStored ==
  \A r \in Requests : reply[r] = "conflict" => Ids(r) \subseteq store

\* Attempts of one batch insert its rows in one order, so they never wait for
\* each other in a cycle.
RetriesNeverDeadlock == \A r \in Requests : reply[r] # "deadlock"

\* Every event leaves the buffer, whatever the API does: every flush ends and
\* the end of the video flushes what is left.
EveryEventSettles == \A e \in Events : e \in Buffered ~> e \notin Buffered

\* The batches that were posted.
Offered == {Ids(r) : r \in {q \in Requests : Sent(q)}}

\* The delivery as its promise describes it: the emitter, the network, the API
\* and the database together implement EventDelivery.  For CommitBeforeReply,
\* and no dry run.
Promise == INSTANCE EventDelivery WITH
  known <- emitted,
  pending <- buffer,
  sealed <- Offered,
  delivered <- store,
  failures <- totalErrors

KeepsPromise == Promise!Spec

\* What README.md says of retries: a batch that is posted again is skipped
\* without error.
RetriesAreSafe == \A r \in Requests : reply[r] # "conflict"
=============================================================================
