--------------------------- MODULE DeliveryProofs ---------------------------
(***************************************************************************)
(* Proofs about Delivery, for every set of events, every batch size and    *)
(* every number of retries.                                                *)
(***************************************************************************)
EXTENDS Delivery, IngestApiProofs, FiniteSetTheorems

\* The empty buffer is a sequence of events.
LEMMA EmptyIsSeq == <<>> \in Seq(Events) /\ Len(<<>>) = 0 /\ DOMAIN <<>> = {}
  OBVIOUS

\* While the emitter is at work on a flush, Current names one of its requests.
LEMMA CurrentIsRequest ==
  ASSUME TypeOK, BufferFits, estate # "idle"
  PROVE  Current \in Requests
  BY RequestsAssumption DEF TypeOK, BufferFits, Current

\* A buffer that is posted is a batch the endpoint accepts.
LEMMA BufferIsBatch ==
  ASSUME TypeOK, BufferFits, estate # "idle"
  PROVE  buffer \in Batches
<1>1. Len(buffer) \in 1 .. MaxBatch
  BY BatchSizeAssumption, MaxBatchAssumption DEF TypeOK, BufferFits
<1>2. buffer \in [1 .. Len(buffer) -> Events]
  BY DEF TypeOK
<1>3. QED
  BY <1>1, <1>2 DEF Batches

\* Every step of the composition is a step of the API or leaves it alone.
LEMMA NextIsApiStep ==
  ASSUME TypeOK, BufferFits, [Next]_vars
  PROVE  [ApiNext]_apiVars
<1>1. CASE Post
  <2>1. Send(Current, buffer) /\ estate # "idle"
    BY <1>1 DEF Post
  <2>2. QED
    BY <2>1, CurrentIsRequest, BufferIsBatch DEF ApiNext
<1>2. CASE Api
  BY <1>2 DEF Api, ApiNext
<1>3. CASE Succeed \/ AttemptFails \/ EndOfVideo \/ \E e \in Events : Emit(e)
  BY <1>3 DEF Succeed, AttemptFails, EndOfVideo, Emit
<1>4. CASE UNCHANGED vars
  BY <1>4 DEF vars
<1>5. QED
  BY <1>1, <1>2, <1>3, <1>4 DEF Next, Emitter

-----------------------------------------------------------------------------
(* The invariant *)

\* Nothing is buffered, posted or stored at the start.
LEMMA InitInv == Init => DeliveryInv /\ WholeBatches
<1> SUFFICES ASSUME Init PROVE DeliveryInv /\ WholeBatches
  OBVIOUS
<1> USE DEF Init
<1>1. ApiTypeOK
  BY ApiInitInv DEF ApiInv
<1>2. TypeOK
  BY <1>1, MaxRetriesAssumption DEF TypeOK
<1>3. BufferIsNew /\ BufferFits
  BY BatchSizeAssumption, MaxBatchAssumption DEF BufferIsNew, BufferFits, Buffered
<1>4. AttemptsCarryBuffer /\ OneBatchPerFlush /\ WholeFresh /\ StoredWasSent /\ WholeBatches
  BY DEF ApiInit, AttemptsCarryBuffer, OneBatchPerFlush, WholeFresh, StoredWasSent, Sent,
         WholeBatches
<1>5. QED
  BY <1>2, <1>3, <1>4 DEF DeliveryInv

\* What a flush makes of the emitter's state.
LEMMA FlushInv ==
  ASSUME TypeOK, NEW buf \in Seq(Events), Len(buf) <= BatchSize, Flush(buf), estate = "idle"
  PROVE  /\ buffer' = <<>> \/ buffer' = buf
         /\ estate' \in {"idle", "posting"}
         /\ attempt' \in 1 .. MaxRetries
         /\ totalEmitted' \in Nat
         /\ flushes' \in Nat
         /\ estate' = "posting" =>
              ~DryRun /\ buffer' = buf /\ buf # <<>> /\ flushes' = flushes + 1 /\ flushes' \in 1 .. MaxFlushes
         /\ estate' = "idle" => flushes' = flushes /\ buffer' = <<>>
  BY MaxRetriesAssumption, MaxFlushesAssumption DEF Flush, TypeOK

\* Emit preserves the invariant: the event is new, so it is in no batch posted before.
LEMMA EmitInv ==
  ASSUME DeliveryInv, NEW e \in Events, Emit(e)
  PROVE  DeliveryInv'
<1> USE DEF DeliveryInv
<1> DEFINE buf == Append(buffer, e)
<1>1. /\ buf \in Seq(Events) /\ Len(buf) = Len(buffer) + 1
      /\ DOMAIN buf = 1 .. Len(buffer) + 1
      /\ \A i \in DOMAIN buffer : buf[i] = buffer[i]
      /\ buf[Len(buffer) + 1] = e
      /\ DOMAIN buffer = 1 .. Len(buffer) /\ Len(buffer) \in Nat
  BY DEF TypeOK
<1> HIDE DEF buf
<1>2. /\ {buf[i] : i \in DOMAIN buf} \subseteq Buffered \union {e}
      /\ \A i, j \in DOMAIN buf : buf[i] = buf[j] => i = j
  BY <1>1 DEF BufferIsNew, Buffered, Emit
<1>3. Len(buf) <= BatchSize
  BY <1>1, BatchSizeAssumption, MaxBatchAssumption DEF BufferFits, Emit
<1>4. /\ estate = "idle"
      /\ e \notin emitted
      /\ emitted' = emitted \union {e}
      /\ UNCHANGED <<store, phase, batch, fresh, todo, held, reply, video, totalErrors>>
  BY DEF Emit, apiVars
<1>5. \/ /\ Len(buf) >= BatchSize
         /\ Flush(buf)
      \/ /\ Len(buf) < BatchSize
         /\ buffer' = buf
         /\ UNCHANGED <<estate, attempt, flushes, totalEmitted>>
  BY <1>1, BatchSizeAssumption, MaxBatchAssumption DEF Emit, buf
<1>6. /\ buffer' = <<>> \/ buffer' = buf
      /\ estate' \in {"idle", "posting"}
      /\ attempt' \in 1 .. MaxRetries
      /\ totalEmitted' \in Nat
      /\ flushes' \in Nat
      /\ estate' = "posting" =>
           ~DryRun /\ buffer' = buf /\ buf # <<>> /\ flushes' = flushes + 1 /\ flushes' \in 1 .. MaxFlushes
      /\ estate' = "idle" => flushes' = flushes /\ Len(buffer') < BatchSize
  BY <1>1, <1>3, <1>4, <1>5, FlushInv, BatchSizeAssumption, MaxBatchAssumption DEF TypeOK
<1>7. TypeOK'
  <2>1. ApiTypeOK'
    BY <1>4 DEF TypeOK, ApiTypeOK
  <2>2. buffer' \in Seq(Events)
    BY <1>1, <1>6, EmptyIsSeq
  <2>3. QED
    BY <1>4, <1>6, <2>1, <2>2 DEF TypeOK
<1>8. BufferIsNew'
  BY <1>2, <1>4, <1>6 DEF BufferIsNew, Buffered
<1>9. BufferFits'
  BY <1>1, <1>3, <1>4, <1>6, BatchSizeAssumption, MaxBatchAssumption DEF BufferFits
<1>10. AttemptsCarryBuffer'
  <2> SUFFICES ASSUME NEW r \in Requests, Sent(r)
      PROVE  /\ r[1] <= flushes'
             /\ Ids(r) \subseteq emitted'
             /\ \A i, j \in DOMAIN batch[r] : batch[r][i] = batch[r][j] => i = j
             /\ ~(estate' # "idle" /\ r[1] = flushes')
             /\ Ids(r) \intersect Buffered' = {}
    BY <1>4 DEF AttemptsCarryBuffer, Sent, Ids
  <2>1. r[1] <= flushes /\ r[1] \in Int /\ flushes \in Nat
    BY RequestsAssumption DEF AttemptsCarryBuffer, TypeOK
  <2>2. Buffered' \subseteq Buffered \union {e}
    <3>1. CASE buffer' = <<>>
      BY <3>1 DEF Buffered
    <3>2. CASE buffer' = buf
      <4>1. Buffered' = {buf[i] : i \in DOMAIN buf}
        BY <3>2 DEF Buffered
      <4>2. QED
        BY <1>2, <4>1
    <3>3. QED
      BY <1>6, <3>1, <3>2
  <2>3. QED
    BY <1>4, <1>6, <2>1, <2>2 DEF AttemptsCarryBuffer
<1>11. OneBatchPerFlush' /\ WholeFresh' /\ StoredWasSent'
  BY <1>4 DEF OneBatchPerFlush, WholeFresh, StoredWasSent, Sent, Ids
<1>12. QED
  BY <1>7, <1>8, <1>9, <1>10, <1>11

\* EndOfVideo preserves the invariant: its flush starts a batch that no request carries.
LEMMA EndOfVideoInv ==
  ASSUME DeliveryInv, EndOfVideo
  PROVE  DeliveryInv'
<1> USE DEF DeliveryInv
<1>1. /\ estate = "idle"
      /\ video' = "ended"
      /\ Flush(buffer)
      /\ UNCHANGED <<store, phase, batch, fresh, todo, held, reply, emitted, totalErrors>>
  BY DEF EndOfVideo, apiVars
<1>2. /\ buffer \in Seq(Events) /\ Len(buffer) <= BatchSize
      /\ DOMAIN buffer = 1 .. Len(buffer)
  BY DEF TypeOK, BufferFits
<1>3. /\ buffer' = <<>> \/ buffer' = buffer
      /\ estate' \in {"idle", "posting"}
      /\ attempt' \in 1 .. MaxRetries
      /\ totalEmitted' \in Nat
      /\ flushes' \in Nat
      /\ estate' = "posting" =>
           ~DryRun /\ buffer' = buffer /\ buffer # <<>> /\ flushes' = flushes + 1 /\ flushes' \in 1 .. MaxFlushes
      /\ estate' = "idle" => flushes' = flushes /\ buffer' = <<>>
  BY <1>1, <1>2, FlushInv
<1>4. TypeOK'
  <2>1. ApiTypeOK'
    BY <1>1 DEF TypeOK, ApiTypeOK
  <2>2. buffer' \in Seq(Events)
    BY <1>2, <1>3, EmptyIsSeq
  <2>3. QED
    BY <1>1, <1>3, <2>1, <2>2 DEF TypeOK
<1>5. BufferIsNew'
  BY <1>1, <1>2, <1>3 DEF BufferIsNew, Buffered
<1>6. BufferFits'
  BY <1>1, <1>2, <1>3, BatchSizeAssumption, MaxBatchAssumption DEF BufferFits
<1>7. AttemptsCarryBuffer'
  <2> SUFFICES ASSUME NEW r \in Requests, Sent(r)
      PROVE  /\ r[1] <= flushes'
             /\ Ids(r) \subseteq emitted
             /\ \A i, j \in DOMAIN batch[r] : batch[r][i] = batch[r][j] => i = j
             /\ ~(estate' # "idle" /\ r[1] = flushes')
             /\ Ids(r) \intersect Buffered' = {}
    BY <1>1 DEF AttemptsCarryBuffer, Sent, Ids
  <2>1. r[1] <= flushes /\ r[1] \in Int /\ flushes \in Nat
    BY RequestsAssumption DEF AttemptsCarryBuffer, TypeOK
  <2>2. Buffered' \subseteq Buffered
    BY <1>3 DEF Buffered
  <2>3. QED
    BY <1>1, <1>3, <2>1, <2>2 DEF AttemptsCarryBuffer
<1>8. OneBatchPerFlush' /\ WholeFresh'
  BY <1>1 DEF OneBatchPerFlush, WholeFresh, Sent, Ids
<1>9. StoredWasSent'
  BY <1>1 DEF StoredWasSent, Sent, Ids
<1>10. QED
  BY <1>4, <1>5, <1>6, <1>7, <1>8, <1>9

\* The request that is posted carries the buffer; other attempts of the flush do
\* so already, and no event in the buffer was in an earlier flush.
LEMMA PostInv ==
  ASSUME DeliveryInv, WholeBatches, ApiInv, Post
  PROVE  DeliveryInv' /\ WholeBatches'
<1> USE DEF DeliveryInv
<1> DEFINE c == Current
<1>1. /\ c \in Requests /\ c[1] = flushes
      /\ estate = "posting" /\ estate' = "waiting"
      /\ phase[c] = "unsent"
      /\ phase' = [phase EXCEPT ![c] = "sent"]
      /\ batch' = [batch EXCEPT ![c] = buffer]
      /\ UNCHANGED <<store, fresh, todo, held, reply>>
      /\ UNCHANGED <<emitted, buffer, attempt, flushes, video, totalEmitted, totalErrors>>
      /\ c' = c
  BY CurrentIsRequest DEF Post, Send, Current
<1>2. /\ phase' = [r \in Requests |-> IF r = c THEN "sent" ELSE phase[r]]
      /\ batch' = [r \in Requests |-> IF r = c THEN buffer ELSE batch[r]]
  BY <1>1 DEF TypeOK, ApiTypeOK
<1> HIDE DEF c
<1>3. /\ \A r \in Requests : Sent(r)' <=> (Sent(r) \/ r = c)
      /\ \A r \in Requests : r # c => batch'[r] = batch[r] /\ Ids(r)' = Ids(r)
      /\ batch'[c] = buffer /\ Ids(c)' = Buffered /\ Buffered' = Buffered
      /\ ~Sent(c)
  BY <1>1, <1>2 DEF Sent, Ids, Buffered
<1>4. TypeOK'
  BY <1>1, <1>2 DEF TypeOK, ApiTypeOK, Phases
<1>5. BufferIsNew' /\ BufferFits'
  BY <1>1, <1>3 DEF BufferIsNew, BufferFits, Buffered, c
<1>6. AttemptsCarryBuffer'
  <2> SUFFICES ASSUME NEW r \in Requests, Sent(r)'
      PROVE  /\ r[1] <= flushes
             /\ Ids(r)' \subseteq emitted
             /\ \A i, j \in DOMAIN batch'[r] : batch'[r][i] = batch'[r][j] => i = j
             /\ IF r[1] = flushes
                  THEN batch'[r] = buffer
                  ELSE Ids(r)' \intersect Buffered = {}
    BY <1>1, <1>3 DEF AttemptsCarryBuffer
  <2>1. CASE r = c
    BY <1>1, <1>3, <2>1 DEF BufferIsNew, TypeOK
  <2>2. CASE r # c
    BY <1>1, <1>3, <2>2 DEF AttemptsCarryBuffer
  <2>3. QED
    BY <2>1, <2>2
<1>7. OneBatchPerFlush'
  BY <1>1, <1>3 DEF AttemptsCarryBuffer, OneBatchPerFlush
<1>8. fresh[c] = {}
  BY <1>1 DEF ApiInv, Untouched
<1>9. WholeFresh'
  BY <1>1, <1>3, <1>8 DEF WholeFresh
<1>10. StoredWasSent'
  BY <1>1, <1>3 DEF StoredWasSent
<1>11. WholeBatches'
  <2> SUFFICES Buffered \subseteq store \/ Buffered \intersect store = {}
    BY <1>1, <1>3 DEF WholeBatches
  <2>1. CASE \E r \in Requests : Sent(r) /\ r[1] = flushes
    <3>1. PICK r \in Requests : Sent(r) /\ r[1] = flushes
      BY <2>1
    <3>2. batch[r] = buffer
      BY <1>1, <3>1 DEF AttemptsCarryBuffer
    <3>3. Ids(r) = Buffered
      BY <3>2 DEF Ids, Buffered
    <3>4. QED
      BY <3>3 DEF WholeBatches
  <2>2. CASE ~\E r \in Requests : Sent(r) /\ r[1] = flushes
    <3>1. \A r \in Requests : Sent(r) => Ids(r) \intersect Buffered = {}
      BY <1>1, <2>2 DEF AttemptsCarryBuffer
    <3>2. QED
      BY <3>1 DEF StoredWasSent
  <2>3. QED
    BY <2>1, <2>2
<1>12. QED
  BY <1>4, <1>5, <1>6, <1>7, <1>9, <1>10, <1>11

\* The number of events a request ingests is at most the size of its batch.
LEMMA FreshCount ==
  ASSUME ApiInv, NEW r \in Requests
  PROVE  Cardinality(fresh[r]) \in Nat /\ Cardinality(fresh[r]) <= Len(batch[r])
<1>1. fresh[r] \in SUBSET (1 .. Len(batch[r])) /\ Len(batch[r]) \in Nat
  BY DEF ApiInv, Positions, ApiTypeOK
<1>2. IsFiniteSet(1 .. Len(batch[r])) /\ Cardinality(1 .. Len(batch[r])) = Len(batch[r])
  <2> DEFINE n == Len(batch[r])
  <2>1. n \in Nat
    BY <1>1
  <2> HIDE DEF n
  <2>2. IsFiniteSet(1 .. n) /\ Cardinality(1 .. n) = n
    BY <2>1, FS_Interval
  <2>3. QED
    BY <2>2 DEF n
<1>3. IsFiniteSet(fresh[r]) /\ Cardinality(fresh[r]) <= Cardinality(1 .. Len(batch[r]))
  BY <1>1, <1>2, FS_Subset
<1>4. QED
  BY <1>2, <1>3, FS_CardinalityType

\* The emitter's reaction to an answer or to a failure.
LEMMA OutcomeInv ==
  ASSUME DeliveryInv, ApiInv, Succeed \/ AttemptFails
  PROVE  DeliveryInv'
<1> USE DEF DeliveryInv
<1>1. /\ estate = "waiting"
      /\ UNCHANGED <<store, phase, batch, fresh, todo, held, reply>>
      /\ UNCHANGED <<emitted, flushes, video>>
      /\ \/ buffer' = <<>> /\ estate' = "idle"
         \/ buffer' = buffer /\ estate' = "posting"
  BY DEF Succeed, AttemptFails, apiVars
<1>2. /\ \A r \in Requests : Ids(r)' = Ids(r) /\ (Sent(r)' <=> Sent(r))
      /\ Buffered' \subseteq Buffered
  BY <1>1 DEF Ids, Sent, Buffered
<1>3. Current \in Requests
  BY <1>1, CurrentIsRequest
<1>4. totalEmitted' \in Nat
  <2>1. CASE Succeed
    <3>1. Cardinality(fresh[Current]) \in Nat
      BY <1>3, FreshCount
    <3>2. QED
      BY <2>1, <3>1 DEF Succeed, TypeOK
  <2>2. CASE AttemptFails
    BY <2>2 DEF AttemptFails, TypeOK
  <2>3. QED
    BY <2>1, <2>2
<1>5. attempt' \in 1 .. MaxRetries /\ totalErrors' \in Nat
  BY MaxRetriesAssumption DEF Succeed, AttemptFails, TypeOK
<1>6. TypeOK'
  <2>1. ApiTypeOK'
    BY <1>1 DEF TypeOK, ApiTypeOK
  <2>2. buffer' \in Seq(Events) /\ estate' \in {"idle", "posting", "waiting"}
    BY <1>1, EmptyIsSeq DEF TypeOK
  <2>3. QED
    BY <1>1, <1>4, <1>5, <2>1, <2>2 DEF TypeOK
<1>7. BufferIsNew'
  BY <1>1 DEF BufferIsNew, Buffered
<1>8. BufferFits'
  BY <1>1, BatchSizeAssumption, MaxBatchAssumption DEF BufferFits, TypeOK
<1>9. AttemptsCarryBuffer'
  <2>1. CASE buffer' = <<>> /\ estate' = "idle"
    BY <1>1, <1>2, <2>1 DEF AttemptsCarryBuffer, Buffered
  <2>2. CASE buffer' = buffer /\ estate' = "posting"
    BY <1>1, <1>2, <2>2 DEF AttemptsCarryBuffer, Buffered
  <2>3. QED
    BY <1>1, <2>1, <2>2
<1>10. OneBatchPerFlush' /\ WholeFresh' /\ StoredWasSent'
  BY <1>1, <1>2 DEF OneBatchPerFlush, WholeFresh, StoredWasSent
<1>11. QED
  BY <1>6, <1>7, <1>8, <1>9, <1>10

\* The API neither posts requests nor changes their batches; it decides which
\* events are fresh only in CheckExisting.
LEMMA ServeKeepsBatches ==
  ASSUME ApiInv, Serve
  PROVE  /\ batch' = batch
         /\ \A q \in Requests : Sent(q)' <=> Sent(q)
         /\ \A q \in Requests :
              fresh'[q] \in {fresh[q], {i \in DOMAIN batch[q] : batch[q][i] \notin store}}
<1> USE DEF ApiInv, ApiTypeOK, Sent
<1>1. CASE Crash
  BY <1>1 DEF Crash, Open
<1>2. ASSUME NEW r \in Requests, Handle(r) \/ Fail(r)
      PROVE  /\ batch' = batch
             /\ \A q \in Requests : Sent(q)' <=> Sent(q)
             /\ \A q \in Requests :
                  fresh'[q] \in {fresh[q], {i \in DOMAIN batch[q] : batch[q][i] \notin store}}
  <2>1. CASE Lose(r) \/ Reject(r)
    BY <2>1 DEF Lose, Reject
  <2>2. CASE CheckExisting(r)
    BY <2>2 DEF CheckExisting
  <2>3. CASE InsertRow(r)
    BY <2>3 DEF InsertRow
  <2>4. CASE Commit(r) \/ CommitUnknown(r)
    BY <2>4 DEF Commit, CommitUnknown, CommitPoint, Flushed
  <2>5. CASE Respond(r)
    BY <2>5 DEF Respond, Flushed
  <2>6. ASSUME Conflict(r) \/ DeadlockAbort(r) \/ DbError(r)
        PROVE  /\ batch' = batch /\ fresh' = fresh
               /\ \A q \in Requests : Sent(q)' <=> Sent(q)
    <3>1. phase[r] \in {"sent", "inserting", "answered"}
      BY <2>6 DEF Conflict, DeadlockAbort, DbError, NextRow, WaitsFor
    <3>2. PICK why \in ErrorReplies : Rollback(r, why)
      BY <2>6 DEF Conflict, DeadlockAbort, DbError, ErrorReplies
    <3>3. QED
      BY <3>1, <3>2 DEF Rollback
  <2>7. QED
    BY <1>2, <2>1, <2>2, <2>3, <2>4, <2>5, <2>6 DEF Handle, Fail
<1>3. QED
  BY <1>1, <1>2 DEF Serve

\* Since batches are stored as a whole, an attempt finds all of its batch absent
\* or none of it, and what it adds is its whole batch.
LEMMA ApiStepInv ==
  ASSUME DeliveryInv, WholeBatches, ApiInv, Api
  PROVE  DeliveryInv' /\ WholeBatches'
<1> USE DEF DeliveryInv
<1>1. /\ batch' = batch
      /\ \A q \in Requests : Sent(q)' <=> Sent(q)
      /\ \A q \in Requests :
           fresh'[q] \in {fresh[q], {i \in DOMAIN batch[q] : batch[q][i] \notin store}}
  BY ServeKeepsBatches DEF Api
<1>2. ApiTypeOK'
  BY ServeInv DEF Api, ApiInv
<1>3. UNCHANGED <<emitted, buffer, estate, attempt, flushes, video, totalEmitted, totalErrors>>
  BY DEF Api, emitterVars
<1>4. TypeOK' /\ BufferIsNew'
  BY <1>2, <1>3 DEF TypeOK, BufferIsNew, Buffered
<1>5. BufferFits'
  <2>1. estate # "idle" => Current \in Requests
    BY CurrentIsRequest
  <2>2. Current' = Current
    BY <1>3 DEF Current
  <2>3. estate = "waiting" => Sent(Current)'
    BY <1>1, <2>1, <2>2 DEF BufferFits, Sent
  <2>4. QED
    BY <1>3, <2>2, <2>3 DEF BufferFits, Sent
<1>6. AttemptsCarryBuffer' /\ OneBatchPerFlush'
  <2>1. AttemptsCarryBuffer'
    BY <1>1, <1>3 DEF AttemptsCarryBuffer, Buffered, Ids
  <2>2. OneBatchPerFlush'
    BY <1>1, <1>3 DEF OneBatchPerFlush, Ids
  <2>3. QED
    BY <2>1, <2>2
<1>7. WholeFresh'
  <2> SUFFICES ASSUME NEW q \in Requests PROVE fresh'[q] \in {{}, DOMAIN batch[q]}
    BY <1>1 DEF WholeFresh
  <2>1. Ids(q) \subseteq store \/ Ids(q) \intersect store = {}
    BY DEF WholeBatches
  <2>2. {i \in DOMAIN batch[q] : batch[q][i] \notin store} \in {{}, DOMAIN batch[q]}
    BY <2>1 DEF Ids
  <2>3. QED
    BY <1>1, <2>2 DEF WholeFresh
<1>8. \/ store' = store
      \/ \E r \in Requests : /\ Sent(r)
                             /\ store' = store \union Ids(r)
  <2>1. CASE store' = store
    BY <2>1
  <2>2. CASE store' # store
    <3>1. [ApiNext]_apiVars
      BY DEF Api, ApiNext
    <3>2. PICK r \in Requests : /\ Commit(r) \/ CommitUnknown(r)
                                /\ store' = store \union NewIds(r)
      BY <2>2, <3>1, StoreSteps
    <3>3. Sent(r)
      BY <3>2 DEF Commit, CommitUnknown, CommitPoint, Flushed, Sent
    <3>4. fresh[r] = DOMAIN batch[r]
      BY <2>2, <3>2 DEF WholeFresh, NewIds
    <3>5. NewIds(r) = Ids(r)
      BY <3>4 DEF NewIds, Ids
    <3>6. QED
      BY <3>2, <3>3, <3>5
  <2>3. QED
    BY <2>1, <2>2
<1>9. StoredWasSent'
  BY <1>1, <1>8 DEF StoredWasSent, Ids
<1>10. WholeBatches'
  <2> SUFFICES ASSUME NEW q \in Requests
      PROVE  Ids(q) \subseteq store' \/ Ids(q) \intersect store' = {}
    BY <1>1 DEF WholeBatches, Ids
  <2>1. CASE store' = store
    BY <2>1 DEF WholeBatches
  <2>2. CASE store' # store
    <3>1. PICK r \in Requests : Sent(r) /\ store' = store \union Ids(r)
      BY <1>8, <2>2
    <3>2. CASE ~Sent(q)
      <4>1. batch[q] = <<>>
        BY <3>2 DEF Sent, ApiInv, Untouched
      <4>2. QED
        BY <4>1, EmptyIsSeq DEF Ids
    <3>3. CASE Sent(q) /\ r[1] = q[1]
      BY <3>1, <3>3 DEF OneBatchPerFlush, Ids
    <3>4. CASE Sent(q) /\ r[1] # q[1]
      BY <3>1, <3>4 DEF OneBatchPerFlush, WholeBatches
    <3>5. QED
      BY <3>2, <3>3, <3>4
  <2>3. QED
    BY <2>1, <2>2
<1>11. QED
  BY <1>4, <1>5, <1>6, <1>7, <1>9, <1>10

\* Every step of the emitter and of the API preserves the invariant.
LEMMA NextInv == DeliveryInv /\ WholeBatches /\ ApiInv /\ [Next]_vars => DeliveryInv' /\ WholeBatches'
<1> SUFFICES ASSUME DeliveryInv, WholeBatches, ApiInv, [Next]_vars
    PROVE  DeliveryInv' /\ WholeBatches'
  OBVIOUS
<1>1. CASE Post
  BY <1>1, PostInv
<1>2. CASE Api
  BY <1>2, ApiStepInv
<1>3. ASSUME Succeed \/ AttemptFails \/ EndOfVideo \/ \E e \in Events : Emit(e)
      PROVE  DeliveryInv' /\ WholeBatches'
  <2>1. DeliveryInv'
    BY <1>3, EmitInv, EndOfVideoInv, OutcomeInv
  <2>2. WholeBatches'
    BY <1>3 DEF Succeed, AttemptFails, EndOfVideo, Emit, apiVars, WholeBatches, Ids
  <2>3. QED
    BY <2>1, <2>2
<1>4. CASE UNCHANGED vars
  <2> USE DEF DeliveryInv
  <2>1. UNCHANGED <<store, phase, batch, fresh, todo, held, reply>>
    BY <1>4 DEF vars, apiVars
  <2>2. UNCHANGED <<emitted, buffer, estate, attempt, flushes, video, totalEmitted, totalErrors>>
    BY <1>4 DEF vars, emitterVars
  <2>3. ApiTypeOK'
    BY <2>1 DEF TypeOK, ApiTypeOK
  <2>4. TypeOK'
    BY <2>2, <2>3 DEF TypeOK
  <2>5. BufferIsNew' /\ BufferFits'
    BY <2>1, <2>2 DEF BufferIsNew, BufferFits, Buffered, Sent, Current
  <2>6. AttemptsCarryBuffer' /\ OneBatchPerFlush'
    <3>1. AttemptsCarryBuffer'
      BY <2>1, <2>2 DEF AttemptsCarryBuffer, Buffered, Sent, Ids
    <3>2. OneBatchPerFlush'
      BY <2>1 DEF OneBatchPerFlush, Sent, Ids
    <3>3. QED
      BY <3>1, <3>2
  <2>7. WholeFresh' /\ StoredWasSent' /\ WholeBatches'
    BY <2>1, <2>2 DEF WholeFresh, StoredWasSent, WholeBatches, Sent, Ids
  <2>8. QED
    BY <2>4, <2>5, <2>6, <2>7
<1>5. QED
  BY <1>1, <1>2, <1>3, <1>4 DEF Next, Emitter

\* The emitter uses the endpoint as the endpoint expects to be used: the
\* composition implements the API's own specification.
THEOREM DeliveryUsesApi == Spec => ApiSpec
<1>1. Init => ApiInit
  BY DEF Init
<1>2. DeliveryInv /\ [Next]_vars => [ApiNext]_apiVars
  BY NextIsApiStep DEF DeliveryInv
<1>3. DeliveryInv /\ WholeBatches /\ ApiInv /\ [Next]_vars =>
        (DeliveryInv /\ WholeBatches /\ ApiInv)'
  BY <1>2, NextInv, ApiNextInv
<1>4. QED
  BY <1>1, <1>2, <1>3, InitInv, ApiInitInv, PTL DEF Spec, ApiSpec

\* The type invariant and the relation between the emitter's buffer and the
\* requests it has posted.
THEOREM DeliveryInvariant == Spec => []DeliveryInv
  BY InitInv, NextInv, DeliveryUsesApi, ApiInvariant, PTL DEF Spec

\* A batch is in the database as a whole or not at all, however many of its
\* attempts run at once.
THEOREM BatchesAreWhole == Spec => []WholeBatches
  BY InitInv, NextInv, DeliveryUsesApi, ApiInvariant, PTL DEF Spec

\* A retry that is refused for a taken key is refused because the batch is stored.
THEOREM RefusedRetriesAreStored == Spec => []RefusedRetryIsStored
<1>1. ApiInv /\ DeliveryInv /\ WholeBatches /\ ConflictHasCause => RefusedRetryIsStored
  <2> SUFFICES ASSUME ApiInv, DeliveryInv, WholeBatches, ConflictHasCause,
                      NEW r \in Requests, reply[r] = "conflict"
      PROVE  Ids(r) \subseteq store
    BY DEF RefusedRetryIsStored
  <2>1. fresh[r] \subseteq DOMAIN batch[r]
    BY DEF ApiInv, Positions
  <2>2. Sent(r)
    BY DEF ApiInv, Untouched, Sent
  <2>3. ~\E i, j \in fresh[r] : i # j /\ batch[r][i] = batch[r][j]
    BY <2>1, <2>2 DEF DeliveryInv, AttemptsCarryBuffer
  <2>4. NewIds(r) \intersect store # {}
    BY <2>3 DEF ConflictHasCause
  <2>5. QED
    BY <2>1, <2>4 DEF NewIds, Ids, WholeBatches
<1>2. QED
  BY <1>1, DeliveryUsesApi, ApiInvariant, DeliveryInvariant, BatchesAreWhole,
     ConflictsHaveCauses, PTL

-----------------------------------------------------------------------------
(* Counting *)

\* The buffer holds as many different events as it is long.
LEMMA BufferCount ==
  ASSUME TypeOK, BufferIsNew
  PROVE  IsFiniteSet(Buffered) /\ Cardinality(Buffered) = Len(buffer) /\ Len(buffer) \in Nat
<1> DEFINE n == Len(buffer)
<1>1. n \in Nat /\ buffer \in [1 .. n -> Events]
  BY DEF TypeOK
<1> HIDE DEF n
<1>2. buffer \in Bijection(1 .. n, Buffered)
  BY <1>1 DEF BufferIsNew, Buffered, Bijection, Injection, Surjection, IsInjective
<1>3. IsFiniteSet(1 .. n) /\ Cardinality(1 .. n) = n
  BY <1>1, FS_Interval
<1>4. QED
  BY <1>1, <1>2, <1>3, FS_Bijection DEF ExistsBijection, n

\* When the emitter waits, the request it waits for carries its buffer.
LEMMA CurrentCarriesBuffer ==
  ASSUME DeliveryInv, estate = "waiting"
  PROVE  /\ Current \in Requests
         /\ Sent(Current)
         /\ batch[Current] = buffer
         /\ Ids(Current) = Buffered
<1>1. Current \in Requests /\ Sent(Current) /\ Current[1] = flushes
  BY CurrentIsRequest DEF DeliveryInv, BufferFits, Current
<1>2. batch[Current] = buffer
  BY <1>1 DEF DeliveryInv, AttemptsCarryBuffer
<1>3. QED
  BY <1>1, <1>2 DEF Ids, Buffered

\* The events that have left the buffer and are not in the database.
Lost == (emitted \ Buffered) \ store

\* Unless the run is a dry one, the emitter's steps treat the buffer like this.
LEMMA BufferSteps ==
  ASSUME DeliveryInv, WholeBatches, ApiInv, ~DryRun, [Next]_vars
  PROVE  /\ store \subseteq store'
         /\ \/ \E e \in Events : /\ Emit(e)
                                 /\ e \notin emitted
                                 /\ emitted' = emitted \union {e}
                                 /\ Buffered' = Buffered \union {e}
                                 /\ Len(buffer') = Len(buffer) + 1
                                 /\ UNCHANGED <<store, phase, batch, totalEmitted, totalErrors>>
            \/ /\ UNCHANGED <<emitted, buffer, totalEmitted, totalErrors>>
               /\ Buffered' = Buffered
            \/ /\ Succeed
               /\ UNCHANGED <<emitted, store, phase, batch, totalErrors>>
               /\ Buffered' = {} /\ Len(buffer') = 0
            \/ /\ AttemptFails
               /\ estate = "waiting"
               /\ UNCHANGED <<emitted, store, phase, batch, totalEmitted>>
               /\ totalErrors' = totalErrors + Len(buffer)
               /\ Buffered' = {} /\ Len(buffer') = 0
<1> USE DEF DeliveryInv
<1>1. store \subseteq store'
  <2>1. [ApiNext]_apiVars
    BY NextIsApiStep
  <2>2. QED
    BY <2>1, StoreSteps
<1>2. ASSUME NEW e \in Events, Emit(e)
      PROVE  /\ e \notin emitted
             /\ emitted' = emitted \union {e}
             /\ Buffered' = Buffered \union {e}
             /\ Len(buffer') = Len(buffer) + 1
             /\ UNCHANGED <<store, phase, batch, totalEmitted, totalErrors>>
  <2>1. buffer' = Append(buffer, e) /\ totalEmitted' = totalEmitted
    BY <1>2 DEF Emit, Flush, TypeOK
  <2>2. /\ DOMAIN buffer' = 1 .. Len(buffer) + 1 /\ DOMAIN buffer = 1 .. Len(buffer)
        /\ Len(buffer') = Len(buffer) + 1 /\ Len(buffer) \in Nat
        /\ \A i \in DOMAIN buffer : buffer'[i] = buffer[i]
        /\ buffer'[Len(buffer) + 1] = e
    BY <2>1 DEF TypeOK
  <2>3. Buffered' = Buffered \union {e}
    BY <2>2 DEF Buffered
  <2>4. QED
    BY <1>2, <2>1, <2>2, <2>3 DEF Emit, apiVars
<1>3. CASE EndOfVideo
  BY <1>1, <1>3 DEF EndOfVideo, Flush, apiVars, Buffered, TypeOK
<1>4. CASE Post
  BY <1>1, <1>4 DEF Post, Buffered
<1>5. CASE Api
  BY <1>1, <1>5 DEF Api, emitterVars, Buffered
<1>6. CASE Succeed
  BY <1>1, <1>6, EmptyIsSeq DEF Succeed, apiVars, Buffered
<1>7. CASE AttemptFails
  BY <1>1, <1>7, EmptyIsSeq DEF AttemptFails, apiVars, Buffered
<1>8. CASE UNCHANGED vars
  BY <1>1, <1>8 DEF vars, emitterVars, Buffered
<1>9. QED
  BY <1>1, <1>2, <1>3, <1>4, <1>5, <1>6, <1>7, <1>8 DEF Next, Emitter

\* Every event that is in neither the buffer nor the database was counted as an
\* error; the counter never falls behind.
THEOREM NothingIsLostSilently == Spec /\ CommitBeforeReply => []NoSilentLoss
<1> DEFINE Counted == IsFiniteSet(emitted) /\ Cardinality(Lost) <= totalErrors
<1>1. CASE DryRun
  BY <1>1, PTL DEF NoSilentLoss
<1>2. CASE ~DryRun
  <2>1. Init => Counted
    <3>1. Init => emitted = {} /\ Lost = {} /\ totalErrors = 0
      BY DEF Init, Lost
    <3>2. QED
      BY <3>1, FS_EmptySet
  <2>2. ASSUME DeliveryInv, WholeBatches, ApiInv, AckedIsStored, Counted, [Next]_vars
        PROVE  Counted'
    <3>1. IsFiniteSet(Lost) /\ Cardinality(Lost) \in Nat
      BY <2>2, FS_Subset, FS_CardinalityType DEF Lost
    <3>2. totalErrors \in Nat
      BY <2>2 DEF DeliveryInv, TypeOK
    <3>3. IsFiniteSet(emitted')
      BY <1>2, <2>2, BufferSteps, FS_AddElement
    <3>4. Lost' \subseteq Lost => Cardinality(Lost') <= Cardinality(Lost) /\ Cardinality(Lost') \in Nat
      BY <3>1, FS_Subset, FS_CardinalityType
    <3>5. CASE Lost' \subseteq Lost /\ totalErrors' = totalErrors
      BY <2>2, <3>1, <3>2, <3>3, <3>4, <3>5
    <3>6. CASE AttemptFails /\ estate = "waiting" /\ UNCHANGED <<emitted, store>>
               /\ totalErrors' = totalErrors + Len(buffer) /\ Buffered' = {}
      <4>1. Lost' \subseteq Lost \union Buffered
        BY <3>6 DEF Lost
      <4>2. IsFiniteSet(Buffered) /\ Cardinality(Buffered) = Len(buffer) /\ Len(buffer) \in Nat
        BY <2>2, BufferCount DEF DeliveryInv
      <4>3. /\ IsFiniteSet(Lost \union Buffered)
            /\ Cardinality(Lost \union Buffered) <= Cardinality(Lost) + Len(buffer)
        <5>1. Cardinality(Lost \intersect Buffered) \in Nat
          BY <3>1, FS_Subset, FS_CardinalityType
        <5>2. QED
          BY <3>1, <4>2, <5>1, FS_Union, FS_CardinalityType
      <4>4. Cardinality(Lost') <= Cardinality(Lost \union Buffered) /\ Cardinality(Lost') \in Nat
        BY <4>1, <4>3, FS_Subset, FS_CardinalityType
      <4>5. Cardinality(Lost \union Buffered) \in Nat
        BY <4>3, FS_CardinalityType
      <4>6. QED
        BY <2>2, <3>1, <3>2, <3>3, <3>6, <4>2, <4>3, <4>4, <4>5
    <3>7. CASE Succeed /\ UNCHANGED <<emitted, store, totalErrors>>
      <4>1. Buffered \subseteq store
        BY <2>2, <3>7, CurrentCarriesBuffer DEF Succeed, AckedIsStored
      <4>2. QED
        BY <3>5, <3>7, <4>1 DEF Lost
    <3>8. CASE \E e \in Events : /\ emitted' = emitted \union {e}
                                 /\ Buffered' = Buffered \union {e}
                                 /\ UNCHANGED <<store, totalErrors>>
      BY <3>5, <3>8 DEF Lost
    <3>9. CASE UNCHANGED <<emitted, totalErrors>> /\ Buffered' = Buffered /\ store \subseteq store'
      BY <3>5, <3>9 DEF Lost
    <3>10. QED
      BY <1>2, <2>2, <3>6, <3>7, <3>8, <3>9, BufferSteps
  <2>3. Counted => NoSilentLoss
    BY DEF NoSilentLoss, Lost
  <2>4. Spec /\ CommitBeforeReply => []AckedIsStored
    BY DeliveryUsesApi, AckedEventsAreStored, PTL
  <2>5. Spec => [](DeliveryInv /\ WholeBatches /\ ApiInv)
    BY DeliveryInvariant, BatchesAreWhole, DeliveryUsesApi, ApiInvariant, PTL
  <2>6. Counted /\ DeliveryInv /\ WholeBatches /\ ApiInv /\ AckedIsStored /\ [Next]_vars => Counted'
    BY <2>2
  <2> HIDE DEF Counted
  <2>7. QED
    BY <2>1, <2>3, <2>4, <2>5, <2>6, PTL DEF Spec
<1>3. QED
  BY <1>1, <1>2

\* No event is counted twice: emitted, failed and buffered events together are at
\* most the events that were emitted.
THEOREM EventsAreCountedOnce == Spec => []CountedOnce
<1> DEFINE Counted == IsFiniteSet(emitted) /\ CountedOnce
<1>1. Init => Counted
  BY FS_EmptySet DEF Init, CountedOnce
<1>2. ASSUME DeliveryInv, WholeBatches, ApiInv, Counted, [Next]_vars
      PROVE  Counted'
  <2>1. /\ totalEmitted \in Nat /\ totalErrors \in Nat /\ Len(buffer) \in Nat
        /\ Cardinality(emitted) \in Nat
    BY <1>2, FS_CardinalityType DEF DeliveryInv, TypeOK
  <2>2. ASSUME NEW e \in Events, e \notin emitted
        PROVE  IsFiniteSet(emitted \union {e}) /\ Cardinality(emitted \union {e}) = Cardinality(emitted) + 1
    BY <1>2, <2>2, FS_AddElement
  <2>3. ASSUME NEW e \in Events, Emit(e) PROVE Counted'
    <3>1. /\ e \notin emitted /\ emitted' = emitted \union {e} /\ totalErrors' = totalErrors
          /\ totalEmitted' \in Nat /\ Len(buffer') \in Nat
          /\ totalEmitted' + Len(buffer') = totalEmitted + Len(buffer) + 1
      <4>1. Len(Append(buffer, e)) = Len(buffer) + 1
        BY <1>2 DEF DeliveryInv, TypeOK
      <4>2. QED
        BY <2>1, <2>3, <4>1, EmptyIsSeq DEF Emit, Flush
    <3>2. /\ IsFiniteSet(emitted') /\ Cardinality(emitted') = Cardinality(emitted) + 1
      BY <2>2, <3>1
    <3>3. CountedOnce'
      BY <1>2, <2>1, <3>1, <3>2 DEF CountedOnce
    <3>4. QED
      BY <3>2, <3>3
  <2>4. CASE EndOfVideo
    BY <1>2, <2>1, <2>4, EmptyIsSeq DEF EndOfVideo, Flush, CountedOnce
  <2>5. CASE Succeed
    <3>1. Cardinality(fresh[Current]) \in Nat /\ Cardinality(fresh[Current]) <= Len(buffer)
      BY <1>2, <2>5, CurrentCarriesBuffer, FreshCount DEF Succeed
    <3>2. QED
      BY <1>2, <2>1, <2>5, <3>1, EmptyIsSeq DEF Succeed, CountedOnce
  <2>6. CASE AttemptFails
    BY <1>2, <2>1, <2>6, EmptyIsSeq DEF AttemptFails, CountedOnce
  <2>7. CASE Post \/ Api \/ UNCHANGED vars
    BY <1>2, <2>7 DEF Post, Api, vars, emitterVars, CountedOnce
  <2>8. QED
    BY <1>2, <2>3, <2>4, <2>5, <2>6, <2>7 DEF Next, Emitter
<1>3. Counted /\ DeliveryInv /\ WholeBatches /\ ApiInv /\ [Next]_vars => Counted'
  BY <1>2
<1>4. Counted => CountedOnce
  OBVIOUS
<1> HIDE DEF Counted
<1>5. QED
  BY <1>1, <1>3, <1>4, DeliveryInvariant, BatchesAreWhole, DeliveryUsesApi, ApiInvariant, PTL DEF Spec

\* Every event of the table was emitted.
LEMMA StoredWasEmitted ==
  ASSUME DeliveryInv
  PROVE  store \subseteq emitted
BY DEF DeliveryInv, StoredWasSent, AttemptsCarryBuffer

\* The events of the table that the emitter is done with.
Settled == store \ Buffered

\* The pipeline never reports more events emitted than the database has: what is
\* added to the count at an answer of 200 is at most the batch, and that batch is
\* in the table and was not counted before.
THEOREM EmittedEventsAreStored == Spec /\ CommitBeforeReply => []EmittedIsStored
<1> DEFINE Counted == IsFiniteSet(emitted) /\ totalEmitted <= Cardinality(Settled)
<1>1. CASE DryRun
  BY <1>1, PTL DEF EmittedIsStored
<1>2. CASE ~DryRun
  <2>1. Init => Counted
    <3>1. Init => emitted = {} /\ Settled = {} /\ totalEmitted = 0
      BY DEF Init, ApiInit, Settled
    <3>2. QED
      BY <3>1, FS_EmptySet
  <2>2. ASSUME DeliveryInv, WholeBatches, ApiInv, AckedIsStored, Counted, [Next]_vars
        PROVE  Counted'
    <3>1. DeliveryInv'
      BY <2>2, NextInv
    <3>2. IsFiniteSet(emitted')
      BY <1>2, <2>2, BufferSteps, FS_AddElement
    <3>3. IsFiniteSet(Settled') /\ Cardinality(Settled') \in Nat
      <4>1. store' \subseteq emitted'
        BY <3>1 DEF DeliveryInv, StoredWasSent, AttemptsCarryBuffer
      <4>2. QED
        BY <3>2, <4>1, FS_Subset, FS_CardinalityType DEF Settled
    <3>4. IsFiniteSet(Settled) /\ Cardinality(Settled) \in Nat /\ totalEmitted \in Nat
      BY <2>2, StoredWasEmitted, FS_Subset, FS_CardinalityType DEF Settled, DeliveryInv, TypeOK
    <3>5. CASE Settled \subseteq Settled' /\ totalEmitted' = totalEmitted
      <4>1. Cardinality(Settled) <= Cardinality(Settled')
        BY <3>3, <3>5, FS_Subset
      <4>2. QED
        BY <2>2, <3>2, <3>3, <3>4, <3>5, <4>1
    <3>6. CASE Succeed /\ UNCHANGED <<emitted, store>> /\ Buffered' = {}
      <4>1. Buffered \subseteq store
        BY <2>2, <3>6, CurrentCarriesBuffer DEF Succeed, AckedIsStored
      <4>2. Settled' = Settled \union Buffered /\ Settled \intersect Buffered = {}
        BY <3>6, <4>1 DEF Settled
      <4>3. IsFiniteSet(Buffered) /\ Cardinality(Buffered) = Len(buffer) /\ Len(buffer) \in Nat
        BY <2>2, BufferCount DEF DeliveryInv
      <4>4. Cardinality(Settled') = Cardinality(Settled) + Len(buffer)
        <5>1. Cardinality(Settled \union Buffered)
                = Cardinality(Settled) + Cardinality(Buffered) - Cardinality(Settled \intersect Buffered)
          BY <3>4, <4>3, FS_Union
        <5>2. Cardinality(Settled \intersect Buffered) = 0
          BY <4>2, FS_EmptySet
        <5>3. QED
          BY <3>4, <4>2, <4>3, <5>1, <5>2
      <4>5. Cardinality(fresh[Current]) \in Nat /\ Cardinality(fresh[Current]) <= Len(buffer)
        BY <2>2, <3>6, CurrentCarriesBuffer, FreshCount DEF Succeed
      <4>6. totalEmitted' = totalEmitted + Cardinality(fresh[Current])
        BY <3>6 DEF Succeed
      <4>7. QED
        BY <2>2, <3>2, <3>3, <3>4, <4>3, <4>4, <4>5, <4>6
    <3>7. CASE \E e \in Events : /\ e \notin emitted
                                 /\ Buffered' = Buffered \union {e}
                                 /\ UNCHANGED <<store, totalEmitted>>
      BY <2>2, <3>5, <3>7, StoredWasEmitted DEF Settled
    <3>8. CASE totalEmitted' = totalEmitted /\ Buffered' = Buffered /\ store \subseteq store'
      BY <3>5, <3>8 DEF Settled
    <3>9. CASE UNCHANGED <<store, totalEmitted>> /\ Buffered' = {}
      BY <3>5, <3>9 DEF Settled
    <3>10. QED
      BY <1>2, <2>2, <3>6, <3>7, <3>8, <3>9, BufferSteps
  <2>3. Counted /\ DeliveryInv => EmittedIsStored
    <3> SUFFICES ASSUME Counted, DeliveryInv PROVE EmittedIsStored
      OBVIOUS
    <3>1. IsFiniteSet(store) /\ Settled \subseteq store
      BY StoredWasEmitted, FS_Subset DEF Settled
    <3>2. Cardinality(Settled) <= Cardinality(store) /\ IsFiniteSet(Settled)
      BY <3>1, FS_Subset
    <3>3. Cardinality(Settled) \in Nat /\ Cardinality(store) \in Nat /\ totalEmitted \in Nat
      BY <3>1, <3>2, FS_CardinalityType DEF DeliveryInv, TypeOK
    <3>4. QED
      BY <3>2, <3>3 DEF EmittedIsStored
  <2>4. Spec /\ CommitBeforeReply => []AckedIsStored
    BY DeliveryUsesApi, AckedEventsAreStored, PTL
  <2>5. Spec => [](DeliveryInv /\ WholeBatches /\ ApiInv)
    BY DeliveryInvariant, BatchesAreWhole, DeliveryUsesApi, ApiInvariant, PTL
  <2>6. Counted /\ DeliveryInv /\ WholeBatches /\ ApiInv /\ AckedIsStored /\ [Next]_vars => Counted'
    BY <2>2
  <2> HIDE DEF Counted
  <2>7. QED
    BY <2>1, <2>3, <2>4, <2>5, <2>6, PTL DEF Spec
<1>3. QED
  BY <1>1, <1>2

-----------------------------------------------------------------------------
(* Waiting *)

\* A request that holds a row that another one waits for waits for none itself.
\* The two are attempts of one batch, and insert it in one order: so does whoever
\* would hold its next row, which would have inserted the former row, too.
LEMMA HoldersDoNotWait ==
  ASSUME DeliveryInv, ApiInv, RowsInOrder,
         NEW p \in Requests, NEW q \in Requests, WaitsFor(p, q)
  PROVE  ~Waiting(q)
<1> SUFFICES ASSUME NEW s \in Requests, WaitsFor(q, s) PROVE FALSE
  BY DEF Waiting
<1>1. PICK i \in todo[p] : q # p /\ batch[p][i] \in held[q]
  BY DEF WaitsFor
<1>2. PICK k \in todo[q] : s # q /\ batch[q][k] \in held[s]
  BY DEF WaitsFor
<1>3. phase[q] = "inserting"
  BY DEF WaitsFor, NextRow
<1>4. \A r \in Requests : todo[r] \subseteq fresh[r] /\ fresh[r] \subseteq DOMAIN batch[r]
  BY DEF ApiInv, Positions
<1>5. \A r \in Requests : held[r] # {} =>
        /\ held[r] = {batch[r][j] : j \in fresh[r] \ todo[r]}
        /\ Sent(r)
  BY DEF ApiInv, HeldRows, Untouched, Sent
<1>6. PICK j \in fresh[q] \ todo[q] : TRUE
  BY <1>1, <1>5
<1>7. PICK l \in fresh[s] \ todo[s] : batch[s][l] = batch[q][k]
  BY <1>2, <1>5
<1>8. Sent(q) /\ Sent(s) /\ k \in DOMAIN batch[q] /\ l \in DOMAIN batch[s]
  BY <1>1, <1>2, <1>4, <1>5, <1>7
<1>9. batch[s] = batch[q]
  <2>1. batch[q][k] \in Ids(q) /\ batch[q][k] \in Ids(s)
    BY <1>7, <1>8 DEF Ids
  <2>2. QED
    BY <1>8, <2>1 DEF DeliveryInv, OneBatchPerFlush
<1>10. l = k
  BY <1>7, <1>8, <1>9 DEF DeliveryInv, AttemptsCarryBuffer
<1>11. j < k /\ j \in DOMAIN batch[q]
  BY <1>4, <1>6 DEF RowsInOrder
<1>12. fresh[s] = DOMAIN batch[s]
  BY <1>7 DEF DeliveryInv, WholeFresh
<1>13. j \notin todo[s]
  <2>1. j \in todo[s] => l < j
    BY <1>7 DEF RowsInOrder
  <2>2. j \in Nat /\ k \in Nat
    BY <1>4, <1>8, <1>11 DEF ApiInv, ApiTypeOK
  <2>3. QED
    BY <1>10, <1>11, <2>1, <2>2
<1>14. batch[q][j] \in held[q] /\ batch[q][j] \in held[s]
  BY <1>1, <1>2, <1>5, <1>6, <1>9, <1>11, <1>12, <1>13
<1>15. QED
  BY <1>2, <1>14 DEF ApiInv, KeysExclusive

\* So no attempt of the emitter is ever failed for waiting in a cycle.
THEOREM RetriesDoNotDeadlock == Spec => []RetriesNeverDeadlock
<1>1. Init => RetriesNeverDeadlock
  BY DEF Init, ApiInit, RetriesNeverDeadlock
<1>2. ASSUME DeliveryInv, ApiInv, RowsInOrder, RetriesNeverDeadlock, [Next]_vars
      PROVE  RetriesNeverDeadlock'
  <2> USE DEF RetriesNeverDeadlock
  <2>1. \A r \in Requests : ~DeadlockAbort(r)
    <3> SUFFICES ASSUME NEW r \in Requests, DeadlockAbort(r) PROVE FALSE
      OBVIOUS
    <3>1. PICK S \in SUBSET Requests : r \in S /\ \A p \in S : \E q \in S : WaitsFor(p, q)
      BY DEF DeadlockAbort
    <3>2. PICK q \in S : WaitsFor(r, q)
      BY <3>1
    <3>3. PICK s \in S : WaitsFor(q, s)
      BY <3>1
    <3>4. QED
      BY <1>2, <3>2, <3>3, HoldersDoNotWait DEF Waiting
  <2>2. ASSUME NEW r \in Requests, Handle(r) \/ Fail(r)
        PROVE  RetriesNeverDeadlock'
    <3> USE DEF ApiInv, ApiTypeOK
    <3>1. CASE Reject(r) \/ Conflict(r) \/ DbError(r) \/ CommitUnknown(r) \/ Respond(r)
      BY <1>2, <3>1 DEF Reject, Conflict, DbError, Rollback, CommitUnknown, Respond
    <3>2. CASE CheckExisting(r) \/ InsertRow(r) \/ Commit(r) \/ Lose(r)
      BY <1>2, <3>2 DEF CheckExisting, InsertRow, Commit, Lose
    <3>3. QED
      BY <2>1, <2>2, <3>1, <3>2 DEF Handle, Fail
  <2>3. CASE Crash \/ Post
    BY <1>2, <2>3 DEF Crash, Post, Send
  <2>4. CASE Api
    BY <2>2, <2>3, <2>4 DEF Api, Serve
  <2>5. CASE Succeed \/ AttemptFails \/ EndOfVideo \/ \E e \in Events : Emit(e)
    BY <1>2, <2>5 DEF Succeed, AttemptFails, EndOfVideo, Emit, apiVars
  <2>6. CASE UNCHANGED vars
    BY <1>2, <2>6 DEF vars, apiVars
  <2>7. QED
    BY <1>2, <2>3, <2>4, <2>5, <2>6 DEF Next, Emitter
<1>3. QED
  BY <1>1, <1>2, DeliveryInvariant, DeliveryUsesApi, ApiInvariant, RowsGoInInOrder, PTL DEF Spec

-----------------------------------------------------------------------------
(* Refinement *)

\* A step that neither posts a batch nor loses one offers what was offered.
LEMMA OfferedUnchanged ==
  ASSUME batch' = batch, \A q \in Requests : Sent(q)' <=> Sent(q)
  PROVE  Offered' = Offered
BY DEF Offered, Ids

\* A step of the emitter is a step of the promise, or changes nothing in it.
LEMMA EmitterKeepsPromise ==
  ASSUME DeliveryInv, AckedIsStored, ~DryRun, Emitter
  PROVE  [Promise!Next]_Promise!vars
<1> USE DEF DeliveryInv
<1>1. ASSUME NEW e \in Events, Emit(e) PROVE Promise!Generate(e)
  <2>1. buffer' = Append(buffer, e)
    BY <1>1 DEF Emit, Flush, TypeOK
  <2>2. Offered' = Offered
    BY <1>1, OfferedUnchanged DEF Emit, apiVars, Sent
  <2>3. QED
    BY <1>1, <2>1, <2>2 DEF Emit, apiVars, Promise!Generate
<1>2. CASE EndOfVideo
  <2>1. Offered' = Offered
    BY <1>2, OfferedUnchanged DEF EndOfVideo, apiVars, Sent
  <2>2. buffer' = buffer
    BY <1>2 DEF EndOfVideo, Flush
  <2>3. QED
    BY <1>2, <2>1, <2>2 DEF EndOfVideo, apiVars, Promise!vars
<1>3. CASE Post
  <2>1. Current \in Requests
    BY <1>3, CurrentIsRequest DEF Post, BufferFits
  <2>2. batch' = [q \in Requests |-> IF q = Current THEN buffer ELSE batch[q]]
    BY <1>3 DEF Post, Send, TypeOK, ApiTypeOK
  <2>3. \A q \in Requests : Sent(q)' <=> Sent(q) \/ q = Current
    BY <1>3, <2>1 DEF Post, Send, TypeOK, ApiTypeOK, Sent
  <2>4. ~Sent(Current)
    BY <1>3 DEF Post, Send, Sent
  <2>5. \A q \in Requests : Sent(q) => Ids(q)' = Ids(q)
    BY <2>2, <2>4 DEF Ids
  <2>6. Ids(Current)' = Buffered
    <3>1. batch'[<<flushes, attempt>>] = buffer
      BY <2>1, <2>2 DEF Current
    <3>2. flushes' = flushes /\ attempt' = attempt
      BY <1>3 DEF Post
    <3>3. QED
      BY <3>1, <3>2 DEF Ids, Buffered, Current
  <2>7. Current' = Current
    BY <1>3 DEF Post, Current
  <2>8. Offered' = Offered \union {Buffered}
    BY <2>1, <2>3, <2>5, <2>6, <2>7 DEF Offered
  <2>9. buffer # <<>> /\ UNCHANGED <<emitted, buffer, store, totalErrors>>
    BY <1>3 DEF Post, Send, BufferFits
  <2>10. Promise!Seal
    BY <2>8, <2>9 DEF Promise!Seal, Promise!Elements, Buffered
  <2>11. QED
    BY <2>10 DEF Promise!Next
<1>4. ASSUME estate = "waiting"
      PROVE  /\ Promise!Elements(buffer) \in Offered
             /\ Promise!Elements(buffer) = Ids(Current)
  BY <1>4, CurrentCarriesBuffer DEF Offered, Promise!Elements, Buffered
<1>5. CASE Succeed
  <2>1. Offered' = Offered
    BY <1>5, OfferedUnchanged DEF Succeed, apiVars, Sent
  <2>2. Promise!Elements(buffer) \subseteq store
    BY <1>4, <1>5, CurrentCarriesBuffer DEF Succeed, AckedIsStored
  <2>3. Promise!Settle
    BY <1>4, <1>5, <2>1, <2>2 DEF Succeed, apiVars, Promise!Settle
  <2>4. QED
    BY <2>3 DEF Promise!Next
<1>6. CASE AttemptFails
  <2>1. Offered' = Offered
    BY <1>6, OfferedUnchanged DEF AttemptFails, apiVars, Sent
  <2>2. CASE attempt < MaxRetries
    BY <1>6, <2>1, <2>2 DEF AttemptFails, apiVars, Promise!vars
  <2>3. CASE ~(attempt < MaxRetries)
    <3>1. Promise!GiveUp
      BY <1>4, <1>6, <2>1, <2>3 DEF AttemptFails, apiVars, Promise!GiveUp
    <3>2. QED
      BY <3>1 DEF Promise!Next
  <2>4. QED
    BY <2>2, <2>3
<1>7. QED
  BY <1>1, <1>2, <1>3, <1>5, <1>6 DEF Emitter, Promise!Next

\* A step of the API delivers a whole batch, once, or changes nothing in the promise.
LEMMA ApiKeepsPromise ==
  ASSUME DeliveryInv, ApiInv, Api
  PROVE  [Promise!Next]_Promise!vars
<1>1. /\ Offered' = Offered
      /\ UNCHANGED <<emitted, buffer, totalErrors>>
  BY ServeKeepsBatches, OfferedUnchanged DEF Api, emitterVars
<1>2. CASE store' = store
  BY <1>1, <1>2 DEF Promise!vars
<1>3. ASSUME NEW r \in Requests, Commit(r) \/ CommitUnknown(r),
             held[r] = NewIds(r), store' = store \union NewIds(r)
      PROVE  [Promise!Next]_Promise!vars
  <2>1. CASE fresh[r] = {}
    BY <1>1, <1>3, <2>1 DEF NewIds, Promise!vars
  <2>2. CASE fresh[r] = DOMAIN batch[r]
    <3>1. NewIds(r) = Ids(r)
      BY <2>2 DEF NewIds, Ids
    <3>2. Sent(r)
      BY <1>3 DEF Commit, CommitUnknown, CommitPoint, Flushed, Sent
    <3>3. Ids(r) \in Offered
      BY <3>2 DEF Offered
    <3>4. Ids(r) \intersect store = {}
      BY <1>3, <3>1 DEF ApiInv, KeysExclusive
    <3>5. Promise!Deliver(Ids(r))
      BY <1>1, <1>3, <3>1, <3>4 DEF Promise!Deliver
    <3>6. QED
      BY <3>3, <3>5 DEF Promise!Next
  <2>3. QED
    BY <2>1, <2>2 DEF DeliveryInv, WholeFresh
<1>4. QED
  <2>1. [ApiNext]_apiVars
    BY DEF Api, ApiNext
  <2>2. QED
    BY <1>2, <1>3, <2>1, StoreSteps

\* The emitter, the network, the API and the database together keep the promise
\* of EventDelivery, when the session is closed before the reply is sent.
THEOREM DeliveryKeepsPromise == Spec /\ CommitBeforeReply /\ ~DryRun => KeepsPromise
<1>1. Init => Promise!Init
  <2>1. Init => Offered = {}
    BY DEF Init, ApiInit, Offered, Sent
  <2>2. QED
    BY <2>1 DEF Init, ApiInit, Promise!Init
<1>2. ~DryRun /\ DeliveryInv /\ ApiInv /\ AckedIsStored /\ [Next]_vars => [Promise!Next]_Promise!vars
  <2>1. CASE UNCHANGED vars
    <3>1. Offered' = Offered
      BY <2>1, OfferedUnchanged DEF vars, apiVars, Sent
    <3>2. QED
      BY <2>1, <3>1 DEF vars, apiVars, emitterVars, Promise!vars
  <2>2. QED
    BY <2>1, EmitterKeepsPromise, ApiKeepsPromise DEF Next
<1>3. Spec /\ CommitBeforeReply => [](DeliveryInv /\ ApiInv /\ AckedIsStored)
  BY DeliveryInvariant, DeliveryUsesApi, ApiInvariant, AckedEventsAreStored, PTL
<1>4. CASE DryRun
  BY <1>4
<1>5. CASE ~DryRun
  <2>1. DeliveryInv /\ ApiInv /\ AckedIsStored /\ [Next]_vars => [Promise!Next]_Promise!vars
    BY <1>2, <1>5
  <2>2. QED
    BY <1>1, <1>3, <2>1, PTL DEF Spec, Promise!Spec, KeepsPromise
<1>6. QED
  BY <1>4, <1>5
=============================================================================
