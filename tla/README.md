# Verification of the store analytics pipeline

TLA+ models, TLC checks and TLAPS proofs for the repository under `src/`: a
computer-vision pipeline that watches store videos and emits events, and a
FastAPI service that stores the events in PostgreSQL and answers analytics
queries. Line numbers refer to the sources at the commit this project was
written for; `PROJECT.json` maps every definition to the lines it models.

## 1. The system

| Part | State | Operations | Talks to |
| --- | --- | --- | --- |
| Camera loops (`cv/batch_runner.py` 87-440) | tracks in the zone or the queue, staff flags | one pass per processed frame | detector, VisitorTracker, emitter |
| VisitorTracker (`cv/tracker.py`) | track -> visitor, embeddings, recent exits, sequence numbers | get_or_create, next_seq, mark_exit | called by the camera loops |
| LineCrossingDetector (`cv/utils.py` 66-122) | last height of each track, tracks that have just crossed | update | entry camera |
| EventEmitter (`cv/emit.py`) | buffer, two counters | emit, flush with its retry loop | POST /events/ingest |
| process_video, run_all (`cv/batch_runner.py` 444-570) | one of each of the above per video | open, loop, flush in `finally` | all of the above |
| Ingestion API (`app/api/routes/events.py`, `app/services/event.py`, `app/repositories/event.py`, `app/db/session.py`) | a session and transaction per request | ingest | PostgreSQL |
| Event queries (same files) | none | create, bulk, get, list, stats | PostgreSQL |
| Transactions API (`app/services/transaction.py`, `app/repositories/transaction.py`) | the transactions table | create, bulk, get, list | PostgreSQL |
| Analytics API (`app/services/metrics.py`, `app/repositories/metrics.py`) | none: reads | metrics, funnel, heatmap, anomalies | PostgreSQL |
| Health (`app/services/health.py`) | none: reads | status | PostgreSQL |
| Detection, staff colours, annotated video, dashboard, settings, logging, migrations | no state of the protocol | | |

The pipeline is one thread and processes one video after the other; each video
has an emitter, a tracker and a line detector of its own. The API is one uvicorn
process whose event loop interleaves requests at every `await`; the database
runs their transactions concurrently. The two meet in `POST /events/ingest`,
which the emitter calls with a timeout and retries.

What is hard, and what has to be right:

* **Ingestion.** Which ids exist is read before the rows are inserted, at READ
  COMMITTED, so two requests with common ids both find them absent and then meet
  at the primary key: one waits inside `flush()`, fails, goes on, or takes part in
  a deadlock. A batch must be stored as a whole or not at all, an acknowledged
  event must be stored, no event may be counted as ingested twice.
* **Delivery.** A request the emitter has given up waiting for goes on next to
  its retry. No event may be lost without being counted as an error, none counted
  twice, no batch stored in part, and the counters must not claim more than is
  stored.
* **Cameras.** Tracks are lost and found between frames, several tracks are taken
  for one visitor, people look like staff in one frame and not in the next, depth
  and time are computed at one point of the loop and used at another. The event
  stream must tell the queue and the zone as they are: joins and leaves in turn,
  right depths, stays with right dwell times, visitors numbered without a gap.
* **Line detector.** A person who lingers on the line is to be reported once, and
  a track that was lost is not to be compared with where it was long ago.
* **From the camera to the table.** What a camera says of the queue is cut into
  batches, some of which are dropped or stored late; a video ends, fails, is
  killed and is run again. The depth computed from the table must be off by no
  more than the program itself has counted as errors.
* **Queries and analytics.** An answer is computed from several SELECTs, between
  which batches are committed; a client that pages makes several requests.

`PROJECT.json` lists these as hazards, each at its line.

## 2. The modules

| Module | Models | Extends / uses |
| --- | --- | --- |
| `IngestApi` | `POST /events/ingest`, `POST /events` and `/events/bulk`, their transactions, the events table | |
| `Delivery` | EventEmitter and the network, composed with the API | `IngestApi` |
| `EventDelivery` | what delivery promises: the abstract specification | |
| `Detections` | the tracks a video can have and its length: what the cameras share | |
| `VisitorTracker` | visitor identity and `session_seq`; the events of a camera | `Detections` |
| `BillingCamera`, `ZoneCamera` | the loops of two cameras | `VisitorTracker` |
| `EntryCamera` | the loop of the third, with its line detector | `VisitorTracker`, `LineDetector` |
| `BillingPipeline` | `process_video` around the billing camera, run after run, down to the table | `BillingCamera`, `EventDelivery` |
| `LineDetector` | `LineCrossingDetector.update` as operators and an action | `Detections` |
| `LineCrossing` | the detector with the history of what it saw and reported | `LineDetector` |
| `TransactionKeys` | the composite `transaction_id` and LIKE, as operators | |
| `Transactions` | the transactions API: create, bulk, get, list | `IngestApi`, `TransactionKeys` |
| `StoreMetrics` | metrics, funnel, heatmap and anomalies of a store | |
| `EventQueries` | list, statistics and health: the answers about all events | `StoreMetrics` |
| `IngestApiProofs`, `DeliveryProofs`, `TransactionsProofs` | theorems about the writers of the tables | the modules they are about |
| `VisitorTrackerProofs` | lemmas about the tracker and its events | `VisitorTracker` |
| `EntryCameraProofs`, `ZoneCameraProofs`, `BillingPipelineProofs` | theorems about the cameras, the line detector and the pipeline | `VisitorTrackerProofs`, and the modules they are about |
| `EventQueriesProofs` | theorems about all answers, those of `StoreMetrics` included | `EventQueries` |
| `MC...` | constants and symmetry for TLC | |

### IngestApi

`store` is the committed rows; each request has a `phase`, the `batch` it
carries, the positions it found absent (`fresh`), those still to be inserted
(`todo`), the rows its open transaction holds (`held`) and its `reply`.
`CheckExisting` is `get_existing_ids` and the sorting loop; `InsertRow` one row of
the INSERT that `create_many` flushes; `Conflict` the IntegrityError it raises;
`Rollback` the except branch of `get_async_session`; `Commit` its exit;
`Respond` the answer. PostgreSQL is external: an INSERT of a key held by another
open transaction waits (`WaitsFor`), and a cycle of waiting requests is broken by
failing one (`DeadlockAbort`). A row of a multi-row INSERT is a step of its own
because the server takes the key locks one by one. Failures: the request is lost,
any statement fails, COMMIT takes effect and its answer is lost
(`CommitUnknown`), the process stops (`Crash`).

`Create` is `POST /events` and `POST /events/bulk`: the server makes the ids, so
they are `Unused` ones, and there is no lookup; from there on the request goes as
an ingestion does. A session takes a connection of the engine's pool at its first
statement and gives it back when it is closed; with `Connections` of them taken, a
request waits at its first statement or fails (`DbError`, the pool's timeout).

`CommitBeforeReply` is not a setting of the program but of its environment. The
session is committed when a dependency with `yield` is closed;
`requirements.txt` allows any FastAPI from 0.115 on, and up to 0.117 the
dependency is closed before the response is sent, from 0.118 on after it. The
model has both, and the properties say which they need: with the reply first, a
200 can be followed by a failed commit, so `AckedIsStored` and everything built
on it holds only with the commit first. What is left in the other case is
`AnsweredIsInserted`.

Events are model values; the fields of an event other than its id are left out,
and so are item errors in a 200, because building an `Event` from a validated
item raises nothing. `Malformed` are the ids whose items `IngestEventItem`
refuses. `MaxBatch` stands for the limit of 500 events of an ingestion. `POST
/events/bulk` and `POST /transactions/bulk` have no such limit: for `Create`, and for
`Posts` of `Transactions`, it is only a bound of the model.

### Delivery and EventDelivery

A request is named by its flush and attempt. `Emit` is `emit()` with the flush a
full buffer causes, `EndOfVideo` the flush in `process_video`'s `finally`, `Post`
the sleep before a retry and `requests.post`, `Succeed` a 200 that arrives,
`AttemptFails` every `RequestException`: it may happen at any time while the
emitter waits, whatever has become of the request, which covers timeouts, lost
answers and error statuses alike. The API's own steps (`Serve`) go on
independently of the emitter, abandoned attempts included.

`EventDelivery` knows nothing of requests: events gather in a buffer, the buffer
is offered as a batch, an offered batch reaches the database as a whole and not
partly twice, and the buffer is emptied only when its events are stored or are
counted as errors. `KeepsPromise` is the refinement: buffer, stored rows, error
count and the batches that were posted are mapped to the abstract variables.

### The cameras

`VisitorTracker` has the state every camera's tracker has, and `events`, the
events emitted so far in order. `Identities` is what `get_or_create` may return:
the track's visitor if it has one; otherwise a visitor who left near the given
position, one of a similar look, or a new one, in the order of preference and
with the `is_reentry` flag of the code. Positions, embeddings and the clock are
not modelled: which candidate matches is nondeterministic, so the properties hold
for every threshold and every image. A new visitor is named by its track; that two
visitors get the same 24-bit hash is left out.

Each camera takes a frame (`ReadFrame`: the set of tracks the detector reports is
arbitrary, which includes lost, found and swapped tracks), then processes the
tracks that are gone, then the persons, one per step and in any order. The order
of the code within a frame is kept: leaves before joins, entries before exits,
the depth of the queue before both. `ZoneCamera` also has the frame number and
the time computed from it, with the dwell interval. Times are in ticks, any fraction of
a second that the duration of a frame (`FrameTime`, the 1 / fps of the video) is a
multiple of, so that every rational frame rate has its ticks, 29.97 too. What the code
rounds is rounded: the elapsed time to microseconds by `timedelta`, the
epoch to the precision of a float (`now_epoch`), the dwell time down to milliseconds
(`DwellMs`), the timestamp of an event down to seconds (`Whole(ts, Second)`).
Rounding to the nearest takes a half upwards, where Python takes it to the even
neighbour, and the quotient `elapsed_s` is exact before the `timedelta` rounds
it. `EndOfVideo` leaves
whoever is in the zone or the queue there, as the code does. Left out: the
counters of `VideoResult`, `is_staff` on zone and entry events, confidence, and
the annotated video.

### BillingPipeline

`process_video` for the billing camera, from opening the video to `return result`.
`Open` makes a tracker, an emitter and the variables of the loop; `Process` is a
step of the camera, whose event, if it has one, goes into the buffer; a full buffer
stops the loop until it is posted (`Post`) and settled (`Settle`) or given up
(`GiveUp`), as `emit` does; `LeaveLoop` is the way out of the loop, by the end of
the video or by an exception at any point of it, `Close` the return after the flush
of the `finally` clause. `Kill` ends the runner anywhere, with whatever is in its
buffer. A batch that was posted may be stored at any later time (`Store`), after
the runner has given it up, finished, or been killed. Runs follow each other; an
event is named by its run and its number in it, because the code gives it a fresh
uuid in each run. The emitter, the network and the API are not modelled again: the
module uses the actions of `EventDelivery`, which `Delivery` is shown to implement
(`KeepsPromise`), so that what is shown here holds of the two together.

`past` is history: what each run emitted, how many people it found in the queue
when its loop was left, and what it counted as errors or lost with its buffer.
`GapsAreCounted` and `DepthIsExplained` relate it to the table. The second is the
statement about the depth of the queue in the metrics: the people of the current
run, those every earlier run ended with, and an error bounded by the counters.

The entry and zone cameras have the same pipeline around them, and the properties
of the pipeline that do not speak of the queue do not depend on the camera. Videos
that are missing or cannot be opened return before anything is emitted.

### LineDetector

`LineDetector` has heights relative to the line. `Update` follows the code for
both settings of `invert`. `LineCrossing` runs it alone and keeps everything it
was shown, so that its properties can speak of a track's whole walk.

### TransactionKeys and Transactions

A transaction is stored under one column made of the store, a `|` and the id the
client chose; `TransactionKeys` has the encoding, the decoding, the two patterns of the
code and PostgreSQL's LIKE as operators over sequences of characters, because what goes
wrong here is a matter of single characters (the separator in a name; `_`, `%` and `\` in
an id). `Like` says which keys a pattern matches without walking along them: every
character of the key is taken by a place of the pattern. The escape is LIKE's default one,
`\`, since the code names no other and escapes nothing. A pattern that ends with an
escape fails the statement, though only at a row that the rest of the pattern has
led to its end (`Breaks`). `LikeAssumption` of `MCTransactions`, which TLC evaluates,
compares `Like` with a matcher that goes from left to right, for all keys of up to 3 and
all patterns of up to 4 characters.

`Transactions` has the rows, sessions and failures of `IngestApi`: the unique column plays
the part of the primary key, and the inherited `Events` are the stored ids. What differs
is the checking: `Check` is one `exists()` of one item, the next item being asked for by a
SELECT of its own, `Refuse` the 409 for the whole request, and a row longer than the
column fails the INSERT (`TooLong`). The IntegrityError of two racing requests is not
caught by the service, so that it is `Conflict` as in the ingestion: a 500. Reads (`Get`,
`GetAgain`, `List`, `ListTotal`) are two SELECTs each and run next to the writers. The
second one of a GET has three outcomes, a row, a 404 and a 500 (`found`, `missing`,
`failed`). An id that is asked for is one that clients post, or a whole key. Left out:
amount, status and times, the filters of a listing other than the store, and pages beyond
the first, which the code reads in the same way.

### StoreMetrics

Each of the four answers is the sequence of SELECTs that its service method executes
(`Selects`); `Select` executes the next one against the `table` as it is then, and
`Ingest` commits batches in between, at most `MaxCommits` of them while one answer is
made. `get_conversion_rates` and `get_dead_zones` look at the clock once, before their
first SELECT, so they may do so at different times (`now`). `seen` is a history variable:
the tables there were since the answer began. What is computed from the results (`Rate`,
`Depth`, `Spike`, `Drop`, `DeadZones`, `DropOff`, `Score`) are operators with the code's
rounding. Events have any of the nine types. Times are ticks of half an hour. One answer
is enough, since answers change nothing. The averages of dwell times and of baskets, and
`GET /metrics`, which reports one number, are left out.

### EventQueries

The answers about events as such, made as those of `StoreMetrics` are: `GET /events`
(`ListSelects`: a page, its total, then the next page and its total, which a client
that pages asks for), `GET /events/stats` and `GET /health` (the latest event, then
the clock). `Pages` is what ORDER BY, OFFSET and LIMIT may return: rows of the same
timestamp come in any order, and not in the same one twice. Of the filters one
event type stands for all, since they are all conjuncts of one WHERE. One store is
enough for the health check, whose SELECT has a row for each.

## 3. The runs

| Run | Bounds | Distinct states | Properties |
| --- | --- | --- | --- |
| `api_early` | 3 requests on 2 connections, 2 ids and a malformed one, batches of 1-2 with repetitions, ingested or created, weak fairness | 277,607 | `ApiInv`, `AckedIsStored`, `IngestedOnce`, `ConflictHasCause`, `BatchAtomic`, `RequestsEnd` |
| `delivery_early` | 3 events and a malformed one, batches of 2, 2 flushes of 2 attempts | 181,651 | `DeliveryInv`, `NoSilentLoss`, `CountedOnce`, `EmittedIsStored`, `WholeBatches`, `KeepsPromise` |
| `delivery_late` | 2 events, 1 flush of 3 attempts, reply before commit, weak fairness | 29,806 | `AnsweredIsInserted`, `RefusedRetryIsStored`, `RetriesNeverDeadlock`, `EveryEventSettles` |
| `retries_safe` | 2 events, 1 flush of 2 attempts | | violation of `RetriesAreSafe` |
| `billing_queue` | 3 tracks, 3 frames in at most 2 runs, batches of 4 | 1,084,899 | `PipelineInv`, `QueueIsTold`, `DepthsAreTold`, `GapsAreCounted`, `DepthIsExplained` |
| `zone_stays` | 2 tracks, 7 processed frames of 15, frames of just under 0.67 s, every 2nd processed, dwell interval of 8 s | 547,099 | `ZoneInv`, `StaysAreTold`, `DwellMatchesTimestamps`, `DwellIsPeriodic` |
| `video_time` | as `zone_stays`, shorter | | violation of `TimestampIsVideoTime` |
| `line_crossing` | 1 track, 6 frames, heights -2..2, far is beyond 1 | 55,987 | `LineInv`, `Debounced`, `CrossingsAreReported` |
| `entry_visitors` | 3 tracks, 4 frames, heights far and near on one side, far on the other | 254,684 | `EntryInv`, `ReentryWasSeen` |
| `transactions_read` | 2 writers, 1 reader, 2 connections, 6 items (ids LIKE confuses or does not match with themselves or fails for, names with a separator, one too long, one malformed), bulks of 2, pages of 1 | 3,518,283 | `TransactionsInv`, `ReadAsPosted`, `AckedIsFound`, `PageFitsTotal` |
| `store_metrics` | 11 events of 4 visitors around midnight, batches of 2, 1 batch committed while an answer is made, thresholds scaled down, pages of 1 | 6,429,876 | `AnswersInv`, `DepthWasReached`, `DropWasReal`, `DeadZonesWereNotEntered`, `PurchasesWereQueued`, `PagesMissOnlyTies` |
| `funnel_answered` | as `store_metrics` | | violation of `FunnelIsAnswered` |

What they show. `api_early`: however requests with common ids interleave, wait for a
connection, are lost, fail or are cut off by a restart, a batch is stored as a whole or
not at all, what a 200 acknowledges is stored, no event counts as ingested twice, a
request that fails on a key has another one to blame, and every request ends.
`delivery_early`: with retries next to abandoned attempts, no event is lost without being
counted as an error, none is counted twice, the counters claim no more than is stored, and
delivery keeps the promise of `EventDelivery`. `delivery_late`: what is left of that when
the reply may precede the commit, and that every event is settled in the end.
`billing_queue`: the events of the billing camera tell the queue, a leave stands in the
table without its join only if the runner has counted an error, and the depth the store is
told is explained, also across failed, killed and repeated runs. `zone_stays`,
`line_crossing`, `entry_visitors`: the event stream of a camera tells stays, crossings and
visitors as they were, as far as the code can know them. `transactions_read`: what is
acknowledged is read back as it was posted, and found, whatever LIKE takes it for, except
by an id with a `\`; a page fits its total. `store_metrics`: an answer that is pieced
together from several moments still says only what was so at one of them, and paging
through a growing list misses no event, except one of the same second as the end of a
page.

Why the bounds are enough. Two requests over two ids contain every way two requests can
meet at a key; in opposite orders they deadlock; the third has to wait for a connection,
or comes with what the others have left behind. Two flushes of two attempts let an
abandoned attempt of the first flush land during the second; three attempts of one flush
make a retry of a retry. Three tracks let one visitor be seen as two tracks while a third
stands by; three frames let a track come, go and come back, and two runs share them, so
that a first run that ends early, or is killed, is followed by one that starts anew; up to
nine events of a run in batches of four make a first, a middle and a last batch, split a
join from its leave, and leave a rest for the flush at the end. Seven processed frames let
a track stay for a dwell event, leave, return and stay again. A frame takes two thirds of
a second less a twentieth of a microsecond, and three processed frames of the clock, which
counts the skipped frames twice, take a little less than the interval of 8 seconds: by
rounding, a dwell event comes after three of them or, a frame late, after four, depending
on when the stay began; the time between processed frames is no multiple of a microsecond,
a millisecond or a second. The line detector treats tracks independently, so one is
enough, and six frames allow crossing, lingering, coming back, being lost and crossing
again. A reader of transactions has one SELECT before and one after a commit, which two
writers provide. An answer of the analytics compares the results of two SELECTs at a time,
so one batch between them, of two events that raise one count and lower another, is the
smallest case that can mislead it; the thresholds keep their order and are low enough to
be reached by these events. Symmetry is used only in runs without temporal properties
other than action properties and the refinement, and permutes event ids, requests or
tracks, which nothing orders. `api_early` has liveness, and looks instead at the
behaviours in which the batches of its three requests are in order (`Ordered` in
`MCIngestApi`): the requests are alike, so every other behaviour is one of these with the
requests renamed.

Every safety property of a run that passes is also proved for all sizes (section 4), so
that the bounds matter for the liveness properties, for the violations, and for finding
out what to prove.

Deadlock checking is off everywhere: the program stops when a video is over or no
client has anything to send.

Fairness. `ApiFairness`: the event loop and the database keep working on every
request they hold; failures are never owed, and breaking a deadlock is part of
`Handle` because PostgreSQL's deadlock detector is on by default. `Fairness` of
`Delivery` asks only that the pipeline's thread runs, that the video ends and that
`requests.post` returns or raises, which its timeout ensures; it asks nothing of
the API.

Each property has a mutant in `PROJECT.json`: a definition of the model changed
the way a bug in that code would, under which TLC finds the property violated. The
mutants stand next to the definitions they change, marked `(mutation)`.

## 4. What is proved

Every safety property of a passing run is a theorem: each invariant, `BatchAtomic` and
the refinement `KeepsPromise`. TLAPS checks them for any number of events, requests,
attempts, readers, tracks, frames and runs, and for all sizes of batches and pages,
heights, bands, rational frame rates, intervals and thresholds.

| Module | Theorems (and the property of a run, where the name differs) |
| --- | --- |
| `IngestApiProofs` | `ApiInvariant` (`ApiInv`), `BatchesAreAtomic` (`BatchAtomic`), `AckedEventsAreStored` (`AckedIsStored`), `EventsAreIngestedOnce` (`IngestedOnce`), `ConflictsHaveCauses` (`ConflictHasCause`), `AnsweredEventsAreInserted` (`AnsweredIsInserted`), `RowsGoInInOrder` |
| `DeliveryProofs` | `DeliveryUsesApi`, `DeliveryInvariant` (`DeliveryInv`), `BatchesAreWhole` (`WholeBatches`), `RefusedRetriesAreStored` (`RefusedRetryIsStored`), `NothingIsLostSilently` (`NoSilentLoss`), `EventsAreCountedOnce` (`CountedOnce`), `EmittedEventsAreStored` (`EmittedIsStored`), `RetriesDoNotDeadlock` (`RetriesNeverDeadlock`), `DeliveryKeepsPromise` (`KeepsPromise`) |
| `TransactionsProofs` | `RequestsInvariant`, `TransactionsAreStored`, `TransactionsAreCreatedOnce` (`IngestedOnce`), `PostsAreReadAsPosted` (`ReadAsPosted`), `ReadersInvariant`, `AckedIsReadBack` (`AckedIsFound`), `PagesFitTotals` (`PageFitsTotal`), `TransactionsAreChecked` (`TransactionsInv`), `BulksAreAtomic` |
| `EntryCameraProofs` | `DetectorInvariant`, `LineInvariant` (`LineInv`), `CrossingsAreDebounced` (`Debounced`), `CrossingsAreNotMissed` (`CrossingsAreReported`), `EntryInvariant`, `EntryIsConsistent` (`EntryInv`), `ReentriesWereSeen` (`ReentryWasSeen`) |
| `ZoneCameraProofs` | `ZoneInvariant`, `ZoneIsConsistent` (`ZoneInv`), `StaysAreComplete` (`StaysAreTold`), `DwellIsElapsedTime` (`DwellMatchesTimestamps`), `DwellEventsAreRegular` (`DwellIsPeriodic`) |
| `BillingPipelineProofs` | `PipelineInvariant`, `QueueIsComplete` (`QueueIsTold`), `DepthsAreConsistent` (`DepthsAreTold`), `LossesAreCounted` (`PipelineInv`), `OrderIsKept` (`GapsAreCounted`), `DepthsAreExplained` (`DepthIsExplained`) |
| `EventQueriesProofs` | `AnswersHaveSources`, `AnswersAreSound` (`AnswersInv`), `DepthsWereReached` (`DepthWasReached`), `DropsWereReal` (`DropWasReal`), `NobodyEnteredDeadZones` (`DeadZonesWereNotEntered`), `PurchasesWereInQueue` (`PurchasesWereQueued`), `PagesMissTiesOnly` (`PagesMissOnlyTies`) |

The assumptions are the ASSUMEs of the modules: sizes are positive, a buffer fits into a
request, requests are pairs of flush and attempt, a transaction's store and id are strings
of characters, thresholds are in order, a frame takes a whole number of ticks. Where a
theorem says so there is also `CommitBeforeReply`, and in `DeliveryKeepsPromise` no dry
run. Each passing run evaluates those of its modules.

**The API.** `ApiInv` is inductive: besides types it says that the
rows a request holds are exactly those of its absent items that are no longer to
be inserted, that no key has two holders or is held and stored, and that the items
it skipped are committed. Without the last two neither the insertion of a row nor
a commit could be shown to keep the others. That acknowledged events are stored
and counted once follows from a second invariant, `LandedInv`, about the requests
whose transaction has committed: their events are stored, and no two of them
inserted the same one. The table only changes in `Commit` and `CommitUnknown`
(`StoreSteps`), which gives `BatchAtomic`.

**Delivery.** Each step of `Delivery` is a step of the API
(`DeliveryUsesApi`: the emitter posts only batches the API accepts), so the API's
invariant is available. `DeliveryInv` adds that the attempts of a flush carry one
batch, the batches of different flushes share no event, and every attempt found
its whole batch absent or none of it; the last needs `WholeBatches`, and
`WholeBatches` needs it, so the two are proved together. Then a retry that meets a
key can only have met its own batch (`RefusedRetriesAreStored`), and a 200 empties
the buffer of stored events (`NothingIsLostSilently`, `DeliveryKeepsPromise`). What the
emitter counts as emitted is bounded by the stored events that are out of its buffer,
which a 200 increases by its batch (`EmittedEventsAreStored`). Retries cannot deadlock,
because a request that holds a row another one waits for does not wait itself
(`HoldersDoNotWait`): whoever held its next row would be an attempt of the same batch, all
of whose rows go in in one order (`RowsGoInInOrder`), so that it would hold the former row
too, which has one holder only.

**Transactions.** The requests are those of the API, so `ApiInv` and `LandedInv` are
kept by the same lemmas; `RequestsInd` adds that the keys of a request encode its items
and that its INSERT begins when every item was asked for. A request inserts all of its
items or none, which makes a bulk atomic (`BulksAreAtomic`). Encoding and decoding are
inverse if the store has no separator, which is shown from the position of the first one
and needs no recursion (`PostsAreReadAsPosted`). A reader between its two SELECTs
(`ReadersInd`) has seen no row with the key it asked for, and what was acknowledged
before it began is in the table. If the id has no `\`, its pattern does not fail and
matches every key that ends like it, whatever else its `_` and `%` match
(`EndsWithIsLike`, where `%` takes what is before the suffix), and the code prefers such a
key (`AckedIsReadBack`).

**The tracker.** `TrackerInd` is the tracker's invariant and `Recorded`: the counter
`session_seq` of a visitor is the number of events of the visitor. An event appended to
the others keeps both (`VisitorTrackerProofs`), in every camera.

**The line detector and the entry camera.** `LineInv` says of the history which tracks are
held back: those reported and followed since without being far from the line. With
the types of the history (`History`) it is inductive: a new frame adds one report and
one height, and leaves what is said of the earlier frames as it was (`ShowReports`).
A track is reported only if it is not held back, so every earlier report was followed
by being far (`Debounced`), and a crossing goes unreported only if the track is held
back (`CrossingsAreReported`). `EntryInd` needs that the looks and exits that are
remembered have their events: a re-entry is concluded from a look, so its visitor has an
event, and no event of this track, which has no visitor yet (`ReentriesWereSeen`).

**The zone camera.** The properties speak of each event and the one before it of the
same track. `ZoneInd` says the same of the event that would come next: who is in the zone
has an open stay, the last event of which was at `last_dwell` (`Stays`), no
event is later than the clock, and a dwell event is due by a processed frame at most
(`Due`). An event that is appended has the last one of its track before it, and all
others keep theirs. Dwell times and timestamps differ by what is cut off and rounded of
them: `WholePart` and `Rounding` say by how much, `WholeGrows` that no rounding changes the
order of two times, and `NextTime` how far the clock moves from one processed frame to the
next.

**The pipeline.** `CameraInd` has of the queue what `Stays` has of the zone, and that the
people in it are the joins less the leaves (`Counted`). `RunsInd` relates the runs to the
table: the events are numbered run by run (`Numbered`), the buffer is the latest events of
this run (`Buffer`), those that are absent and not in the buffer were counted
(`Accounted`), and a batch that was posted had no more absent events before it than were
counted (`Batches`). The last is what `GapsAreCounted` needs, since a batch may be stored
long after the runner has gone on, or has been killed. `DepthIsExplained` is about sums
over all runs. Such a sum is shown equal to the number of pairs of a run and a number
below its summand, by taking a smallest set of runs for which it were not: induction over
a set would need theorems the provers cannot use, a smallest counterexample does not.
The rest is counting: the joins and leaves stored differ from those emitted by the
absent events, and those of each run balance with the people it ended with (`Balanced`).

**Queries and analytics.** All theorems rest on `AnswersHaveSources`: each result was read
from a table the answer has seen, and a later SELECT read a larger one, since nothing is
deleted. A depth is read as joins of one table less leaves of a later one, which has no
fewer joins, so it is at most the depth in the later one (`DepthMonotone`); the drop in
conversion is compared in the same way (`DropMonotone`); a zone is called dead only if the
last SELECT of the answer did not find it; and the second page of a list that has grown at
its head begins no later than the first one ended, up to events of the same time.

Only model-checked: `RequestsEnd` and `EveryEventSettles`, because liveness and `ENABLED`
are beyond the prover, and the three properties that are refuted. Induction over
data is out of reach too; the models have no recursive definition, and the only folds are
sums over runs.

## 5. Where the code and its documents disagree

* `retries_safe`: a retry that overlaps its own first attempt is answered 500
  rather than "silently skipped" (README.md:182). The batch is not stored twice
  and nothing is lost (`RefusedRetryIsStored`), but the events are counted as
  errors although they are stored.
* `video_time`: `frame_timestamp` multiplies by `SKIP_FRAMES` a frame number that
  already counts the skipped frames, so event time, dwell times and the dwell
  interval run three times too fast. Dwell times and timestamps agree with each
  other (`DwellMatchesTimestamps`), which hides it.
* `funnel_answered`: the funnel assumes that every visitor of a stage was in the one
  before, but the stages count visitors by unrelated events: with more visitors in a
  zone than entries (a REENTRY is no ENTRY, and each camera numbers visitors of its
  own) the drop-off is negative, which `FunnelStage` refuses: the request fails
  with a 500 (`services/metrics.py:95`, `schemas/metrics.py:32-33`).

Met while modelling, without a run of their own:

* Ingestion. One malformed event refuses its whole batch with a 422, against
  CHOICES.md:179: the items are validated with the request (`schemas/event.py:64`).
* Cameras. A person hidden for one processed frame leaves and enters the zone;
  `ZONE_LOST_TRACK_TIMEOUT_S` is never used (CHOICES.md:67, `batch_runner.py:255`). A
  re-entry is concluded from a look alone, so it may name a visitor who never left,
  while a visitor who left and returns near the same point is an `ENTRY`. Someone who
  turns back before being 30 pixels from the line leaves without an `EXIT`. A visitor
  whose track changes id in the queue abandons it and joins it at once.
* Pipeline. Nobody leaves the queue when a video ends, so the depth that the store is
  told keeps whoever the video ended with, and a video that is run again adds its
  people once more (`DepthIsExplained` says by how much). The tracker, the detector
  and the emitter are made before the `try` (`batch_runner.py:487-508`): if that
  raises, `run_all` ends and the videos to come are not processed. `_emitted` is
  stored among the counts by event type (line 533) and summed with them (line 77), so
  the totals printed count every stored event twice.
* Queries. `GET /events` is ordered by a timestamp of whole seconds and nothing else,
  so paging may skip or repeat an event of the second a page ends in
  (`PagesMissOnlyTies` is as strong as the order allows). `GET /health` compares the
  time of the video with the clock of the machine, so a recording of yesterday is a
  stale feed while it is being ingested.
* Transactions. The ids and stores of requests go into LIKE patterns as they are
  (`repositories/transaction.py:43` and `107`). `_` and `%` are wildcards, so `GET
  /transactions/{id}` may return another transaction where docs/TRANSACTIONS.md promises a
  404 (`Candidates`; `AckedIsFound` says when it cannot). `\` is LIKE's escape: a
  transaction whose id is `a\b` is stored and acknowledged, but `GET /transactions/a\b`
  looks for `ab`, so that the answer is a 404 or another transaction; with an id that ends
  in `\` the SELECT fails at such rows, a 500. `AckedIsFound` therefore excludes `\`,
  unless the whole key is asked for. The run has an id of each kind. In the same way a
  listing of a store with these characters in its name shows rows of other stores, or
  none. Of two racing creations of one id, the second is answered 500 and not 409. Store
  names that contain `|` make the encoding ambiguous (the premise of `ReadAsPosted`).
  Store and id may have 64 characters each and share a column of 64: a 500 (`TooLong`).
* Analytics. A zone is reported dead when nobody *entered* it for half an hour
  (`repositories/metrics.py:299-307`), where README.md:309 and DESIGN.md:146 and 192 say
  that there were no zone events, and the message of the anomaly (`services/metrics.py:215`)
  no visitor activity: a zone whose visitors stay, and send ZONE_DWELL, is reported too. The
  `store_metrics` run contains such a zone, and `DeadZonesWereNotEntered` claims no more
  than the code does. The conversion rate is not the percentage its description says: visitors
  without an ENTRY count as converted, so it may exceed 100. `data_confidence` is
  computed per store and not per zone (README.md:300). A zone that has been dead
  for more than an hour is no longer reported. A queue of 3 is reported with severity
  INFO, which the documents do not mention.

## 6. What is not modelled, and the plan

Not modelled for good: YOLO and ByteTrack (their tracks are arbitrary input),
the staff colours (arbitrary, frame by frame), the annotated video, the dashboard,
the printed summary, settings, logging and migrations, and the repositories no route
reaches. They keep no state of the system, or none that another part reads.

Left out of modelled parts, because no property tells it apart: the fields of an event
other than those a query selects by, `is_staff` and the counters of a video, the averages
of dwell times and baskets, `GET /metrics` (one number from a table no route writes), and
`GET /events/{id}` (one lookup by key). Two things need a measure the models do not have:
the re-entry window is measured on the machine's clock while events carry video time, and
two visitors may get the same 24-bit id.

What is left, in this order:

1. the entry camera's events against the history of `LineCrossing`: each crossing that
   the detector reports is one event, of the right kind, unless the video ends first;
2. the billing camera as a refinement of a queue that people join and leave, and the zone
   camera as one of stays, so that the pipeline can be proved for every camera at once;
3. the answers of `GET /metrics` if a route comes to write its table.
