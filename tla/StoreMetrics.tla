---------------------------- MODULE StoreMetrics ----------------------------
(***************************************************************************)
(* The analytics of a store: GET /stores/{id}/metrics, /funnel, /heatmap   *)
(* and /anomalies.  Each answer is computed from several SELECTs over the  *)
(* events table.  At READ COMMITTED every one of them sees the table as it *)
(* is at that moment, and batches of events are committed in between.      *)
(*                                                                         *)
(* An answer changes nothing, so that one of them is enough; the averages  *)
(* of dwell times and baskets, which no other number depends on, are left  *)
(* out.  Times are ticks of half an hour where the code has a timedelta.   *)
(***************************************************************************)
EXTENDS Integers, Sequences, FiniteSets

CONSTANTS
  Rows,           \* the store's events that may be ingested
  NoZone,         \* zone of an event whose metadata names none
  Lookback,       \* get_dead_zones: lookback_minutes
  Hour,           \* get_dead_zones: how recently the store was active
  Day,            \* from one midnight to the next
  FirstTime, LastTime,             \* what the clock may show
  InfoDepth, WarnDepth, CriticalDepth,     \* 3, _QUEUE_WARN, _QUEUE_CRITICAL
  WarnDrop, CriticalDrop,          \* _CONVERSION_DROP_WARN, _CRITICAL, in percent
  MinVisitors,    \* _CONVERSION_MIN_VISITORS
  Confidence,     \* _DATA_CONFIDENCE_THRESHOLD
  MaxBatch,       \* IngestRequest.events: max_length
  MaxCommits      \* bound: batches committed while one answer is computed

\* EventType
Types ==
  {"ENTRY", "EXIT", "REENTRY", "ZONE_ENTER", "ZONE_EXIT", "ZONE_DWELL",
   "BILLING_QUEUE_JOIN", "BILLING_QUEUE_ABANDON", "PURCHASE"}

ASSUME RowsAssumption ==
  \A e \in Rows : e.type \in Types /\ e.staff \in BOOLEAN /\ e.at \in Int
ASSUME TimesAssumption ==
  {Lookback, Hour, Day, FirstTime, LastTime} \subseteq Nat /\ Lookback <= Hour /\ Day > 0
  /\ FirstTime <= LastTime
ASSUME DepthsAssumption ==
  {InfoDepth, WarnDepth, CriticalDepth} \subseteq Nat /\ 0 < InfoDepth
  /\ InfoDepth <= WarnDepth /\ WarnDepth <= CriticalDepth
ASSUME DropsAssumption == {WarnDrop, CriticalDrop} \subseteq Nat /\ WarnDrop <= CriticalDrop
ASSUME VisitorsAssumption == {MinVisitors, Confidence, MaxBatch, MaxCommits} \subseteq Nat \ {0}

VARIABLES
  table,   \* the committed rows
  clock,   \* the time
  ask,     \* the endpoint that is asked
  now,     \* when get_conversion_rates and get_dead_zones looked at the clock
  got,     \* the results so far, by the name of the SELECT
  seen     \* history: what the table was since the answer began

vars == <<table, clock, ask, now, got, seen>>

-----------------------------------------------------------------------------
(* The SELECTs, over table T *)

Customers(T) == {e \in T : ~e.staff}
Of(T, type) == {e \in Customers(T) : e.type = type}
Who(S) == {e.visitor : e \in S}
Since(T, from) == {e \in T : e.at >= from}
Before(T, to) == {e \in T : e.at < to}

\* (mutation) The visitors who were in the store and not among those that left the queue.
ConvertedWithoutJoin(T) == Who(Customers(T)) \ Who(Of(T, "BILLING_QUEUE_ABANDON"))

\* Who joined the queue and is not among those that left it.
Converted(T) == Who(Of(T, "BILLING_QUEUE_JOIN")) \ Who(Of(T, "BILLING_QUEUE_ABANDON"))

\* get_store_unique_visitors; also the first stage of the funnel.
Visitors(T) == Who(Of(T, "ENTRY"))

Zoned(T) == {e \in Of(T, "ZONE_ENTER") : e.zone # NoZone}
ZonesOf(S) == {e.zone : e \in S}

\* get_zone_visit_counts
Visits(T) == [z \in ZonesOf(Zoned(T)) |-> Cardinality({e \in Zoned(T) : e.zone = z})]

\* today_start, seven_days_ago
Today(t) == t - (t % Day)
Past(T, t) == Since(Before(T, Today(t)), Today(t) - 7 * Day)

\* What the SELECT named q returns, given the times t at which the repository
\* looked at the clock.
Result(q, T, t) ==
  CASE q = "visitors" -> Cardinality(Visitors(T))
    [] q = "converted" -> Cardinality(Converted(T))
    [] q \in {"joins", "joined"} -> Cardinality(Of(T, "BILLING_QUEUE_JOIN"))
    [] q \in {"leaves", "abandoned"} -> Cardinality(Of(T, "BILLING_QUEUE_ABANDON"))
    [] q = "zoned" -> Cardinality(Who(Of(T, "ZONE_ENTER")))
    [] q = "queued" -> Cardinality(Who(Of(T, "BILLING_QUEUE_JOIN")))
    [] q = "visits" -> Visits(T)
    [] q = "customers" -> Cardinality(Who(Customers(T)))
    [] q = "today_v" -> Cardinality(Visitors(Since(T, Today(t.rates))))
    [] q = "today_c" -> Cardinality(Converted(Since(T, Today(t.rates))))
    [] q = "hist_v" -> Cardinality(Visitors(Past(T, t.rates)))
    [] q = "hist_c" -> Cardinality(Converted(Past(T, t.rates)))
    [] q = "active" -> Cardinality(Customers(Since(T, t.zones - Hour)))
    [] q = "recent" -> ZonesOf(Zoned(Since(T, t.zones - Hour)))
    [] q = "still" -> ZonesOf(Zoned(Since(T, t.zones - Lookback)))

-----------------------------------------------------------------------------
(* The order in which an answer executes its SELECTs *)

\* (mutation) get_store_queue_depth counts the leaves first.
MetricsSelectsLeavesFirst ==
  <<"visitors", "converted", "leaves", "joins", "joined", "abandoned">>

\* (mutation) The abandonment is counted before the depth of the queue.
MetricsSelectsAbandonmentFirst ==
  <<"visitors", "converted", "joined", "abandoned", "joins", "leaves">>

\* get_store_metrics
MetricsSelects == <<"visitors", "converted", "joins", "leaves", "joined", "abandoned">>

\* get_store_funnel
FunnelSelects == <<"visitors", "zoned", "queued", "converted">>

\* get_store_heatmap
HeatmapSelects == <<"visits", "customers">>

\* (mutation) get_conversion_rates counts the converted first.
AnomaliesSelectsConvertedFirst ==
  <<"joins", "leaves", "today_c", "today_v", "hist_v", "hist_c", "active", "recent", "still">>

\* (mutation) get_dead_zones reads the zones that are still active first.
AnomaliesSelectsStillFirst ==
  <<"joins", "leaves", "today_v", "today_c", "hist_v", "hist_c", "active", "still", "recent">>

\* get_store_anomalies: the depth, the conversion rates, the dead zones.
AnomaliesSelects ==
  <<"joins", "leaves", "today_v", "today_c", "hist_v", "hist_c", "active", "recent", "still">>

Selects == [metrics |-> MetricsSelects, funnel |-> FunnelSelects,
            heatmap |-> HeatmapSelects, anomalies |-> AnomaliesSelects]

-----------------------------------------------------------------------------
(* What is computed from the results *)

\* part of whole in hundredths of a percent, rounded: round(part / whole * 100, 2).
Rate(part, whole) ==
  IF whole > 0 THEN (20000 * part + whole) \div (2 * whole) ELSE 0

\* max(0, joins - leaves)
Depth(joins, leaves) == IF joins > leaves THEN joins - leaves ELSE 0

\* Severities, in their order; 0 is no anomaly at all.
Info == 1
Warn == 2
Critical == 3

\* BILLING_QUEUE_SPIKE
Spike(depth) ==
  CASE depth >= CriticalDepth -> Critical
    [] depth < CriticalDepth /\ depth >= WarnDepth -> Warn
    [] depth < WarnDepth /\ depth >= InfoDepth -> Info
    [] OTHER -> 0

\* CONVERSION_DROP, of visitors and converted today and in the seven days before.
Drop(today_v, today_c, hist_v, hist_c) ==
  LET today == Rate(today_c, today_v)
      hist == Rate(hist_c, hist_v)
      drops(percent) == 100 * (hist - today) >= percent * hist
  IN CASE ~(today_v >= MinVisitors /\ hist_v >= MinVisitors /\ hist > 0) -> 0
       [] OTHER -> IF drops(CriticalDrop) THEN Critical ELSE IF drops(WarnDrop) THEN Warn ELSE 0

\* DEAD_ZONE
DeadZones == IF {"recent", "still"} \subseteq DOMAIN got THEN got.recent \ got.still ELSE {}

\* The stages of the funnel, and how many percent of one did not reach the next.
Stages == <<got.visitors, got.zoned, got.queued, got.converted>>
DropOff(i) == IF i = 1 THEN 0 ELSE Rate(Stages[i - 1] - Stages[i], Stages[i - 1])

\* The zone that ORDER BY count DESC puts first.
MostVisited ==
  CHOOSE z \in DOMAIN got.visits : \A y \in DOMAIN got.visits : got.visits[y] <= got.visits[z]
Score(z) == Rate(got.visits[z], got.visits[MostVisited])
DataConfidence == got.customers >= Confidence

-----------------------------------------------------------------------------
(* Actions *)

Asked == ask \in DOMAIN Selects
Position == Cardinality(DOMAIN got) + 1

\* get_dead_zones has nothing to look for: no customer, or no zone, in the last hour.
NothingDead ==
  \/ "active" \in DOMAIN got /\ got.active = 0
  \/ "recent" \in DOMAIN got /\ got.recent = {}

Answered == Asked /\ (Position > Len(Selects[ask]) \/ NothingDead)

Init ==
  /\ table = {}
  /\ clock = FirstTime
  /\ ask = "none"
  /\ now = [rates |-> FirstTime, zones |-> FirstTime]
  /\ got = <<>>
  /\ seen = {}

\* A batch is committed.
Ingest(batch) ==
  /\ IsFiniteSet(batch) /\ Cardinality(batch) \in 1 .. MaxBatch
  /\ Cardinality(seen) <= MaxCommits
  /\ table' = table \union batch
  /\ seen' = IF ask # "none" THEN seen \union {table'} ELSE seen
  /\ UNCHANGED <<clock, ask, now, got>>

Tick ==
  /\ clock < LastTime
  /\ clock' = clock + 1
  /\ UNCHANGED <<table, ask, now, got, seen>>

\* A client asks endpoint a.
Ask(a) ==
  /\ ask = "none"
  /\ ask' = a
  /\ seen' = {table}
  /\ UNCHANGED <<table, clock, now, got>>

\* The SELECTs of the two methods that look at the clock.
Parts == [rates |-> {"today_v", "today_c", "hist_v", "hist_c"},
          zones |-> {"active", "recent", "still"}]
Begins(q, part) == q \in part /\ part \intersect DOMAIN got = {}

\* The next SELECT.  get_conversion_rates and get_dead_zones look at the clock
\* once, before their first one.
Select ==
  /\ Asked
  /\ LET q == Selects[ask][Position]
     IN /\ now' = [m \in DOMAIN now |-> IF Begins(q, Parts[m]) THEN clock ELSE now[m]]
        /\ got' = [n \in DOMAIN got \union {q} |->
                     IF n = q THEN Result(q, table, now') ELSE got[n]]
  /\ UNCHANGED <<table, clock, ask, seen>>

\* What comes after an answer is of no concern to it.
Next ==
  /\ ~Answered
  /\ \/ \E batch \in SUBSET (Rows \ table) : Ingest(batch)
     \/ Tick
     \/ \E a \in DOMAIN Selects : Ask(a)
     \/ Select

Spec == Init /\ [][Next]_vars

-----------------------------------------------------------------------------
(* Properties *)

\* The tables an answer sees grow.
Chain == \A S, T \in seen : S \subseteq T \/ T \subseteq S

TypeOK ==
  /\ table \subseteq Rows
  /\ clock \in FirstTime .. LastTime
  /\ \A m \in DOMAIN now : now[m] \in FirstTime .. clock
  /\ seen \subseteq SUBSET table
  /\ ask # "none" <=> seen # {}
  /\ ask = "none" => got = <<>>
  /\ Asked => DOMAIN got = {Selects[ask][i] : i \in 1 .. Position - 1}

\* What metrics counts twice does not shrink from the first time to the second.
CountsGrow ==
  Answered /\ ask = "metrics" => got.joins <= got.joined /\ got.leaves <= got.abandoned

\* All of it, in hundredths of a percent.
Whole == 10000

\* A heatmap's scores are within 0 to 100, as the response model demands, and one
\* that is marked as of low confidence is made from few visitors' visits.
HeatmapIsSound ==
  Answered /\ ask = "heatmap" =>
    /\ \A z \in DOMAIN got.visits : Score(z) \in 0 .. Whole
    /\ ~DataConfidence =>
         \E T \in seen :
           got.visits = Visits(T) /\ Cardinality(Who(Zoned(T))) < Confidence

\* The type invariant, with what every answer of get_store_metrics and
\* get_store_heatmap satisfies.
MetricsInv ==
  /\ TypeOK
  /\ Chain
  /\ CountsGrow
  /\ HeatmapIsSound

\* The depth of the queue in table T.
DepthIn(T) ==
  Depth(Cardinality(Of(T, "BILLING_QUEUE_JOIN")), Cardinality(Of(T, "BILLING_QUEUE_ABANDON")))

\* The reported depth of the queue was reached, at some moment while the answer
\* was made, although joins and leaves are counted by two SELECTs; so a
\* BILLING_QUEUE_SPIKE is never more severe than the queue was.
DepthWasReached ==
  Answered /\ ask \in {"metrics", "anomalies"} =>
    \E T \in seen :
      /\ Depth(got.joins, got.leaves) <= DepthIn(T)
      /\ Spike(Depth(got.joins, got.leaves)) <= Spike(DepthIn(T))

\* The CONVERSION_DROP in table T.
DropIn(T) ==
  Drop(Cardinality(Visitors(Since(T, Today(now.rates)))),
       Cardinality(Converted(Since(T, Today(now.rates)))),
       Cardinality(Visitors(Past(T, now.rates))), Cardinality(Converted(Past(T, now.rates))))

\* A CONVERSION_DROP was there, at least as severe, at some moment while the
\* answer was made, unless events of the past days were committed meanwhile.
DropWasReal ==
  /\ Answered /\ ask = "anomalies"
  /\ \A S, T \in seen : Past(S, now.rates) = Past(T, now.rates)
  => \E T \in seen : Drop(got.today_v, got.today_c, got.hist_v, got.hist_c) <= DropIn(T)

\* No customer has entered a DEAD_ZONE for lookback_minutes, in any table the answer
\* could have seen, and somebody had before, within the hour.  That nobody is there,
\* or that it sends no events, is not said: whoever stays sends ZONE_DWELL only.
DeadZonesWereNotEntered ==
  Answered /\ ask = "anomalies" =>
    \A z \in DeadZones :
      /\ \A T \in seen : z \notin ZonesOf(Zoned(Since(T, now.zones - Lookback)))
      /\ \E T \in seen : z \in ZonesOf(Zoned(Since(T, now.zones - Hour)))

\* The visitors who joined the queue while the answer was made.
JoinedMeanwhile ==
  {v \in UNION {Who(Of(T, "BILLING_QUEUE_JOIN")) : T \in seen} :
     \E T \in seen : v \notin Who(Of(T, "BILLING_QUEUE_JOIN"))}

\* The funnel has more purchases than visitors of the queue by no more than the
\* visitors who joined the queue while the answer was made.
PurchasesWereQueued ==
  Answered /\ ask = "funnel" => got.converted <= got.queued + Cardinality(JoinedMeanwhile)

\* What schemas/metrics.py says of a stage of the funnel: its drop-off is the
\* percentage of the previous stage that did not reach it, and not negative.  The
\* response is refused (500) otherwise.
FunnelIsAnswered ==
  Answered /\ ask = "funnel" => \A i \in DOMAIN Stages : DropOff(i) >= 0
=============================================================================
