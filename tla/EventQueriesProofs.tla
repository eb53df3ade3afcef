------------------------- MODULE EventQueriesProofs -------------------------
(***************************************************************************)
(* Proofs about the answers that are read from the events table, those of  *)
(* StoreMetrics and those of EventQueries: for every set of events, every  *)
(* size and number of batches, and all thresholds.                         *)
(*                                                                         *)
(* What every proof rests on: each result was read from one of the tables  *)
(* that the answer has seen, and a later SELECT read a larger one.         *)
(***************************************************************************)
EXTENDS EventQueries, FiniteSetTheorems, TLAPS

\* The SELECTs of endpoint a, in their order.
Endpoints == {"metrics", "funnel", "heatmap", "anomalies", "list", "stats", "health"}
Script(a) == IF a \in DOMAIN Selects THEN Selects[a] ELSE Queries[a]

\* The endpoints are those of the two modules.
LEMMA EndpointsAre ==
  /\ DOMAIN Selects = {"metrics", "funnel", "heatmap", "anomalies"}
  /\ DOMAIN Queries = {"list", "stats", "health"}
  /\ Endpoints = DOMAIN Selects \union DOMAIN Queries
BY DEF Endpoints, Selects, Queries

\* What each endpoint selects.
LEMMA ScriptsAre ==
  /\ Script("metrics") = <<"visitors", "converted", "joins", "leaves", "joined", "abandoned">>
  /\ Script("funnel") = <<"visitors", "zoned", "queued", "converted">>
  /\ Script("heatmap") = <<"visits", "customers">>
  /\ Script("anomalies") = <<"joins", "leaves", "today_v", "today_c", "hist_v", "hist_c",
                             "active", "recent", "still">>
  /\ Script("list") = <<"page", "total", "next", "next_total">>
  /\ Script("stats") = <<"rows">>
  /\ Script("health") = <<"last", "clock">>
BY DEF Script, Selects, Queries, MetricsSelects, FunnelSelects, HeatmapSelects,
       AnomaliesSelects, ListSelects, StatsSelects, HealthSelects

\* No endpoint executes a SELECT twice.
LEMMA NamesDiffer ==
  ASSUME NEW a \in Endpoints
  PROVE  /\ Len(Script(a)) \in Nat \ {0}
         /\ \A i, j \in 1 .. Len(Script(a)) : Script(a)[i] = Script(a)[j] => i = j
<1> DEFINE s == Script(a)
<1>1. CASE a = "metrics"
  <2>1. /\ Len(s) = 6 /\ s[1] = "visitors" /\ s[2] = "converted" /\ s[3] = "joins"
        /\ s[4] = "leaves" /\ s[5] = "joined" /\ s[6] = "abandoned"
    BY <1>1, ScriptsAre
  <2>2. \A i \in 1 .. 6 : i \in {1, 2, 3, 4, 5, 6}
    OBVIOUS
  <2> HIDE DEF s
  <2>3. QED
    BY <2>1, <2>2 DEF s
<1>2. CASE a = "funnel"
  <2>1. /\ Len(s) = 4 /\ s[1] = "visitors" /\ s[2] = "zoned" /\ s[3] = "queued"
        /\ s[4] = "converted"
    BY <1>2, ScriptsAre
  <2>2. \A i \in 1 .. 4 : i \in {1, 2, 3, 4}
    OBVIOUS
  <2> HIDE DEF s
  <2>3. QED
    BY <2>1, <2>2 DEF s
<1>3. CASE a = "heatmap"
  <2>1. Len(s) = 2 /\ s[1] = "visits" /\ s[2] = "customers"
    BY <1>3, ScriptsAre
  <2> HIDE DEF s
  <2>2. QED
    BY <2>1 DEF s
<1>4. CASE a = "anomalies"
  <2>1. /\ Len(s) = 9 /\ s[1] = "joins" /\ s[2] = "leaves" /\ s[3] = "today_v"
        /\ s[4] = "today_c" /\ s[5] = "hist_v" /\ s[6] = "hist_c" /\ s[7] = "active"
        /\ s[8] = "recent" /\ s[9] = "still"
    BY <1>4, ScriptsAre
  <2>2. \A i \in 1 .. 9 : i \in {1, 2, 3, 4, 5, 6, 7, 8, 9}
    OBVIOUS
  <2> HIDE DEF s
  <2>3. QED
    BY <2>1, <2>2 DEF s
<1>5. CASE a = "list"
  <2>1. /\ Len(s) = 4 /\ s[1] = "page" /\ s[2] = "total" /\ s[3] = "next"
        /\ s[4] = "next_total"
    BY <1>5, ScriptsAre
  <2>2. \A i \in 1 .. 4 : i \in {1, 2, 3, 4}
    OBVIOUS
  <2> HIDE DEF s
  <2>3. QED
    BY <2>1, <2>2 DEF s
<1>6. CASE a = "stats"
  <2>1. Len(s) = 1 /\ s[1] = "rows"
    BY <1>6, ScriptsAre
  <2> HIDE DEF s
  <2>2. QED
    BY <2>1 DEF s
<1>7. CASE a = "health"
  <2>1. Len(s) = 2 /\ s[1] = "last" /\ s[2] = "clock"
    BY <1>7, ScriptsAre
  <2> HIDE DEF s
  <2>2. QED
    BY <2>1 DEF s
<1>8. QED
  BY <1>1, <1>2, <1>3, <1>4, <1>5, <1>6, <1>7 DEF Endpoints

\* The names that Result knows.
ResultNames ==
  {"visitors", "converted", "joins", "leaves", "joined", "abandoned", "zoned", "queued",
   "visits", "customers", "today_v", "today_c", "hist_v", "hist_c", "active", "recent", "still"}

\* Those are the ones that the endpoints of StoreMetrics select.
LEMMA SelectsAreResults ==
  ASSUME NEW a \in DOMAIN Selects, NEW i \in 1 .. Len(Script(a))
  PROVE  Script(a)[i] \in ResultNames
<1> DEFINE s == Script(a)
<1>1. CASE a = "metrics"
  <2>1. /\ Len(s) = 6 /\ s[1] = "visitors" /\ s[2] = "converted" /\ s[3] = "joins"
        /\ s[4] = "leaves" /\ s[5] = "joined" /\ s[6] = "abandoned"
    BY <1>1, ScriptsAre
  <2> HIDE DEF s
  <2>2. i \in 1 .. 6 => s[i] \in ResultNames
    BY <2>1 DEF ResultNames
  <2>3. QED
    BY <2>1, <2>2 DEF s
<1>2. CASE a = "funnel"
  BY <1>2, ScriptsAre DEF ResultNames
<1>3. CASE a = "heatmap"
  BY <1>3, ScriptsAre DEF ResultNames
<1>4. CASE a = "anomalies"
  <2>1. /\ Len(s) = 9 /\ s[1] = "joins" /\ s[2] = "leaves" /\ s[3] = "today_v"
        /\ s[4] = "today_c" /\ s[5] = "hist_v" /\ s[6] = "hist_c" /\ s[7] = "active"
        /\ s[8] = "recent" /\ s[9] = "still"
    BY <1>4, ScriptsAre
  <2> HIDE DEF s
  <2>2. i \in 1 .. 9 => s[i] \in ResultNames
    BY <2>1 DEF ResultNames
  <2>3. QED
    BY <2>1, <2>2 DEF s
<1>5. QED
  BY <1>1, <1>2, <1>3, <1>4, EndpointsAre

\* A result depends on the clock of its own method only.
LEMMA ResultTimes ==
  ASSUME NEW q \in ResultNames, NEW T, NEW t, NEW u,
         q \in Parts.rates => t.rates = u.rates,
         q \in Parts.zones => t.zones = u.zones
  PROVE  Result(q, T, t) = Result(q, T, u)
<1>1. CASE q \in Parts.rates
  BY <1>1 DEF Parts, Result
<1>2. CASE q \in Parts.zones
  BY <1>2 DEF Parts, Result
<1>3. CASE q \notin Parts.rates \union Parts.zones
  BY <1>3 DEF Parts, Result, ResultNames
<1>4. QED
  BY <1>1, <1>2, <1>3

-----------------------------------------------------------------------------
(* The invariant *)

\* The type invariant; the answer has executed the first SELECTs of its endpoint;
\* the tables it has seen are finite, each in the one that is there now.
Progress ==
  /\ table \subseteq Rows /\ IsFiniteSet(table)
  /\ clock \in FirstTime .. LastTime
  /\ ask \in {"none"} \union Endpoints
  /\ DOMAIN now = {"rates", "zones"} /\ now = [m \in DOMAIN now |-> now[m]]
  /\ \A m \in DOMAIN now : now[m] \in FirstTime .. clock
  /\ seen \subseteq SUBSET table
  /\ IF ask = "none" THEN seen = {} /\ got = <<>> ELSE table \in seen
  /\ seen # {} => \E T \in seen : \A S \in seen : T \subseteq S
  /\ Chain
  /\ IsFiniteSet(DOMAIN got) /\ Position \in Nat \ {0}
  /\ ask # "none" =>
       /\ Position <= Len(Script(ask)) + 1
       /\ DOMAIN got = {Script(ask)[i] : i \in 1 .. Position - 1}

\* The result of the SELECT named q was read from table T.
ReadFrom(q, T) ==
  IF Asked
    THEN got[q] = Result(q, T, now)
    ELSE /\ q = "page" => got[q] \in Pages(0, Matching(T))
         /\ q = "next" => got[q] \in Pages(PageLimit, Matching(T))
         /\ q \in {"total", "next_total"} => got[q] = Cardinality(Matching(T))
         /\ q = "last" => got[q] = IF T = {} THEN {} ELSE {Max({e.at : e \in T})}
         /\ q = "clock" => got[q] \in FirstTime .. LastTime

\* Each result was read from a table that the answer has seen, a later one from a
\* larger table, and the last one from the table that is still there.
Sources(src) ==
  /\ src \in [DOMAIN got -> seen]
  /\ \A q \in DOMAIN got : ReadFrom(q, src[q])
  /\ \A i, j \in 1 .. Position - 1 : i <= j => src[Script(ask)[i]] \subseteq src[Script(ask)[j]]
  /\ Position > Len(Script(ask)) => src[Script(ask)[Position - 1]] = table

Sourced == ask # "none" => \E src : Sources(src)

\* Nothing is asked at the start.
LEMMA ProgressInit == Init => Progress /\ Sourced
<1> SUFFICES ASSUME Init PROVE Progress /\ Sourced
  OBVIOUS
<1>1. DOMAIN got = {}
  BY DEF Init
<1>2. IsFiniteSet(DOMAIN got) /\ Position = 1
  BY <1>1, FS_EmptySet DEF Position
<1>3. now = [rates |-> FirstTime, zones |-> FirstTime] /\ FirstTime \in FirstTime .. clock
  BY TimesAssumption DEF Init
<1>4. QED
  BY <1>2, <1>3, TimesAssumption, FS_EmptySet DEF Init, Progress, Sourced, Chain

\* A step that asks for nothing leaves the results as they are, and the sources
\* of an answer that is not complete.
LEMMA SourcesKept ==
  ASSUME Progress, Sourced, UNCHANGED <<ask, now, got>>, seen \subseteq seen',
         ask # "none" => Position <= Len(Script(ask)) \/ table' = table
  PROVE  Sourced'
<1> SUFFICES ASSUME ask # "none" PROVE \E src : Sources(src)'
  BY DEF Sourced
<1>1. PICK src : Sources(src)
  BY DEF Sourced
<1>2. src \in [DOMAIN got -> seen']
  BY <1>1 DEF Sources
<1>3. Position' = Position
  BY DEF Position
<1>4. \A q \in DOMAIN got : ReadFrom(q, src[q])'
  BY <1>1 DEF Sources, ReadFrom, Asked
<1>5. Position > Len(Script(ask)) => src[Script(ask)[Position - 1]] = table'
  <2>1. Len(Script(ask)) \in Nat
    BY NamesDiffer DEF Progress
  <2>2. QED
    BY <1>1, <2>1 DEF Sources, Progress
<1>6. QED
  BY <1>1, <1>2, <1>3, <1>4, <1>5 DEF Sources

\* While an endpoint is asked that is not answered yet, SELECTs are left to do.
LEMMA NotAnswered ==
  ASSUME Progress, ask # "none", ~Answered \/ ~Asked, ~QueryAnswered \/ ~QueryAsked
  PROVE  Position <= Len(Script(ask))
<1>1. ask \in Endpoints /\ Len(Script(ask)) \in Nat
  BY NamesDiffer DEF Progress
<1>2. CASE Asked
  <2>1. Script(ask) = Selects[ask]
    BY <1>2 DEF Asked, Script
  <2>2. QED
    BY <1>1, <1>2, <2>1 DEF Answered, Progress
<1>3. CASE ~Asked
  <2>1. Script(ask) = Queries[ask] /\ QueryAsked
    BY <1>1, <1>3, EndpointsAre DEF Asked, Script, QueryAsked
  <2>2. QED
    BY <1>1, <2>1 DEF QueryAnswered, Progress
<1>4. QED
  BY <1>2, <1>3

\* A batch is committed.
LEMMA IngestProgress ==
  ASSUME Progress, Sourced, ~Answered \/ ~Asked, ~QueryAnswered \/ ~QueryAsked,
         NEW batch \in SUBSET (Rows \ table), Ingest(batch)
  PROVE  Progress' /\ Sourced'
<1>1. /\ table' = table \union batch
      /\ seen' = IF ask # "none" THEN seen \union {table'} ELSE seen
      /\ UNCHANGED <<clock, ask, now, got>>
  BY DEF Ingest
<1>2. IsFiniteSet(table')
  <2>1. IsFiniteSet(table) /\ IsFiniteSet(batch)
    BY DEF Ingest, Progress
  <2>2. IsFiniteSet(table \union batch)
    BY <2>1, FS_Union
  <2>3. QED
    BY <1>1, <2>2
<1>3. table' \subseteq Rows /\ seen' \subseteq SUBSET table'
  BY <1>1 DEF Progress
<1>4. Chain'
  BY <1>1, <1>3 DEF Progress, Chain
<1>5. seen' # {} => \E T \in seen' : \A S \in seen' : T \subseteq S
  <2>1. CASE seen = {}
    BY <1>1, <2>1 DEF Progress
  <2>2. CASE seen # {}
    <3>1. PICK T \in seen : \A S \in seen : T \subseteq S
      BY <2>2 DEF Progress
    <3>2. T \subseteq table'
      BY <1>1 DEF Progress
    <3>3. QED
      BY <1>1, <3>1, <3>2
  <2>3. QED
    BY <2>1, <2>2
<1>6. Position' = Position
  BY <1>1 DEF Position
<1>7. IF ask' = "none" THEN seen' = {} /\ got' = <<>> ELSE table' \in seen'
  BY <1>1 DEF Progress
<1>8. Progress'
  <2>1. /\ Position' \in Nat \ {0} /\ IsFiniteSet(DOMAIN got')
        /\ ask' # "none" =>
             /\ Position' <= Len(Script(ask')) + 1
             /\ DOMAIN got' = {Script(ask')[i] : i \in 1 .. Position' - 1}
    BY <1>1, <1>6 DEF Progress
  <2>2. /\ clock' \in FirstTime .. LastTime /\ ask' \in {"none"} \union Endpoints
        /\ DOMAIN now' = {"rates", "zones"} /\ now' = [m \in DOMAIN now' |-> now'[m]]
        /\ \A m \in DOMAIN now' : now'[m] \in FirstTime .. clock'
    BY <1>1 DEF Progress
  <2>3. QED
    BY <1>2, <1>3, <1>4, <1>5, <1>7, <2>1, <2>2 DEF Progress
<1>9. QED
  BY <1>1, <1>8, NotAnswered, SourcesKept

\* The clock ticks.
LEMMA TickProgress ==
  ASSUME Progress, Sourced, Tick
  PROVE  Progress' /\ Sourced'
<1>1. clock' = clock + 1 /\ clock < LastTime /\ UNCHANGED <<table, ask, now, got, seen>>
  BY DEF Tick
<1>2. Position' = Position
  BY <1>1 DEF Position
<1>3. clock' \in FirstTime .. LastTime /\ \A m \in DOMAIN now' : now'[m] \in FirstTime .. clock'
  BY <1>1, TimesAssumption DEF Progress
<1>4. Progress'
  BY <1>1, <1>2, <1>3 DEF Progress, Chain
<1>5. QED
  BY <1>1, <1>4, SourcesKept

\* A client asks.
LEMMA AskProgress ==
  ASSUME Progress, NEW a \in Endpoints, Ask(a)
  PROVE  Progress' /\ Sourced'
<1>1. /\ ask = "none" /\ ask' = a /\ seen' = {table}
      /\ UNCHANGED <<table, clock, now, got>>
  BY DEF Ask
<1>2. got = <<>> /\ DOMAIN got = {} /\ a # "none"
  BY <1>1 DEF Progress, Endpoints
<1>3. Position = 1 /\ Position' = 1
  BY <1>1, <1>2, FS_EmptySet DEF Position
<1>4. Len(Script(a)) \in Nat \ {0}
  BY NamesDiffer
<1>5. Progress'
  BY <1>1, <1>2, <1>3, <1>4 DEF Progress, Chain
<1>6. Sources([q \in {} |-> table])'
  BY <1>1, <1>2, <1>3, <1>4 DEF Sources
<1>7. QED
  BY <1>5, <1>6 DEF Sourced

\* The next of the results is got; the others stay.
LEMMA ResultsGrow ==
  ASSUME Progress, ask # "none", Position <= Len(Script(ask)), NEW q, q = Script(ask)[Position],
         DOMAIN got' = DOMAIN got \union {q}, ask' = ask
  PROVE  /\ q \notin DOMAIN got
         /\ Position' = Position + 1
         /\ IsFiniteSet(DOMAIN got')
         /\ DOMAIN got' = {Script(ask)[i] : i \in 1 .. Position' - 1}
<1>1. Len(Script(ask)) \in Nat /\ Position \in Nat \ {0}
      /\ \A i, j \in 1 .. Len(Script(ask)) : Script(ask)[i] = Script(ask)[j] => i = j
  BY NamesDiffer DEF Progress
<1>2. q \notin DOMAIN got
  BY <1>1 DEF Progress
<1>3. IsFiniteSet(DOMAIN got') /\ Cardinality(DOMAIN got') = Cardinality(DOMAIN got) + 1
  <2>1. IsFiniteSet(DOMAIN got)
    BY DEF Progress
  <2>2. /\ IsFiniteSet(DOMAIN got \union {q})
        /\ Cardinality(DOMAIN got \union {q}) = Cardinality(DOMAIN got) + 1
    BY <1>2, <2>1, FS_AddElement
  <2>3. QED
    BY <2>2
<1>4. Position' = Position + 1
  BY <1>1, <1>3, FS_CardinalityType DEF Position, Progress
<1>5. \A i : i \in 1 .. Position' - 1 <=> i \in 1 .. Position - 1 \/ i = Position
  BY <1>1, <1>4
<1>6. DOMAIN got' = {Script(ask)[i] : i \in 1 .. Position' - 1}
  BY <1>5 DEF Progress
<1>7. QED
  BY <1>2, <1>3, <1>4, <1>6

\* A result that is read from the table as it is now keeps the sources in order.
LEMMA SourcesGrow ==
  ASSUME Progress, Sourced, ask # "none", Position <= Len(Script(ask)),
         NEW q, q = Script(ask)[Position],
         DOMAIN got' = DOMAIN got \union {q}, UNCHANGED <<table, ask, seen>>,
         \A n \in DOMAIN got : \A T \in seen : ReadFrom(n, T) => ReadFrom(n, T)',
         ReadFrom(q, table)'
  PROVE  Sourced'
<1>1. PICK src : Sources(src)
  BY DEF Sourced
<1>2. /\ q \notin DOMAIN got
      /\ Position' = Position + 1
      /\ DOMAIN got = {Script(ask)[i] : i \in 1 .. Position - 1}
      /\ Position \in Nat \ {0} /\ Len(Script(ask)) \in Nat
  BY ResultsGrow, NamesDiffer DEF Progress
<1> PICK new : new = [n \in DOMAIN got' |-> IF n = q THEN table ELSE src[n]]
  OBVIOUS
<1>3. table \in seen /\ seen \subseteq SUBSET table /\ src \in [DOMAIN got -> seen]
  BY <1>1 DEF Progress, Sources
<1>4. new \in [DOMAIN got' -> seen]
  BY <1>3
<1>5. \A i \in 1 .. Position' - 1 :
        new[Script(ask)[i]] = IF i = Position THEN table ELSE src[Script(ask)[i]]
  BY <1>2
<1>6. \A i, j \in 1 .. Position' - 1 : i <= j => new[Script(ask)[i]] \subseteq new[Script(ask)[j]]
  <2>1. ASSUME NEW i \in 1 .. Position' - 1, NEW j \in 1 .. Position' - 1, i <= j
        PROVE  new[Script(ask)[i]] \subseteq new[Script(ask)[j]]
    <3>1. CASE j = Position
      BY <1>2, <1>3, <1>5, <3>1
    <3>2. CASE j # Position
      <4>1. i \in 1 .. Position - 1 /\ j \in 1 .. Position - 1
        BY <1>2, <2>1, <3>2
      <4>2. QED
        BY <1>1, <1>2, <1>5, <2>1, <4>1 DEF Sources
    <3>3. QED
      BY <3>1, <3>2
  <2>2. QED
    BY <2>1
<1>7. \A n \in DOMAIN got' : ReadFrom(n, new[n])'
  <2>1. ASSUME NEW n \in DOMAIN got PROVE ReadFrom(n, new[n])'
    <3>1. new[n] = src[n] /\ src[n] \in seen /\ ReadFrom(n, src[n])
      BY <1>1, <1>2, <1>3 DEF Sources
    <3>2. ReadFrom(n, src[n])'
      BY <3>1
    <3>3. QED
      BY <3>1, <3>2
  <2>2. new[q] = table /\ ReadFrom(q, new[q])'
    OBVIOUS
  <2>3. QED
    BY <2>1, <2>2
<1>8. new[Script(ask)[Position]] = table
  BY <1>2, <1>5
<1>9. Sources(new)'
  <2>1. ask' = ask /\ seen' = seen /\ table' = table /\ Position' - 1 = Position
    BY <1>2
  <2>2. new \in [DOMAIN got' -> seen'] /\ new[Script(ask')[Position' - 1]] = table'
    BY <1>4, <1>8, <2>1
  <2>3. \A i, j \in 1 .. Position' - 1 : i <= j => new[Script(ask')[i]] \subseteq new[Script(ask')[j]]
    BY <1>6, <2>1
  <2>4. QED
    BY <1>7, <2>2, <2>3 DEF Sources
<1>10. QED
  BY <1>9 DEF Sourced

\* The next SELECT of an answer of StoreMetrics.
LEMMA SelectProgress ==
  ASSUME Progress, Sourced, ~Answered, Select
  PROVE  Progress' /\ Sourced'
<1> PICK q : q = Selects[ask][Position]
  OBVIOUS
<1>1. Asked /\ ask \in DOMAIN Selects /\ ask # "none"
  BY EndpointsAre DEF Select, Asked
<1>2. Script(ask) = Selects[ask] /\ Len(Script(ask)) \in Nat /\ ask \in Endpoints
  BY <1>1, EndpointsAre, NamesDiffer DEF Script
<1>3. Position <= Len(Script(ask)) /\ Position \in Nat \ {0}
  BY <1>1, <1>2 DEF Answered, Progress
<1>4. q = Script(ask)[Position] /\ q \in ResultNames
  BY <1>1, <1>2, <1>3, SelectsAreResults
<1>5. /\ UNCHANGED <<table, clock, ask, seen>>
      /\ now' = [m \in DOMAIN now |-> IF Begins(q, Parts[m]) THEN clock ELSE now[m]]
      /\ got' = [n \in DOMAIN got \union {q} |-> IF n = q THEN Result(q, table, now') ELSE got[n]]
  BY DEF Select
<1>6. DOMAIN got' = DOMAIN got \union {q}
  BY <1>5
<1>7. /\ q \notin DOMAIN got
      /\ Position' = Position + 1
      /\ IsFiniteSet(DOMAIN got')
      /\ DOMAIN got' = {Script(ask)[i] : i \in 1 .. Position' - 1}
  BY <1>1, <1>3, <1>4, <1>5, <1>6, ResultsGrow
<1>8. /\ DOMAIN now' = {"rates", "zones"} /\ now' = [m \in DOMAIN now' |-> now'[m]]
      /\ \A m \in DOMAIN now' : now'[m] \in FirstTime .. clock'
  BY <1>5, TimesAssumption DEF Progress
<1>9. Progress'
  <2>1. Position \in Nat \ {0} /\ Position' \in Nat \ {0}
    BY <1>3, <1>7
  <2>2. Chain'
    BY <1>5 DEF Progress, Chain
  <2>3. table' \in seen' /\ ask' = ask /\ ask # "none"
    BY <1>1, <1>5 DEF Progress
  <2>4. QED
    BY <1>1, <1>2, <1>3, <1>5, <1>7, <1>8, <2>1, <2>2, <2>3 DEF Progress
<1>10. ASSUME NEW n \in DOMAIN got, NEW T \in seen, ReadFrom(n, T)
       PROVE  ReadFrom(n, T)'
  <2>1. PICK i \in 1 .. Position - 1 : n = Script(ask)[i]
    BY <1>1 DEF Progress
  <2>2. n \in ResultNames
    BY <1>1, <1>2, <1>3, <2>1, SelectsAreResults
  <2>3. n \in Parts.rates => now'.rates = now.rates
    BY <1>5, <1>8 DEF Begins, Progress
  <2>4. n \in Parts.zones => now'.zones = now.zones
    BY <1>5, <1>8 DEF Begins, Progress
  <2>5. Result(n, T, now') = Result(n, T, now)
    BY <2>2, <2>3, <2>4, ResultTimes
  <2>6. got[n] = Result(n, T, now) /\ got'[n] = got[n] /\ Asked'
    BY <1>1, <1>5, <1>6, <1>7, <1>10 DEF ReadFrom, Asked
  <2>7. QED
    BY <2>5, <2>6 DEF ReadFrom
<1>11. ReadFrom(q, table)'
  BY <1>1, <1>5, <1>6 DEF ReadFrom, Asked
<1>12. QED
  BY <1>1, <1>3, <1>4, <1>5, <1>6, <1>9, <1>10, <1>11, SourcesGrow

\* The next SELECT of an answer of EventQueries.
LEMMA SelectQueryProgress ==
  ASSUME Progress, Sourced, ~QueryAnswered, SelectQuery
  PROVE  Progress' /\ Sourced'
<1> PICK q : q = Queries[ask][Position]
  OBVIOUS
<1>1. ask \in DOMAIN Queries /\ ask # "none" /\ ~Asked
  BY EndpointsAre DEF SelectQuery, QueryAsked, Asked
<1>2. Script(ask) = Queries[ask] /\ Len(Script(ask)) \in Nat /\ ask \in Endpoints
  BY <1>1, EndpointsAre, NamesDiffer DEF Script
<1>3. Position <= Len(Script(ask)) /\ Position \in Nat \ {0}
  BY <1>1, <1>2 DEF QueryAnswered, QueryAsked, Progress
<1>4. q = Script(ask)[Position]
  BY <1>2
<1>5. PICK answer \in Answers(q) :
        got' = [n \in DOMAIN got \union {q} |-> IF n = q THEN answer ELSE got[n]]
  BY DEF SelectQuery
<1>6. UNCHANGED <<table, clock, ask, now, seen>>
  BY DEF SelectQuery
<1>7. DOMAIN got' = DOMAIN got \union {q}
  BY <1>5
<1>8. /\ q \notin DOMAIN got
      /\ Position' = Position + 1
      /\ IsFiniteSet(DOMAIN got')
      /\ DOMAIN got' = {Script(ask)[i] : i \in 1 .. Position' - 1}
  BY <1>1, <1>3, <1>4, <1>6, <1>7, ResultsGrow
<1>9. Progress'
  BY <1>1, <1>2, <1>3, <1>6, <1>8 DEF Progress, Chain
<1>10. ASSUME NEW n \in DOMAIN got, NEW T \in seen, ReadFrom(n, T)
       PROVE  ReadFrom(n, T)'
  BY <1>1, <1>5, <1>6, <1>7, <1>8, <1>10 DEF ReadFrom, Asked
<1>11. ReadFrom(q, table)'
  <2>1. got'[q] = answer /\ table' = table /\ ~Asked'
    BY <1>1, <1>5, <1>6 DEF Asked
  <2>2. q = "page" => answer \in Pages(0, Matching(table))
    BY <1>5 DEF Answers
  <2>3. q = "next" => answer \in Pages(PageLimit, Matching(table))
    BY <1>5 DEF Answers
  <2>4. q \in {"total", "next_total"} => answer = Cardinality(Matching(table))
    BY <1>5 DEF Answers
  <2>5. q = "last" => answer = IF table = {} THEN {} ELSE {Max({e.at : e \in table})}
    BY <1>5 DEF Answers
  <2>6. q = "clock" => answer \in FirstTime .. LastTime
    BY <1>5 DEF Answers, Progress
  <2>7. QED
    BY <2>1, <2>2, <2>3, <2>4, <2>5, <2>6 DEF ReadFrom
<1>12. QED
  BY <1>1, <1>3, <1>4, <1>6, <1>7, <1>9, <1>10, <1>11, SourcesGrow

\* Every result of an answer was read from a table the answer has seen, a later
\* one from a larger table.
THEOREM AnswersHaveSources == QueriesSpec => [](Progress /\ Sourced)
<1>1. ASSUME Progress, Sourced, [QueriesNext]_vars
      PROVE  Progress' /\ Sourced'
  <2>1. CASE UNCHANGED vars
    <3>1. Position' = Position
      BY <2>1 DEF vars, Position
    <3>2. Progress'
      BY <1>1, <2>1, <3>1 DEF vars, Progress, Chain
    <3>3. QED
      BY <1>1, <2>1, <3>2, SourcesKept DEF vars
  <2>2. CASE ~QueryAnswered /\ Next
    <3>1. ASSUME NEW batch \in SUBSET (Rows \ table), Ingest(batch)
          PROVE  Progress' /\ Sourced'
      BY <1>1, <2>2, <3>1, IngestProgress DEF Next
    <3>2. CASE Tick
      BY <1>1, <3>2, TickProgress
    <3>3. ASSUME NEW a \in DOMAIN Selects, Ask(a)
          PROVE  Progress' /\ Sourced'
      BY <1>1, <3>3, EndpointsAre, AskProgress
    <3>4. CASE Select
      BY <1>1, <2>2, <3>4, SelectProgress DEF Next
    <3>5. QED
      BY <2>2, <3>1, <3>2, <3>3, <3>4 DEF Next
  <2>3. ASSUME NEW a \in DOMAIN Queries, Ask(a)
        PROVE  Progress' /\ Sourced'
    BY <1>1, <2>3, EndpointsAre, AskProgress
  <2>4. CASE ~QueryAnswered /\ SelectQuery
    BY <1>1, <2>4, SelectQueryProgress
  <2>5. QED
    BY <1>1, <2>1, <2>2, <2>3, <2>4 DEF QueriesNext
<1>2. Progress /\ Sourced /\ [QueriesNext]_vars => Progress' /\ Sourced'
  BY <1>1
<1>3. QED
  BY <1>2, ProgressInit, PTL DEF QueriesSpec

-----------------------------------------------------------------------------
(* Counting rows *)

\* The visitors of finitely many rows are finitely many.
LEMMA WhoIsFinite ==
  ASSUME NEW S, IsFiniteSet(S)
  PROVE  IsFiniteSet(Who(S))
<1> DEFINE f == [e \in S |-> e.visitor]
<1>1. f \in Surjection(S, Who(S))
  BY DEF Who, Surjection
<1> HIDE DEF f
<1>2. QED
  BY <1>1, FS_Surjection

\* A larger table has more rows.
LEMMA CountsMonotone ==
  ASSUME NEW T, IsFiniteSet(T), NEW S \in SUBSET T
  PROVE  /\ IsFiniteSet(S)
         /\ Cardinality(S) \in Nat /\ Cardinality(T) \in Nat /\ Cardinality(S) <= Cardinality(T)
BY FS_Subset, FS_CardinalityType

\* The rows of a type, the visitors who entered and those who queued.
LEMMA RowsMonotone ==
  ASSUME NEW S, NEW T, S \subseteq T
  PROVE  /\ Customers(S) \subseteq Customers(T)
         /\ \A type : Of(S, type) \subseteq Of(T, type)
         /\ \A type : Who(Of(S, type)) \subseteq Who(Of(T, type))
         /\ Visitors(S) \subseteq Visitors(T)
         /\ Who(Customers(S)) \subseteq Who(Customers(T))
         /\ Zoned(S) \subseteq Zoned(T)
         /\ \A from : Since(S, from) \subseteq Since(T, from)
         /\ \A to : Before(S, to) \subseteq Before(T, to)
BY DEF Customers, Of, Who, Visitors, Zoned, Since, Before

\* All of these are finite in a finite table.
LEMMA RowsAreFinite ==
  ASSUME NEW T, IsFiniteSet(T)
  PROVE  /\ IsFiniteSet(Customers(T)) /\ IsFiniteSet(Zoned(T))
         /\ \A type : IsFiniteSet(Of(T, type)) /\ IsFiniteSet(Who(Of(T, type)))
         /\ IsFiniteSet(Visitors(T)) /\ IsFiniteSet(Converted(T)) /\ IsFiniteSet(Who(Customers(T)))
         /\ \A from : IsFiniteSet(Since(T, from))
         /\ \A to : IsFiniteSet(Before(T, to))
<1>1. Customers(T) \subseteq T /\ Zoned(T) \subseteq T
      /\ (\A type : Of(T, type) \subseteq T)
      /\ (\A from : Since(T, from) \subseteq T) /\ (\A to : Before(T, to) \subseteq T)
  BY DEF Customers, Of, Zoned, Since, Before
<1>2. /\ IsFiniteSet(Customers(T)) /\ IsFiniteSet(Zoned(T))
      /\ \A type : IsFiniteSet(Of(T, type))
      /\ \A from : IsFiniteSet(Since(T, from))
      /\ \A to : IsFiniteSet(Before(T, to))
  BY <1>1, FS_Subset
<1>3. \A type : IsFiniteSet(Who(Of(T, type)))
  BY <1>2, WhoIsFinite
<1>4. IsFiniteSet(Visitors(T)) /\ IsFiniteSet(Who(Customers(T)))
  BY <1>2, <1>3, WhoIsFinite DEF Visitors
<1>5. IsFiniteSet(Converted(T))
  BY <1>3, FS_Subset DEF Converted
<1>6. QED
  BY <1>2, <1>3, <1>4, <1>5

\* Every table that an answer has seen is finite.
LEMMA SeenIsFinite ==
  ASSUME Progress, NEW T \in seen
  PROVE  IsFiniteSet(T) /\ T \subseteq Rows /\ T \subseteq table
BY FS_Subset DEF Progress

-----------------------------------------------------------------------------
(* The answers *)

\* What an answer of StoreMetrics has executed: all of its SELECTs, or those up
\* to the one after which there can be no dead zone.
LEMMA Executed ==
  ASSUME Progress, Answered
  PROVE  /\ ask = "metrics" => Position = 7
         /\ ask = "funnel" => Position = 5
         /\ ask = "heatmap" => Position = 3
         /\ ask = "anomalies" => Position \in 8 .. 10
<1> DEFINE s == Script(ask)
<1>1. Asked /\ ask \in DOMAIN Selects /\ ask # "none" /\ s = Selects[ask]
  BY EndpointsAre DEF Answered, Asked, Script
<1>2. Position \in Nat \ {0} /\ Position <= Len(s) + 1 /\ DOMAIN got = {s[i] : i \in 1 .. Position - 1}
  BY <1>1 DEF Progress
<1>3. /\ Position > Len(s)
      \/ \E i \in 1 .. Position - 1 : s[i] \in {"active", "recent"}
  BY <1>1, <1>2 DEF Answered, NothingDead
<1>4. CASE ask = "metrics"
  <2>1. /\ Len(s) = 6 /\ s[1] = "visitors" /\ s[2] = "converted" /\ s[3] = "joins"
        /\ s[4] = "leaves" /\ s[5] = "joined" /\ s[6] = "abandoned"
    BY <1>4, ScriptsAre
  <2> HIDE DEF s
  <2>2. \A i \in 1 .. 6 : s[i] \notin {"active", "recent"}
    BY <2>1
  <2>3. QED
    BY <1>2, <1>3, <1>4, <2>1, <2>2
<1>5. CASE ask = "funnel"
  <2>1. /\ Len(s) = 4 /\ s[1] = "visitors" /\ s[2] = "zoned" /\ s[3] = "queued"
        /\ s[4] = "converted"
    BY <1>5, ScriptsAre
  <2> HIDE DEF s
  <2>2. \A i \in 1 .. 4 : s[i] \notin {"active", "recent"}
    BY <2>1
  <2>3. QED
    BY <1>2, <1>3, <1>5, <2>1, <2>2
<1>6. CASE ask = "heatmap"
  <2>1. Len(s) = 2 /\ s[1] = "visits" /\ s[2] = "customers"
    BY <1>6, ScriptsAre
  <2> HIDE DEF s
  <2>2. \A i \in 1 .. 2 : s[i] \notin {"active", "recent"}
    BY <2>1
  <2>3. QED
    BY <1>2, <1>3, <1>6, <2>1, <2>2
<1>7. CASE ask = "anomalies"
  <2>1. /\ Len(s) = 9 /\ s[1] = "joins" /\ s[2] = "leaves" /\ s[3] = "today_v"
        /\ s[4] = "today_c" /\ s[5] = "hist_v" /\ s[6] = "hist_c"
    BY <1>7, ScriptsAre
  <2> HIDE DEF s
  <2>2. \A i \in 1 .. 6 : s[i] \notin {"active", "recent"}
    BY <2>1
  <2>3. QED
    BY <1>2, <1>3, <1>7, <2>1, <2>2
<1>8. QED
  BY <1>1, <1>4, <1>5, <1>6, <1>7, EndpointsAre

\* How far an answer of StoreMetrics has come.
LEMMA Reading ==
  ASSUME Progress, Asked
  PROVE  /\ ask # "none" /\ ask \in Endpoints
         /\ Position \in Nat \ {0} /\ Len(Script(ask)) \in Nat
         /\ Position <= Len(Script(ask)) + 1
         /\ DOMAIN got = {Script(ask)[i] : i \in 1 .. Position - 1}
BY EndpointsAre, NamesDiffer DEF Progress, Asked

\* Its last result was read from the table that is there now.
LEMMA LastSource ==
  ASSUME NEW src, Sources(src), Len(Script(ask)) \in Nat, Position = Len(Script(ask)) + 1
  PROVE  src[Script(ask)[Len(Script(ask))]] = table
<1>1. Position > Len(Script(ask)) /\ Position - 1 = Len(Script(ask))
  OBVIOUS
<1>2. QED
  BY <1>1 DEF Sources

\* Where the results of an answer of StoreMetrics come from: the tables src of
\* two SELECTs, of which the one at position i comes first.
LEMMA Pairs ==
  ASSUME Progress, Asked, NEW src, Sources(src),
         NEW i \in 1 .. Position - 1, NEW j \in 1 .. Position - 1, i <= j,
         NEW p, NEW q, p = Script(ask)[i], q = Script(ask)[j]
  PROVE  /\ p \in DOMAIN got /\ q \in DOMAIN got
         /\ got[p] = Result(p, src[p], now) /\ got[q] = Result(q, src[q], now)
         /\ src[p] \in seen /\ src[q] \in seen
         /\ src[p] \subseteq src[q]
<1>1. ask # "none" /\ DOMAIN got = {Script(ask)[k] : k \in 1 .. Position - 1}
  BY EndpointsAre DEF Progress, Asked
<1>2. p \in DOMAIN got /\ q \in DOMAIN got
  BY <1>1
<1>3. ReadFrom(p, src[p]) /\ ReadFrom(q, src[q]) /\ src \in [DOMAIN got -> seen]
  BY <1>2 DEF Sources
<1>4. src[p] \subseteq src[q]
  BY DEF Sources
<1>5. QED
  BY <1>2, <1>3, <1>4 DEF ReadFrom

\* More joins and fewer leaves make a longer queue, and a longer queue is no less
\* severe.
LEMMA DepthMonotone ==
  ASSUME NEW j \in Nat, NEW k \in Nat, NEW l \in Nat, j <= k
  PROVE  /\ Depth(j, l) \in Nat /\ Depth(k, l) \in Nat
         /\ Depth(j, l) <= Depth(k, l)
         /\ Spike(Depth(j, l)) <= Spike(Depth(k, l))
<1>1. Depth(j, l) \in Nat /\ Depth(k, l) \in Nat /\ Depth(j, l) <= Depth(k, l)
  BY DEF Depth
<1>2. \A m, n \in Nat : m <= n => Spike(m) <= Spike(n)
  BY DepthsAssumption DEF Spike, Info, Warn, Critical
<1>3. QED
  BY <1>1, <1>2

\* The depth an answer reports was reached while it was made: the leaves were
\* counted last, in a table with no fewer joins.
LEMMA DepthWasReachedThere ==
  ASSUME Progress, Sourced
  PROVE  DepthWasReached
<1> SUFFICES ASSUME Answered, ask \in {"metrics", "anomalies"}
    PROVE  \E T \in seen :
             /\ Depth(got.joins, got.leaves) <= DepthIn(T)
             /\ Spike(Depth(got.joins, got.leaves)) <= Spike(DepthIn(T))
  BY DEF DepthWasReached
<1>1. Asked /\ ask # "none"
  BY EndpointsAre DEF Answered, Asked
<1>2. PICK src : Sources(src)
  BY <1>1 DEF Sourced
<1>3. \E i \in 1 .. Position - 1 : \E j \in 1 .. Position - 1 :
        i <= j /\ Script(ask)[i] = "joins" /\ Script(ask)[j] = "leaves"
  <2>1. CASE ask = "metrics"
    <3>1. 3 \in 1 .. Position - 1 /\ 4 \in 1 .. Position - 1
      BY <2>1, Executed
    <3>2. Script(ask)[3] = "joins" /\ Script(ask)[4] = "leaves"
      BY <2>1, ScriptsAre
    <3>3. QED
      BY <3>1, <3>2
  <2>2. CASE ask = "anomalies"
    <3>1. 1 \in 1 .. Position - 1 /\ 2 \in 1 .. Position - 1
      BY <2>2, Executed
    <3>2. Script(ask)[1] = "joins" /\ Script(ask)[2] = "leaves"
      BY <2>2, ScriptsAre
    <3>3. QED
      BY <3>1, <3>2
  <2>3. QED
    BY <2>1, <2>2
<1>4. /\ got.joins = Result("joins", src["joins"], now)
      /\ got.leaves = Result("leaves", src["leaves"], now)
      /\ src["leaves"] \in seen /\ src["joins"] \subseteq src["leaves"]
  BY <1>1, <1>2, <1>3, Pairs
<1> DEFINE S == src["joins"]
           T == src["leaves"]
<1> HIDE DEF S, T
<1>5. /\ got.joins = Cardinality(Of(S, "BILLING_QUEUE_JOIN"))
      /\ got.leaves = Cardinality(Of(T, "BILLING_QUEUE_ABANDON"))
  BY <1>4 DEF Result, S, T
<1>6. T \in seen /\ S \subseteq T /\ IsFiniteSet(T)
  BY <1>4, SeenIsFinite DEF S, T
<1>7. IsFiniteSet(Of(T, "BILLING_QUEUE_JOIN")) /\ IsFiniteSet(Of(T, "BILLING_QUEUE_ABANDON"))
  BY <1>6, RowsAreFinite
<1>8. Of(S, "BILLING_QUEUE_JOIN") \subseteq Of(T, "BILLING_QUEUE_JOIN")
  BY <1>6, RowsMonotone
<1>9. /\ Cardinality(Of(S, "BILLING_QUEUE_JOIN")) \in Nat
      /\ Cardinality(Of(T, "BILLING_QUEUE_JOIN")) \in Nat
      /\ Cardinality(Of(S, "BILLING_QUEUE_JOIN")) <= Cardinality(Of(T, "BILLING_QUEUE_JOIN"))
      /\ Cardinality(Of(T, "BILLING_QUEUE_ABANDON")) \in Nat
  BY <1>7, <1>8, CountsMonotone, FS_CardinalityType
<1>10. /\ Depth(got.joins, got.leaves) <= DepthIn(T)
       /\ Spike(Depth(got.joins, got.leaves)) <= Spike(DepthIn(T))
  BY <1>5, <1>9, DepthMonotone DEF DepthIn
<1>11. QED
  BY <1>6, <1>10

\* A reported depth of the queue was reached at some moment of the answer.
THEOREM DepthsWereReached == QueriesSpec => []DepthWasReached
  BY AnswersHaveSources, DepthWasReachedThere, PTL

\* Of nine results the last one was read from the table that is there now.
LEMMA StillIsLast ==
  ASSUME Progress, Asked, NEW src, Sources(src), {"recent", "still"} \subseteq DOMAIN got,
         Len(Script(ask)) = 9, Script(ask)[8] = "recent", Script(ask)[9] = "still"
  PROVE  /\ got.recent = Result("recent", src["recent"], now)
         /\ got.still = Result("still", src["still"], now)
         /\ src["recent"] \in seen /\ src["still"] = table
<1>1. ask \in Endpoints /\ Position \in Nat /\ Position <= 10
      /\ DOMAIN got = {Script(ask)[i] : i \in 1 .. Position - 1}
  BY Reading
<1>2. Position = 10
  <2>1. PICK i \in 1 .. Position - 1 : Script(ask)[i] = "still"
    BY <1>1
  <2>2. i = 9
    BY <1>1, <2>1, NamesDiffer
  <2>3. QED
    BY <1>1, <2>1, <2>2
<1>3. Len(Script(ask)) \in Nat /\ Position = Len(Script(ask)) + 1
  BY <1>2
<1>4. src[Script(ask)[Len(Script(ask))]] = table
  BY <1>3, LastSource
<1>5. 8 \in 1 .. Position - 1 /\ 9 \in 1 .. Position - 1
  BY <1>2
<1>6. QED
  BY <1>4, <1>5, Pairs

\* The zones still active were read last, from the table that is there now.
LEMMA DeadZonesWereNotEnteredThere ==
  ASSUME Progress, Sourced
  PROVE  DeadZonesWereNotEntered
<1> SUFFICES ASSUME Answered, ask = "anomalies", NEW z \in DeadZones
    PROVE  /\ \A T \in seen : z \notin ZonesOf(Zoned(Since(T, now.zones - Lookback)))
           /\ \E T \in seen : z \in ZonesOf(Zoned(Since(T, now.zones - Hour)))
  BY DEF DeadZonesWereNotEntered
<1>1. Asked /\ ask # "none" /\ ask \in Endpoints
  BY EndpointsAre DEF Answered, Asked
<1>2. PICK src : Sources(src)
  BY <1>1 DEF Sourced
<1>3. {"recent", "still"} \subseteq DOMAIN got /\ z \in got.recent /\ z \notin got.still
  BY DEF DeadZones
<1>4. /\ got.recent = Result("recent", src["recent"], now)
      /\ got.still = Result("still", src["still"], now)
      /\ src["recent"] \in seen /\ src["still"] = table
  <2>1. Len(Script(ask)) = 9 /\ Script(ask)[8] = "recent" /\ Script(ask)[9] = "still"
    BY ScriptsAre
  <2>2. QED
    BY <1>1, <1>2, <1>3, <2>1, StillIsLast
<1>8. z \in ZonesOf(Zoned(Since(src["recent"], now.zones - Hour)))
  BY <1>3, <1>4 DEF Result
<1>9. z \notin ZonesOf(Zoned(Since(table, now.zones - Lookback)))
  BY <1>3, <1>4 DEF Result
<1>10. ASSUME NEW T \in seen
       PROVE  z \notin ZonesOf(Zoned(Since(T, now.zones - Lookback)))
  <2>1. T \subseteq table
    BY SeenIsFinite
  <2>2. Zoned(Since(T, now.zones - Lookback)) \subseteq Zoned(Since(table, now.zones - Lookback))
    <3>1. PICK S : S = Since(T, now.zones - Lookback)
      OBVIOUS
    <3>2. PICK U : U = Since(table, now.zones - Lookback)
      OBVIOUS
    <3>3. S \subseteq U
      BY <2>1, <3>1, <3>2 DEF Since
    <3>4. Zoned(S) \subseteq Zoned(U)
      BY <3>3, RowsMonotone
    <3>5. QED
      BY <3>1, <3>2, <3>4
  <2>3. QED
    BY <1>9, <2>2 DEF ZonesOf
<1>11. QED
  BY <1>4, <1>8, <1>10

\* No customer entered a dead zone lately in any table the answer could have seen.
THEOREM NobodyEnteredDeadZones == QueriesSpec => []DeadZonesWereNotEntered
  BY AnswersHaveSources, DeadZonesWereNotEnteredThere, PTL

\* Who converted was in the queue when it was counted, or joined it since.
LEMMA PurchasesWereQueuedThere ==
  ASSUME Progress, Sourced
  PROVE  PurchasesWereQueued
<1> SUFFICES ASSUME Answered, ask = "funnel"
    PROVE  got.converted <= got.queued + Cardinality(JoinedMeanwhile)
  BY DEF PurchasesWereQueued
<1>1. Asked /\ ask # "none"
  BY EndpointsAre DEF Answered, Asked
<1>2. PICK src : Sources(src)
  BY <1>1 DEF Sourced
<1>3. Script(ask)[3] = "queued" /\ Script(ask)[4] = "converted"
      /\ 3 \in 1 .. Position - 1 /\ 4 \in 1 .. Position - 1
  BY ScriptsAre, Executed
<1>4. /\ got.queued = Result("queued", src["queued"], now)
      /\ got.converted = Result("converted", src["converted"], now)
      /\ src["queued"] \in seen /\ src["converted"] \in seen
      /\ src["queued"] \subseteq src["converted"]
  BY <1>1, <1>2, <1>3, Pairs
<1> DEFINE Q(T) == Who(Of(T, "BILLING_QUEUE_JOIN"))
           S == src["queued"]
           T == src["converted"]
<1>5. got.queued = Cardinality(Q(S)) /\ got.converted = Cardinality(Converted(T))
  BY <1>4 DEF Result
<1>6. S \in seen /\ T \in seen /\ IsFiniteSet(S) /\ IsFiniteSet(T) /\ IsFiniteSet(table)
  BY <1>4, SeenIsFinite DEF Progress
<1> HIDE DEF S, T
<1>7. IsFiniteSet(Q(S)) /\ IsFiniteSet(Q(table)) /\ IsFiniteSet(Converted(T))
  BY <1>6, RowsAreFinite
<1>8. JoinedMeanwhile \subseteq Q(table)
  <2>1. \A U \in seen : Q(U) \subseteq Q(table)
    BY SeenIsFinite, RowsMonotone
  <2>2. QED
    BY <2>1 DEF JoinedMeanwhile
<1>9. Converted(T) \subseteq Q(S) \union JoinedMeanwhile
  BY <1>6 DEF Converted, JoinedMeanwhile
<1>10. IsFiniteSet(JoinedMeanwhile)
  BY <1>7, <1>8, FS_Subset
<1>11. /\ IsFiniteSet(Q(S) \union JoinedMeanwhile)
       /\ Cardinality(Q(S) \union JoinedMeanwhile) =
            Cardinality(Q(S)) + Cardinality(JoinedMeanwhile) - Cardinality(Q(S) \intersect JoinedMeanwhile)
  BY <1>7, <1>10, FS_Union
<1>12. Cardinality(Converted(T)) <= Cardinality(Q(S) \union JoinedMeanwhile)
  BY <1>9, <1>11, FS_Subset
<1>13. /\ Cardinality(Q(S)) \in Nat /\ Cardinality(JoinedMeanwhile) \in Nat
       /\ Cardinality(Converted(T)) \in Nat
       /\ Cardinality(Q(S) \intersect JoinedMeanwhile) \in Nat
  BY <1>7, <1>10, FS_CardinalityType, FS_Subset
<1> HIDE DEF Q
<1>14. QED
  BY <1>5, <1>11, <1>12, <1>13

\* The purchases of a funnel exceed its queue by those who joined meanwhile at most.
THEOREM PurchasesWereInQueue == QueriesSpec => []PurchasesWereQueued
  BY AnswersHaveSources, PurchasesWereQueuedThere, PTL

-----------------------------------------------------------------------------
(* Rates *)

\* The quotient of a division.
LEMMA Quotient ==
  ASSUME NEW a \in Int, NEW b \in Nat \ {0}
  PROVE  a \div b \in Int /\ b * (a \div b) <= a /\ a < b * (a \div b) + b
BY Z3

\* A rate is a number of hundredths of a percent; of a part it is at most 100 %,
\* and the larger the whole the smaller it is.
LEMMA RateIsPercentage ==
  ASSUME NEW p \in Nat, NEW w \in Nat
  PROVE  Rate(p, w) \in Nat /\ (p <= w => Rate(p, w) <= 10000)
<1>1. CASE w = 0
  BY <1>1 DEF Rate
<1>2. CASE w > 0
  <2> DEFINE a == 20000 * p + w
             b == 2 * w
             q == a \div b
  <2>1. a \in Nat /\ b \in Nat \ {0} /\ Rate(p, w) = q
    BY <1>2 DEF Rate
  <2>2. q \in Int /\ b * q <= a /\ a < b * q + b
    <3>1. a \in Int
      BY <2>1
    <3> HIDE DEF a, b
    <3>2. QED
      BY <2>1, <3>1, Quotient
  <2>3. q >= 0
    <3> HIDE DEF a, b, q
    <3>1. q <= -1 => b * q <= -b
      BY <2>1, <2>2
    <3>2. QED
      BY <2>1, <2>2, <3>1
  <2>4. p <= w => q <= 10000
    <3>1. q >= 10001 => b * q >= b * 10001
      <4> HIDE DEF a, b, q
      <4>1. QED
        BY <2>1, <2>2
    <3>2. b * 10001 = 20002 * w
      OBVIOUS
    <3>3. p <= w => a <= 20001 * w
      OBVIOUS
    <3> HIDE DEF a, b, q
    <3>4. QED
      BY <1>2, <2>1, <2>2, <3>1, <3>2, <3>3
  <2>5. QED
    BY <2>1, <2>2, <2>3, <2>4
<1>3. QED
  BY <1>1, <1>2

LEMMA RateFalls ==
  ASSUME NEW p \in Nat, NEW w \in Nat \ {0}, NEW x \in Nat, w <= x
  PROVE  Rate(p, x) <= Rate(p, w)
<1> DEFINE c == 20000 * p
           q == (c + w) \div (2 * w)
           r == (c + x) \div (2 * x)
<1>1. c \in Nat /\ x \in Nat \ {0} /\ Rate(p, w) = q /\ Rate(p, x) = r
  BY DEF Rate
<1> HIDE DEF c
<1>2. 2 * x \in Nat \ {0} /\ 2 * w \in Nat \ {0} /\ c + w \in Int /\ c + x \in Int
  BY <1>1
<1>3. q \in Int /\ r \in Int /\ c + w < 2 * w * q + 2 * w /\ 2 * x * r <= c + x
  BY <1>2, Quotient
<1>4. q \in Nat /\ r \in Nat
  BY <1>1, RateIsPercentage
<1> HIDE DEF q, r
<1>5. ASSUME r >= q + 1 PROVE FALSE
  <2>1. x * (2 * r - 1) <= c
    BY <1>1, <1>3, <1>4
  <2>2. c < w * (2 * q + 1)
    BY <1>1, <1>3, <1>4
  <2>3. w * (2 * r - 1) <= x * (2 * r - 1)
    <3>1. 2 * r - 1 \in Nat
      BY <1>4, <1>5
    <3> DEFINE s == 2 * r - 1
    <3> HIDE DEF s
    <3>2. w * s <= x * s
      BY <3>1 DEF s
    <3>3. QED
      BY <3>2 DEF s
  <2>4. w * (2 * q + 1) <= w * (2 * r - 1)
    <3> DEFINE s == 2 * r - 1
               t == 2 * q + 1
    <3>1. s \in Nat /\ t \in Nat /\ t <= s
      BY <1>4, <1>5
    <3> HIDE DEF s, t
    <3>2. w * t <= w * s
      BY <3>1
    <3>3. QED
      BY <3>2 DEF s, t
  <2> DEFINE A == x * (2 * r - 1)
             B == w * (2 * r - 1)
             C == w * (2 * q + 1)
  <2>5. A \in Int /\ B \in Int /\ C \in Int
    BY <1>4
  <2> HIDE DEF A, B, C
  <2>6. A <= c /\ c < C /\ B <= A /\ C <= B
    BY <2>1, <2>2, <2>3, <2>4 DEF A, B, C
  <2>7. QED
    BY <1>1, <2>5, <2>6
<1>6. QED
  BY <1>1, <1>4, <1>5

\* A drop does not get milder with more visitors and as many converted.
LEMMA DropMonotone ==
  ASSUME NEW v \in Nat, NEW x \in Nat, v <= x, NEW c \in Nat, NEW hv \in Nat, NEW hc \in Nat
  PROVE  Drop(v, c, hv, hc) <= Drop(x, c, hv, hc)
<1> DEFINE h == Rate(hc, hv)
           r == Rate(c, v)
           s == Rate(c, x)
<1>0. \A p, w \in Nat : Rate(p, w) \in Nat
  BY RateIsPercentage
<1>1. h \in Nat /\ r \in Nat /\ s \in Nat
  BY <1>0
<1>2. CASE v < MinVisitors \/ hv < MinVisitors \/ ~(h > 0)
  <2>1. Drop(v, c, hv, hc) = 0
    BY <1>2, VisitorsAssumption DEF Drop
  <2>2. Drop(x, c, hv, hc) \in {0, 2, 3}
    BY DEF Drop, Warn, Critical
  <2>3. QED
    BY <2>1, <2>2
<1>3. CASE v >= MinVisitors /\ hv >= MinVisitors /\ h > 0
  <2>1. x >= MinVisitors /\ v \in Nat \ {0}
    BY <1>3, VisitorsAssumption
  <2>2. s <= r
    BY <2>1, RateFalls
  <2> HIDE DEF h, r, s
  <2> DEFINE fell(t, percent) == 100 * (h - t) >= percent * h
             severity(t) == IF fell(t, CriticalDrop) THEN 3 ELSE IF fell(t, WarnDrop) THEN 2 ELSE 0
  <2>3. Drop(v, c, hv, hc) = severity(r) /\ Drop(x, c, hv, hc) = severity(s)
    BY <1>3, <2>1 DEF Drop, Warn, Critical, h, r, s
  <2>4. 100 * (h - r) <= 100 * (h - s)
    BY <1>1, <2>2
  <2>5. fell(r, CriticalDrop) => fell(s, CriticalDrop)
    BY <1>1, <2>4, DropsAssumption
  <2>6. fell(r, WarnDrop) => fell(s, WarnDrop)
    BY <1>1, <2>4, DropsAssumption
  <2> HIDE DEF fell
  <2>7. severity(r) <= severity(s)
    BY <2>5, <2>6
  <2>8. QED
    BY <2>3, <2>7
<1>4. QED
  BY <1>2, <1>3, VisitorsAssumption

\* The converted were counted last of today's visitors, in a table with no fewer
\* of them; the rate of the past days is the same in all tables.
LEMMA DropWasRealThere ==
  ASSUME Progress, Sourced
  PROVE  DropWasReal
<1> DEFINE drop == Drop(got.today_v, got.today_c, got.hist_v, got.hist_c)
           P(T) == Past(T, now.rates)
           D(T) == Since(T, Today(now.rates))
<1> SUFFICES ASSUME Answered, ask = "anomalies", \A S, T \in seen : P(S) = P(T)
    PROVE  \E T \in seen : drop <= DropIn(T)
  BY DEF DropWasReal
<1>1. Asked /\ ask # "none"
  BY EndpointsAre DEF Answered, Asked
<1>2. PICK src : Sources(src)
  BY <1>1 DEF Sourced
<1>3. Script(ask)[3] = "today_v" /\ Script(ask)[4] = "today_c"
      /\ Script(ask)[5] = "hist_v" /\ Script(ask)[6] = "hist_c"
  BY ScriptsAre
<1>4. \A i \in 3 .. 6 : i \in 1 .. Position - 1
  BY Executed
<1>5. 3 \in 3 .. 6 /\ 4 \in 3 .. 6 /\ 5 \in 3 .. 6 /\ 6 \in 3 .. 6
  OBVIOUS
<1>6. /\ got.today_v = Result("today_v", src["today_v"], now)
      /\ got.today_c = Result("today_c", src["today_c"], now)
      /\ src["today_v"] \in seen /\ src["today_c"] \in seen
      /\ src["today_v"] \subseteq src["today_c"]
  BY <1>1, <1>2, <1>3, <1>4, <1>5, Pairs
<1>7. /\ got.hist_v = Result("hist_v", src["hist_v"], now)
      /\ got.hist_c = Result("hist_c", src["hist_c"], now)
      /\ src["hist_v"] \in seen /\ src["hist_c"] \in seen
  BY <1>1, <1>2, <1>3, <1>4, <1>5, Pairs
<1> DEFINE S == src["today_v"]
           T == src["today_c"]
<1>8. got.today_v = Cardinality(Visitors(D(S))) /\ got.today_c = Cardinality(Converted(D(T)))
  BY <1>6 DEF Result
<1>9. got.hist_v = Cardinality(Visitors(P(T))) /\ got.hist_c = Cardinality(Converted(P(T)))
  <2>1. P(src["hist_v"]) = P(T) /\ P(src["hist_c"]) = P(T)
    BY <1>6, <1>7
  <2>2. /\ got.hist_v = Cardinality(Visitors(P(src["hist_v"])))
        /\ got.hist_c = Cardinality(Converted(P(src["hist_c"])))
    BY <1>7 DEF Result
  <2>3. QED
    BY <2>1, <2>2
<1>10. T \in seen /\ S \subseteq T /\ IsFiniteSet(T)
  BY <1>6, SeenIsFinite
<1> HIDE DEF S, T
<1>11. /\ IsFiniteSet(Visitors(D(T))) /\ IsFiniteSet(Converted(D(T)))
       /\ IsFiniteSet(Visitors(P(T))) /\ IsFiniteSet(Converted(P(T)))
  <2>1. IsFiniteSet(D(T))
    BY <1>10, RowsAreFinite
  <2>2. IsFiniteSet(Before(T, Today(now.rates)))
    BY <1>10, RowsAreFinite
  <2>3. IsFiniteSet(P(T))
    BY <2>2, RowsAreFinite DEF Past
  <2> HIDE DEF D, P
  <2>4. QED
    BY <2>1, <2>3, RowsAreFinite
<1>12. Visitors(D(S)) \subseteq Visitors(D(T))
  <2>1. D(S) \subseteq D(T)
    BY <1>10, RowsMonotone
  <2> HIDE DEF D
  <2>2. QED
    BY <2>1, RowsMonotone
<1> HIDE DEF D, P
<1>13. /\ Cardinality(Visitors(D(S))) \in Nat /\ Cardinality(Visitors(D(T))) \in Nat
       /\ Cardinality(Visitors(D(S))) <= Cardinality(Visitors(D(T)))
       /\ Cardinality(Converted(D(T))) \in Nat
       /\ Cardinality(Visitors(P(T))) \in Nat /\ Cardinality(Converted(P(T))) \in Nat
  BY <1>11, <1>12, CountsMonotone, FS_CardinalityType
<1>14. DropIn(T) = Drop(Cardinality(Visitors(D(T))), Cardinality(Converted(D(T))),
                       Cardinality(Visitors(P(T))), Cardinality(Converted(P(T))))
  BY DEF DropIn, D, P
<1>15. drop <= DropIn(T)
  <2>1. drop = Drop(Cardinality(Visitors(D(S))), Cardinality(Converted(D(T))),
                    Cardinality(Visitors(P(T))), Cardinality(Converted(P(T))))
    BY <1>8, <1>9
  <2>2. QED
    BY <1>13, <1>14, <2>1, DropMonotone
<1>16. QED
  BY <1>10, <1>15

\* A CONVERSION_DROP was real at some moment of the answer.
THEOREM DropsWereReal == QueriesSpec => []DropWasReal
  BY AnswersHaveSources, DropWasRealThere, PTL

-----------------------------------------------------------------------------
(* What heatmap, metrics and health answer *)

\* A finite set of numbers has a largest one.
LEMMA MaximumExists ==
  ASSUME NEW S \in SUBSET Int, IsFiniteSet(S), S # {}
  PROVE  Max(S) \in S /\ \A y \in S : Max(S) >= y
<1> DEFINE Above(y) == {x \in S : x > y}
           All == {Above(y) : y \in S}
<1>1. All \subseteq FiniteSubsetsOf(S)
  BY FS_Subset DEF FiniteSubsetsOf
<1>2. PICK A \in All : \A B \in All : ~(<<B, A>> \in StrictSubsetOrdering(S))
  <2>1. All # {}
    OBVIOUS
  <2>2. IsWellFoundedOn(StrictSubsetOrdering(S), FiniteSubsetsOf(S))
    BY FS_StrictSubsetOrderingWellFounded
  <2> HIDE DEF All
  <2>3. QED
    BY <1>1, <2>1, <2>2, WFMin
<1>3. PICK m \in S : A = Above(m)
  BY <1>2
<1>4. ASSUME NEW y \in S, ~(m >= y)
      PROVE  FALSE
  <2>1. y > m /\ y \in Int /\ m \in Int
    BY <1>4
  <2>2. y \in Above(m) /\ y \notin Above(y)
    BY <2>1
  <2>3. ASSUME NEW x \in Above(y)
        PROVE  x \in Above(m)
    BY <2>1
  <2>4. <<Above(y), Above(m)>> \in StrictSubsetOrdering(S)
    BY <2>2, <2>3 DEF StrictSubsetOrdering
  <2>5. QED
    BY <1>2, <1>3, <2>4
<1>5. QED
  BY <1>4 DEF Max

\* A function of a finite set has a largest value.
LEMMA LargestValue ==
  ASSUME NEW Z, IsFiniteSet(Z), Z # {}, NEW f \in [Z -> Nat]
  PROVE  \E z \in Z : \A y \in Z : f[y] <= f[z]
<1> DEFINE V == {f[z] : z \in Z}
<1>1. f \in Surjection(Z, V)
  BY DEF Surjection
<1>2. IsFiniteSet(V) /\ V \in SUBSET Int /\ V # {}
  <2>1. V \in SUBSET Int /\ V # {}
    OBVIOUS
  <2> HIDE DEF V
  <2>2. QED
    BY <1>1, <2>1, FS_Surjection
<1>3. Max(V) \in V /\ \A v \in V : Max(V) >= v
  <2> HIDE DEF V
  <2>1. QED
    BY <1>2, MaximumExists
<1>4. PICK z \in Z : Max(V) = f[z]
  BY <1>3
<1>5. \A y \in Z : f[z] >= f[y]
  BY <1>3, <1>4
<1>6. QED
  BY <1>5

\* A score is a part of the largest of the numbers of visits.
LEMMA ScoreIsPercentage ==
  ASSUME NEW Z, IsFiniteSet(Z), got.visits \in [Z -> Nat], NEW z \in Z
  PROVE  Score(z) \in 0 .. Whole
<1> DEFINE n == got.visits
           m == MostVisited
<1>1. \E x \in Z : \A y \in Z : n[y] <= n[x]
  BY LargestValue
<1>2. m \in Z /\ n[z] <= n[m]
  BY <1>1 DEF MostVisited
<1>3. Score(z) = Rate(n[z], n[m])
  BY DEF Score
<1>4. n[z] \in Nat /\ n[m] \in Nat
  BY <1>2
<1>5. Whole \in Nat /\ \A p, w \in Nat : Rate(p, w) \in Nat /\ (p <= w => Rate(p, w) <= Whole)
  BY RateIsPercentage DEF Whole
<1> HIDE DEF n, m
<1>6. Rate(n[z], n[m]) \in Nat /\ Rate(n[z], n[m]) <= Whole
  BY <1>2, <1>4, <1>5
<1>7. QED
  BY <1>3, <1>5, <1>6

\* Each SELECT of metrics that is repeated reads a table that is no smaller.
LEMMA CountsGrowThere ==
  ASSUME Progress, Sourced
  PROVE  CountsGrow
<1> SUFFICES ASSUME Answered, ask = "metrics"
    PROVE  got.joins <= got.joined /\ got.leaves <= got.abandoned
  BY DEF CountsGrow
<1>1. Asked /\ ask # "none"
  BY EndpointsAre DEF Answered, Asked
<1>2. PICK src : Sources(src)
  BY <1>1 DEF Sourced
<1>3. Script(ask)[3] = "joins" /\ Script(ask)[4] = "leaves"
      /\ Script(ask)[5] = "joined" /\ Script(ask)[6] = "abandoned"
  BY ScriptsAre
<1>4. \A i \in 3 .. 6 : i \in 1 .. Position - 1
  BY Executed
<1>5. 3 \in 3 .. 6 /\ 4 \in 3 .. 6 /\ 5 \in 3 .. 6 /\ 6 \in 3 .. 6
  OBVIOUS
<1>6. /\ got.joins = Result("joins", src["joins"], now)
      /\ got.joined = Result("joined", src["joined"], now)
      /\ src["joined"] \in seen /\ src["joins"] \subseteq src["joined"]
  BY <1>1, <1>2, <1>3, <1>4, <1>5, Pairs
<1>7. /\ got.leaves = Result("leaves", src["leaves"], now)
      /\ got.abandoned = Result("abandoned", src["abandoned"], now)
      /\ src["abandoned"] \in seen /\ src["leaves"] \subseteq src["abandoned"]
  BY <1>1, <1>2, <1>3, <1>4, <1>5, Pairs
<1>8. /\ got.joins = Cardinality(Of(src["joins"], "BILLING_QUEUE_JOIN"))
      /\ got.joined = Cardinality(Of(src["joined"], "BILLING_QUEUE_JOIN"))
  BY <1>6 DEF Result
<1>9. /\ got.leaves = Cardinality(Of(src["leaves"], "BILLING_QUEUE_ABANDON"))
      /\ got.abandoned = Cardinality(Of(src["abandoned"], "BILLING_QUEUE_ABANDON"))
  BY <1>7 DEF Result
<1>10. ASSUME NEW S, NEW T \in seen, S \subseteq T, NEW type
       PROVE  Cardinality(Of(S, type)) <= Cardinality(Of(T, type))
  BY <1>10, SeenIsFinite, RowsAreFinite, RowsMonotone, CountsMonotone
<1>11. QED
  BY <1>6, <1>7, <1>8, <1>9, <1>10

\* The scores are parts of the largest of them; the customers are counted last,
\* in a table that has all the visitors of the zones.
LEMMA HeatmapIsSoundThere ==
  ASSUME Progress, Sourced
  PROVE  HeatmapIsSound
<1> SUFFICES ASSUME Answered, ask = "heatmap"
    PROVE  /\ \A z \in DOMAIN got.visits : Score(z) \in 0 .. Whole
           /\ ~DataConfidence =>
                \E T \in seen :
                  got.visits = Visits(T) /\ Cardinality(Who(Zoned(T))) < Confidence
  BY DEF HeatmapIsSound
<1>1. Asked /\ ask # "none"
  BY EndpointsAre DEF Answered, Asked
<1>2. PICK src : Sources(src)
  BY <1>1 DEF Sourced
<1>3. Script(ask)[1] = "visits" /\ Script(ask)[2] = "customers"
      /\ 1 \in 1 .. Position - 1 /\ 2 \in 1 .. Position - 1
  <2>1. Position = 3
    BY Executed
  <2>2. Script(ask) = <<"visits", "customers">>
    BY ScriptsAre
  <2>3. QED
    BY <2>1, <2>2
<1>4. /\ got.visits = Result("visits", src["visits"], now)
      /\ got.customers = Result("customers", src["customers"], now)
      /\ src["visits"] \in seen /\ src["customers"] \in seen
      /\ src["visits"] \subseteq src["customers"]
  BY <1>1, <1>2, <1>3, Pairs
<1> DEFINE S == src["visits"]
           T == src["customers"]
<1>5. got.visits = Visits(S) /\ got.customers = Cardinality(Who(Customers(T)))
  BY <1>4 DEF Result
<1>6. S \in seen /\ S \subseteq T /\ IsFiniteSet(S) /\ IsFiniteSet(T)
  BY <1>4, SeenIsFinite
<1> HIDE DEF S, T
<1>7. Visits(S) \in [ZonesOf(Zoned(S)) -> Nat] /\ IsFiniteSet(ZonesOf(Zoned(S)))
  <2>1. IsFiniteSet(Zoned(S))
    BY <1>6, RowsAreFinite
  <2>2. \A z : {e \in Zoned(S) : e.zone = z} \subseteq Zoned(S)
    OBVIOUS
  <2>3. \A z : Cardinality({e \in Zoned(S) : e.zone = z}) \in Nat
    BY <2>1, <2>2, CountsMonotone
  <2> DEFINE f == [e \in Zoned(S) |-> e.zone]
  <2>4. f \in Surjection(Zoned(S), ZonesOf(Zoned(S)))
    BY DEF ZonesOf, Surjection
  <2> HIDE DEF f
  <2>5. IsFiniteSet(ZonesOf(Zoned(S)))
    BY <2>1, <2>4, FS_Surjection
  <2>6. QED
    BY <2>3, <2>5 DEF Visits
<1>8. \A z \in DOMAIN got.visits : Score(z) \in 0 .. Whole
  <2>1. PICK Z : Z = ZonesOf(Zoned(S))
    OBVIOUS
  <2>2. DOMAIN got.visits = Z /\ got.visits \in [Z -> Nat] /\ IsFiniteSet(Z)
    BY <1>5, <1>7, <2>1
  <2>3. \A z \in Z : Score(z) \in 0 .. Whole
    BY <2>2, ScoreIsPercentage
  <2>4. QED
    BY <2>2, <2>3
<1>9. ASSUME ~DataConfidence
      PROVE  Cardinality(Who(Zoned(S))) < Confidence
  <2>1. Zoned(S) \subseteq Customers(S)
    BY DEF Zoned, Of
  <2>2. Who(Zoned(S)) \subseteq Who(Customers(S)) /\ Who(Customers(S)) \subseteq Who(Customers(T))
    BY <1>6, <2>1, RowsMonotone DEF Who
  <2>3. IsFiniteSet(Who(Customers(T)))
    BY <1>6, RowsAreFinite
  <2>4. /\ Cardinality(Who(Zoned(S))) \in Nat /\ Cardinality(Who(Customers(T))) \in Nat
        /\ Cardinality(Who(Zoned(S))) <= Cardinality(Who(Customers(T)))
    BY <2>2, <2>3, CountsMonotone
  <2>5. Cardinality(Who(Customers(T))) < Confidence
    BY <1>5, <1>9, <2>4, VisitorsAssumption DEF DataConfidence
  <2>6. QED
    BY <2>4, <2>5, VisitorsAssumption
<1>10. ~DataConfidence =>
         \E U \in seen : got.visits = Visits(U) /\ Cardinality(Who(Zoned(U))) < Confidence
  BY <1>5, <1>6, <1>9
<1>11. QED
  BY <1>8, <1>10

\* The type invariant is the first part of Progress.
LEMMA TypesThere == Progress => TypeOK
<1> SUFFICES ASSUME Progress PROVE TypeOK
  OBVIOUS
<1>1. Asked => DOMAIN got = {Selects[ask][i] : i \in 1 .. Position - 1}
  BY Reading DEF Asked, Script
<1>2. QED
  BY <1>1 DEF Progress, TypeOK

\* The invariant of the answers of StoreMetrics.
LEMMA MetricsInvThere == Progress /\ Sourced => MetricsInv
BY TypesThere, CountsGrowThere, HeatmapIsSoundThere DEF MetricsInv, Progress

\* What an answer of EventQueries has executed.
LEMMA QueryExecuted ==
  ASSUME Progress, QueryAnswered
  PROVE  /\ ask # "none" /\ ~Asked /\ ask \in Endpoints /\ Len(Script(ask)) \in Nat
         /\ Position = Len(Script(ask)) + 1
         /\ DOMAIN got = {Script(ask)[i] : i \in 1 .. Position - 1}
         /\ Script(ask) = Queries[ask]
<1>1. ask # "none" /\ ~Asked /\ ask \in Endpoints /\ Script(ask) = Queries[ask]
  BY EndpointsAre DEF QueryAnswered, QueryAsked, Asked, Script
<1>2. Len(Script(ask)) \in Nat
  BY <1>1, NamesDiffer
<1>3. QED
  BY <1>1, <1>2 DEF Progress, QueryAnswered

\* Where its results come from.
LEMMA QueryPairs ==
  ASSUME Progress, QueryAnswered, NEW src, Sources(src),
         NEW i \in 1 .. Len(Script(ask)), NEW j \in 1 .. Len(Script(ask)), i <= j,
         NEW p, NEW q, p = Script(ask)[i], q = Script(ask)[j]
  PROVE  /\ p \in DOMAIN got /\ q \in DOMAIN got
         /\ ReadFrom(p, src[p]) /\ ReadFrom(q, src[q])
         /\ src[p] \in seen /\ src[q] \in seen /\ src[p] \subseteq src[q]
<1>1. i \in 1 .. Position - 1 /\ j \in 1 .. Position - 1
  BY QueryExecuted
<1>2. p \in DOMAIN got /\ q \in DOMAIN got
  BY <1>1, QueryExecuted
<1>3. QED
  BY <1>1, <1>2 DEF Sources

\* The latest event of a table was read, or there was none.
LEMMA HealthIsTrueThere ==
  ASSUME Progress, Sourced
  PROVE  HealthIsTrue
<1> DEFINE recent(T) == {e \in T : got.clock - e.at <= StaleAge}
<1> SUFFICES ASSUME QueryAnswered, ask = "health"
    PROVE  /\ Stale => \E T \in seen : recent(T) = {} /\ T # {}
           /\ ~Stale => recent(table) # {} \/ {} \in seen
  BY DEF HealthIsTrue
<1>1. ask # "none" /\ ~Asked
  BY QueryExecuted
<1>2. PICK src : Sources(src)
  BY <1>1 DEF Sourced
<1>3. Script(ask)[1] = "last" /\ Script(ask)[2] = "clock"
      /\ 1 \in 1 .. Len(Script(ask)) /\ 2 \in 1 .. Len(Script(ask))
  BY ScriptsAre
<1>4. ReadFrom("last", src["last"]) /\ ReadFrom("clock", src["clock"]) /\ src["last"] \in seen
  BY <1>2, <1>3, QueryPairs
<1> DEFINE T == src["last"]
<1>5. /\ got.last = IF T = {} THEN {} ELSE {Max({e.at : e \in T})}
      /\ got.clock \in Int
  BY <1>1, <1>4, TimesAssumption DEF ReadFrom
<1>6. T \in seen /\ IsFiniteSet(T) /\ T \subseteq Rows /\ T \subseteq table
  BY <1>4, SeenIsFinite
<1> HIDE DEF T
<1>7. CASE T = {}
  BY <1>5, <1>6, <1>7 DEF Stale
<1>8. CASE T # {}
  <2> DEFINE A == {e.at : e \in T}
             f == [e \in T |-> e.at]
  <2>1. A \in SUBSET Int /\ A # {}
    BY <1>6, <1>8, RowsAssumption
  <2>2. f \in Surjection(T, A)
    BY DEF Surjection
  <2>3. Max(A) \in A /\ \A y \in A : Max(A) >= y
    <3>1. IsFiniteSet(A)
      <4> HIDE DEF f, A
      <4>1. QED
        BY <1>6, <2>2, FS_Surjection
    <3> HIDE DEF A, f
    <3>2. QED
      BY <2>1, <3>1, MaximumExists
  <2>4. PICK m \in T : Max(A) = m.at
    BY <2>3
  <2>5. \A e \in T : e.at <= m.at
    BY <2>3, <2>4
  <2>6. Stale <=> got.clock - m.at > StaleAge
    BY <1>5, <1>8, <2>4 DEF Stale
  <2>7. m.at \in Int /\ \A e \in T : e.at \in Int
    BY <1>6, RowsAssumption
  <2>8. Stale => recent(T) = {}
    BY <1>5, <2>5, <2>6, <2>7, LimitsAssumption
  <2>9. ~Stale => m \in recent(table)
    BY <1>5, <1>6, <2>6, <2>7, LimitsAssumption
  <2>10. QED
    BY <1>6, <1>8, <2>8, <2>9
<1>9. QED
  BY <1>7, <1>8

\* The invariant of all answers.
LEMMA AnswersInvThere == Progress /\ Sourced => AnswersInv
<1> SUFFICES ASSUME Progress, Sourced PROVE AnswersInv
  OBVIOUS
<1>1. QueryAsked => DOMAIN got = {Queries[ask][i] : i \in 1 .. Position - 1}
  <2>1. QueryAsked => ask # "none" /\ Script(ask) = Queries[ask]
    BY EndpointsAre DEF QueryAsked, Script
  <2>2. QED
    BY <2>1 DEF Progress
<1>2. ask \in {"none"} \union DOMAIN Selects \union DOMAIN Queries
  BY EndpointsAre DEF Progress
<1>3. QED
  BY <1>1, <1>2, MetricsInvThere, HealthIsTrueThere DEF AnswersInv

\* The answers are typed; what metrics counts twice grows, a heatmap is sound,
\* and the health of the feed is true.
THEOREM AnswersAreSound == QueriesSpec => []AnswersInv
  BY AnswersHaveSources, AnswersInvThere, PTL

-----------------------------------------------------------------------------
(* Paging *)

\* The n latest of finitely many rows: no more than n, all if there are no more,
\* and none of the others is later.
LEMMA LatestRows ==
  ASSUME NEW S, IsFiniteSet(S), NEW n \in Nat, NEW F \in Latest(n, S)
  PROVE  /\ F \subseteq S /\ IsFiniteSet(F)
         /\ Cardinality(F) \in Nat /\ Cardinality(S) \in Nat
         /\ Cardinality(F) <= n /\ Cardinality(F) <= Cardinality(S)
         /\ Cardinality(S) <= n => F = S
         /\ F # S => Cardinality(F) = n
         /\ \A e \in F, d \in S \ F : e.at >= d.at
<1>1. Cardinality(S) \in Nat
  BY FS_CardinalityType
<1>2. /\ F \in SUBSET S
      /\ Cardinality(F) = IF n < Cardinality(S) THEN n ELSE Cardinality(S)
      /\ \A e \in F, d \in S \ F : e.at >= d.at
  BY DEF Latest, kSubset
<1>3. IsFiniteSet(F) /\ (Cardinality(S) = Cardinality(F) => S = F)
  BY <1>2, FS_Subset
<1>4. QED
  BY <1>1, <1>2, <1>3

\* The rows of a page and what comes before it.
LEMMA PageRows ==
  ASSUME NEW S, NEW n \in Nat, NEW P \in Pages(n, S)
  PROVE  \E F \in Latest(n, S), L \in Latest(n + PageLimit, S) : F \subseteq L /\ P = L \ F
BY DEF Pages

\* The first page is the latest PageLimit rows.
LEMMA FirstPage ==
  ASSUME NEW S, IsFiniteSet(S), NEW P \in Pages(0, S)
  PROVE  P \in Latest(PageLimit, S)
<1>1. PICK F \in Latest(0, S), L \in Latest(0 + PageLimit, S) : P = L \ F
  BY PageRows
<1>2. F = {}
  <2>1. IsFiniteSet(F) /\ Cardinality(F) \in Nat /\ Cardinality(F) <= 0
    BY LatestRows
  <2>2. QED
    BY <2>1, FS_EmptySet
<1>3. 0 + PageLimit = PageLimit
  BY LimitsAssumption
<1>4. QED
  BY <1>1, <1>2, <1>3

\* The second page is read from a larger set.  What is on neither comes after
\* both, or was put at the end of the first page by rows of its own time.
LEMMA MissedOnlyTies ==
  ASSUME NEW S \in SUBSET Rows, NEW T \in SUBSET Rows, S \subseteq T, IsFiniteSet(T),
         NEW page \in Pages(0, S), NEW next \in Pages(PageLimit, T),
         NEW e \in S, e \notin page, e \notin next
  PROVE  \/ \E d \in page : e.at = d.at /\ \A c \in page : d.at <= c.at
         \/ next # {} /\ \A d \in next : e.at <= d.at
<1> DEFINE n == PageLimit
<1>1. n \in Nat \ {0} /\ n \in Nat /\ n + n \in Nat
  BY LimitsAssumption
<1>2. IsFiniteSet(S)
  BY FS_Subset
<1>3. page \in Latest(n, S)
  BY <1>2, FirstPage
<1>4. PICK F \in Latest(n, T), L \in Latest(n + n, T) : F \subseteq L /\ next = L \ F
  BY <1>1, PageRows
<1> HIDE DEF n
<1>5. /\ page \subseteq S /\ IsFiniteSet(page) /\ Cardinality(page) \in Nat
      /\ page # S => Cardinality(page) = n
      /\ \A c \in page, d \in S \ page : c.at >= d.at
  BY <1>1, <1>2, <1>3, LatestRows
<1>6. /\ F \subseteq T /\ IsFiniteSet(F) /\ Cardinality(F) \in Nat /\ Cardinality(F) <= n
      /\ \A c \in F, d \in T \ F : c.at >= d.at
  BY <1>1, <1>4, LatestRows
<1>7. /\ L \subseteq T /\ IsFiniteSet(L)
      /\ L # T => Cardinality(L) = n + n
      /\ \A c \in L, d \in T \ L : c.at >= d.at
  BY <1>1, <1>4, LatestRows
<1>8. \A r \in Rows : r.at \in Int
  BY RowsAssumption
<1>9. CASE e \notin L
  <2>1. e \in T \ L
    BY <1>9
  <2>2. next # {}
    <3>1. Cardinality(L) = n + n
      BY <1>7, <2>1
    <3>2. L # F
      BY <1>1, <1>6, <3>1
    <3>3. QED
      BY <1>4, <3>2
  <2>3. \A d \in next : e.at <= d.at
    BY <1>4, <1>7, <1>8, <2>1
  <2>4. QED
    BY <2>2, <2>3
<1>10. CASE e \in L
  <2>1. e \in F
    BY <1>4, <1>10
  <2>2. Cardinality(page) = n
    BY <1>5
  <2>3. PICK d \in page : d \notin F
    <3>1. SUFFICES ASSUME page \subseteq F PROVE FALSE
      OBVIOUS
    <3>2. Cardinality(page) <= Cardinality(F) /\ (Cardinality(F) = Cardinality(page) => F = page)
      BY <1>6, <3>1, FS_Subset
    <3>3. F = page
      BY <1>1, <1>5, <1>6, <2>2, <3>2
    <3>4. QED
      BY <2>1, <3>3
  <2>4. e.at >= d.at
    BY <1>5, <1>6, <2>1, <2>3
  <2>5. \A c \in page : c.at >= e.at
    BY <1>5
  <2>6. e.at = d.at /\ \A c \in page : d.at <= c.at
    BY <1>5, <1>8, <2>3, <2>4, <2>5
  <2>7. QED
    BY <2>3, <2>6
<1>11. QED
  BY <1>9, <1>10

\* The rows of the filter.
LEMMA MatchingRows ==
  ASSUME NEW S, NEW T, S \subseteq T, IsFiniteSet(T)
  PROVE  Matching(S) \subseteq Matching(T) /\ IsFiniteSet(Matching(T)) /\ Matching(T) \subseteq T
<1>1. Matching(S) \subseteq Matching(T) /\ Matching(T) \subseteq T
  BY DEF Matching
<1>2. QED
  BY <1>1, FS_Subset

\* A list's pages and totals were read one after the other.
LEMMA PagesMissOnlyTiesThere ==
  ASSUME Progress, Sourced
  PROVE  PagesMissOnlyTies
<1> DEFINE first == CHOOSE T \in seen : \A U \in seen : T \subseteq U
           begun == Matching(first)
           ends == {e.at : e \in {d \in got.page : \A c \in got.page : d.at <= c.at}}
<1> SUFFICES ASSUME QueryAnswered, ask = "list"
    PROVE  /\ \A e \in begun \ (got.page \union got.next) :
                \/ e.at \in ends
                \/ got.next # {} /\ \A d \in got.next : e.at <= d.at
           /\ Cardinality(got.page) <= got.total
           /\ got.total <= PageLimit => begun \subseteq got.page
  BY DEF PagesMissOnlyTies
<1>1. ask # "none" /\ ~Asked
  BY QueryExecuted
<1>2. PICK src : Sources(src)
  BY <1>1 DEF Sourced
<1>3. Script(ask)[1] = "page" /\ Script(ask)[2] = "total" /\ Script(ask)[3] = "next"
      /\ 1 \in 1 .. Len(Script(ask)) /\ 2 \in 1 .. Len(Script(ask)) /\ 3 \in 1 .. Len(Script(ask))
  BY ScriptsAre
<1>4. /\ ReadFrom("page", src["page"]) /\ ReadFrom("total", src["total"])
      /\ ReadFrom("next", src["next"])
      /\ src["page"] \in seen /\ src["total"] \in seen /\ src["next"] \in seen
      /\ src["page"] \subseteq src["total"] /\ src["total"] \subseteq src["next"]
  <2>1. 1 <= 2 /\ 2 <= 3
    OBVIOUS
  <2>2. QED
    BY <1>2, <1>3, <2>1, QueryPairs
<1> DEFINE S == src["page"]
           N == src["total"]
           T == src["next"]
<1>5. /\ got.page \in Pages(0, Matching(S)) /\ got.total = Cardinality(Matching(N))
      /\ got.next \in Pages(PageLimit, Matching(T))
  BY <1>1, <1>4 DEF ReadFrom
<1>6. /\ IsFiniteSet(S) /\ IsFiniteSet(N) /\ IsFiniteSet(T) /\ T \subseteq Rows
      /\ S \in seen /\ S \subseteq N /\ N \subseteq T
  BY <1>4, SeenIsFinite
<1> HIDE DEF S, N, T
<1>7. first \subseteq S
  BY <1>6 DEF Progress
<1> HIDE DEF first
<1>8. /\ begun \subseteq Matching(S) /\ Matching(S) \subseteq Matching(N)
      /\ Matching(S) \subseteq Matching(T) /\ Matching(T) \subseteq Rows
      /\ IsFiniteSet(Matching(S)) /\ IsFiniteSet(Matching(N)) /\ IsFiniteSet(Matching(T))
  <2>1. S \subseteq T
    BY <1>6
  <2>2. QED
    BY <1>6, <1>7, <2>1, MatchingRows
<1> HIDE DEF begun
<1>9. ASSUME NEW e \in begun, e \notin got.page \union got.next
      PROVE  e.at \in ends \/ (got.next # {} /\ \A d \in got.next : e.at <= d.at)
  <2>1. \/ \E d \in got.page : e.at = d.at /\ \A c \in got.page : d.at <= c.at
        \/ got.next # {} /\ \A d \in got.next : e.at <= d.at
    <3>1. /\ Matching(S) \in SUBSET Rows /\ Matching(T) \in SUBSET Rows
          /\ e \in Matching(S) /\ e \notin got.page /\ e \notin got.next
      BY <1>8, <1>9
    <3>2. QED
      BY <1>5, <1>8, <3>1, MissedOnlyTies
  <2>2. QED
    BY <2>1
<1>10. got.page \in Latest(PageLimit, Matching(S)) /\ PageLimit \in Nat
  BY <1>5, <1>8, FirstPage, LimitsAssumption
<1>11. /\ Cardinality(got.page) \in Nat /\ Cardinality(Matching(S)) \in Nat
       /\ Cardinality(got.page) <= Cardinality(Matching(S))
       /\ Cardinality(Matching(S)) <= PageLimit => got.page = Matching(S)
  BY <1>8, <1>10, LatestRows
<1>12. Cardinality(Matching(N)) \in Nat /\ Cardinality(Matching(S)) <= Cardinality(Matching(N))
  BY <1>8, CountsMonotone
<1>13. Cardinality(got.page) <= got.total
  BY <1>5, <1>11, <1>12
<1>14. got.total <= PageLimit => begun \subseteq got.page
  BY <1>5, <1>8, <1>10, <1>11, <1>12
<1>15. QED
  BY <1>9, <1>13, <1>14

\* An event that was there when a client began to page is missed only for a tie.
THEOREM PagesMissTiesOnly == QueriesSpec => []PagesMissOnlyTies
  BY AnswersHaveSources, PagesMissOnlyTiesThere, PTL
=============================================================================
