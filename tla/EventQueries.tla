---------------------------- MODULE EventQueries ----------------------------
(***************************************************************************)
(* The answers that are read from the events table as a whole: GET /events *)
(* with its paging and its filters, GET /events/stats and GET /health.  As *)
(* the answers of StoreMetrics, they are made by SELECTs between which     *)
(* batches are committed.  A client that pages asks for two pages, one     *)
(* after the other.                                                        *)
(***************************************************************************)
EXTENDS StoreMetrics, FiniteSetsExt

CONSTANTS
  Filter,      \* event_type: the events the client asks for
  PageLimit,   \* limit
  StaleAge     \* STALE_THRESHOLD_MINUTES

ASSUME FilterAssumption == Filter \in Types
ASSUME LimitsAssumption == PageLimit \in Nat \ {0} /\ StaleAge \in Nat

-----------------------------------------------------------------------------
(* The SELECTs, over table T *)

\* _filtered_query
Matching(T) == {e \in T : e.type = Filter}

\* (mutation) ORDER BY timestamp: the n oldest rows of S.
Oldest(n, S) ==
  {F \in kSubset(IF n < Cardinality(S) THEN n ELSE Cardinality(S), S) :
     \A e \in F, d \in S \ F : e.at <= d.at}

\* The n latest rows of S, in any of the ways in which rows of the same time may
\* come: ORDER BY timestamp DESC.
Latest(n, S) ==
  {F \in kSubset(IF n < Cardinality(S) THEN n ELSE Cardinality(S), S) :
     \A e \in F, d \in S \ F : e.at >= d.at}

\* The rows that OFFSET offset LIMIT PageLimit may return.
Pages(offset, S) ==
  {p[2] \ p[1] : p \in
     {q \in Latest(offset, S) \X Latest(offset + PageLimit, S) : q[1] \subseteq q[2]}}

\* What the SELECT named q may return, or the clock show.
Answers(q) ==
  CASE q = "page" -> Pages(0, Matching(table))
    [] q = "next" -> Pages(PageLimit, Matching(table))
    [] q \in {"total", "next_total"} -> {Cardinality(Matching(table))}
    [] q = "rows" -> {Cardinality(table)}
    [] q = "last" -> {IF table = {} THEN {} ELSE {Max({e.at : e \in table})}}
    [] q = "clock" -> {clock}

-----------------------------------------------------------------------------
(* The order of the SELECTs *)

\* list_events, for a page and the one after it.
ListSelects == <<"page", "total", "next", "next_total">>

\* get_stats
StatsSelects == <<"rows">>

\* get_health: the latest event, then the clock.
HealthSelects == <<"last", "clock">>

Queries == [list |-> ListSelects, stats |-> StatsSelects, health |-> HealthSelects]

QueryAsked == ask \in DOMAIN Queries
QueryAnswered == QueryAsked /\ Position > Len(Queries[ask])

\* The next SELECT.
SelectQuery ==
  /\ QueryAsked
  /\ LET q == Queries[ask][Position]
     IN \E answer \in Answers(q) :
          got' = [n \in DOMAIN got \union {q} |-> IF n = q THEN answer ELSE got[n]]
  /\ UNCHANGED <<table, clock, ask, now, seen>>

QueriesNext ==
  /\ ~QueryAnswered
  /\ \/ Next
     \/ \E a \in DOMAIN Queries : Ask(a)
     \/ SelectQuery

QueriesSpec == Init /\ [][QueriesNext]_vars

\* STALE_FEED
Stale == \E at \in got.last : got.clock - at > StaleAge

-----------------------------------------------------------------------------
(* Properties *)

\* A feed is called stale only if no event of the table that was read is recent;
\* a feed that is not has a recent event, or none at all.
HealthIsTrue ==
  QueryAnswered /\ ask = "health" =>
    LET recent(T) == {e \in T : got.clock - e.at <= StaleAge}
    IN /\ Stale => \E T \in seen : recent(T) = {} /\ T # {}
       /\ ~Stale => recent(table) # {} \/ {} \in seen

\* The invariants of all answers.
AnswersInv ==
  /\ MetricsInv
  /\ ask \in {"none"} \union DOMAIN Selects \union DOMAIN Queries
  /\ QueryAsked => DOMAIN got = {Queries[ask][i] : i \in 1 .. Position - 1}
  /\ HealthIsTrue

\* An event that was in the table when a client began to page is on one of the
\* pages, or comes after them, however many are committed meanwhile; only one
\* whose time is that of the end of the first page may be missed, for want of a
\* second key in the order.  And the total that comes with a page does not let
\* the client stop too early: it counts every event the page was read from.
PagesMissOnlyTies ==
  QueryAnswered /\ ask = "list" =>
    LET begun == Matching(CHOOSE T \in seen : \A U \in seen : T \subseteq U)
        ends == {e.at : e \in {d \in got.page : \A c \in got.page : d.at <= c.at}}
    IN /\ \A e \in begun \ (got.page \union got.next) :
            \/ e.at \in ends
            \/ got.next # {} /\ \A d \in got.next : e.at <= d.at
       /\ Cardinality(got.page) <= got.total
       /\ got.total <= PageLimit => begun \subseteq got.page
=============================================================================
