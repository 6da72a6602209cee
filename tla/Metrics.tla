------------------------------- MODULE Metrics --------------------------------
(***************************************************************************)
(* The Metrics Service: measurements are recorded by other modules, and    *)
(* summed up on request, by day, project or agent.                         *)
(*                                                                         *)
(* Rows that agree in everything but their id are counted: the table is a  *)
(* bag of values for each stream, which is a metric of an entity on a day. *)
(***************************************************************************)
EXTENDS Integers, FiniteSets, FiniteSetsExt

CONSTANTS
  Streams,      \* [metric_name, entity_type, entity_id, day]
  Values,       \* what is measured, a set of integers
  MaxRows       \* bound: rows of each stream

ASSUME MetricsAssumption == IsFiniteSet(Streams) /\ IsFiniteSet(Values) /\ Values \subseteq Int

VARIABLE samples      \* committed rows: number by stream and value

metricsVars == <<samples>>

MetricsInit == samples = [s \in Streams |-> [v \in Values |-> 0]]

Size(bag) == MapThenSumSet(LAMBDA v : bag[v], Values)
Total(bag) == MapThenSumSet(LAMBDA v : v * bag[v], Values)

RecordMetric(s, v) ==
  /\ Size(samples[s]) < MaxRows[s]
  /\ samples' = [samples EXCEPT ![s][v] = @ + 1]

MetricsNext == \E s \in Streams, v \in Values : RecordMetric(s, v)

MetricsSpec == MetricsInit /\ [][MetricsNext]_metricsVars

------------------------------------------------------------------------------
(***************************************************************************)
(* Grouping.  A key without rows has no bucket.                            *)
(***************************************************************************)

GroupRows(selected, column) ==
  LET found == {s \in selected : Size(samples[s]) > 0} IN
  [key \in {s[column] : s \in found} |->
     [v \in Values |-> MapThenSumSet(LAMBDA s : samples[s][v], {s \in found : s[column] = key})]]

ValuesGroupedByDay(name) ==
  GroupRows({s \in Streams : s.metric_name = name}, "day")

ValuesGroupedByEntity(name, type) ==
  GroupRows({s \in Streams : s.metric_name = name /\ s.entity_type = type}, "entity_id")

ValuesGroupedByMetricName(type, entity) ==
  GroupRows({s \in Streams : s.entity_type = type /\ s.entity_id = entity}, "metric_name")

------------------------------------------------------------------------------
(***************************************************************************)
(* Aggregation.  A value is a quotient, so that an average is exact.       *)
(***************************************************************************)

\* The element at a place of the sorted values, counted from zero.
SortedAt(bag, index) ==
  CHOOSE v \in Values :
    /\ bag[v] > 0
    /\ MapThenSumSet(LAMBDA w : bag[w], {w \in Values : w < v}) <= index
    /\ MapThenSumSet(LAMBDA w : bag[w], {w \in Values : w <= v}) > index

\* A faulty variant, as in TaskStates.
PercentileRoundedDown(bag) ==
  IF Size(bag) = 0 THEN 0
  ELSE LET n == Size(bag)
           rank == (19 * n) \div 20
       IN SortedAt(bag, Min({n - 1, Max({0, rank - 1})}))

\* Nearest rank at 0.95.
Percentile(bag) ==
  IF Size(bag) = 0 THEN 0
  ELSE LET n == Size(bag)
           rank == (19 * n + 19) \div 20
       IN SortedAt(bag, Min({n - 1, Max({0, rank - 1})}))

Aggregate(bag, agg) ==
  CASE agg = "sum" -> <<Total(bag), 1>>
    [] agg = "avg" -> IF Size(bag) = 0 THEN <<0, 1>> ELSE <<Total(bag), Size(bag)>>
    [] agg = "p95" -> <<Percentile(bag), 1>>

SupportedGroupBy == {"day", "project", "agent"}
SupportedAgg == {"sum", "avg", "p95"}

\* A grouping that is not supported is refused with 422.
Summary(name, groupBy, agg) ==
  IF groupBy \notin SupportedGroupBy \/ agg \notin SupportedAgg THEN {}
  ELSE LET grouped == IF groupBy = "day" THEN ValuesGroupedByDay(name)
                      ELSE ValuesGroupedByEntity(name, groupBy)
       IN {[key |-> key, value |-> Aggregate(grouped[key], agg)] : key \in DOMAIN grouped}

ProjectSummary(project) ==
  LET grouped == ValuesGroupedByMetricName("project", project) IN
  {[metric_name |-> name, sum |-> Total(grouped[name]),
    avg |-> <<Total(grouped[name]), Size(grouped[name])>>, count |-> Size(grouped[name])] :
     name \in DOMAIN grouped}

------------------------------------------------------------------------------
(***************************************************************************)
(* Properties                                                              *)
(***************************************************************************)

MetricsTypeOK == samples \in [Streams -> [Values -> Nat]]

MetricNames == {s.metric_name : s \in {t \in Streams : \E v \in Values : samples[t][v] > 0}}

\* The different views are views of one table, whatever was recorded in
\* which order.  The buckets of a summary cover each row they are about once:
\* days all rows of the metric, projects and agents those of that type.  A
\* project's own summary gives the sum and the average that the summary by
\* project has for it.  And a p95 is a value that was recorded, the least
\* with 95 of 100 values at or below it.
SummariesAgree ==
  \A name \in MetricNames :
    LET Of(type) == {s \in Streams : s.metric_name = name /\ s.entity_type = type}
        All == {s \in Streams : s.metric_name = name}
        Rows(S) == MapThenSumSet(LAMBDA s : Total(samples[s]), S)
        Sums(groupBy) == MapThenSumSet(LAMBDA b : b.value[1], Summary(name, groupBy, "sum"))
    IN
    /\ Sums("day") = Rows(All)
    /\ \A type \in {"project", "agent"} : Sums(type) = Rows(Of(type))
    /\ \A s \in Of("project") : \A entry \in ProjectSummary(s.entity_id) :
         entry.metric_name = name =>
           /\ [key |-> s.entity_id, value |-> <<entry.sum, 1>>] \in Summary(name, "project", "sum")
           /\ [key |-> s.entity_id, value |-> entry.avg] \in Summary(name, "project", "avg")
    /\ \A groupBy \in SupportedGroupBy : \A b \in Summary(name, groupBy, "p95") :
         LET S == {s \in All : IF groupBy = "day" THEN s.day = b.key
                               ELSE s.entity_type = groupBy /\ s.entity_id = b.key}
             AtMost(v) == MapThenSumSet(LAMBDA s :
                            MapThenSumSet(LAMBDA w : samples[s][w], {w \in Values : w <= v}), S)
             n == AtMost(Max(Values))
         IN b.value[1] = Min({v \in Values : AtMost(v) > 0 /\ 100 * AtMost(v) >= 95 * n})

==============================================================================
