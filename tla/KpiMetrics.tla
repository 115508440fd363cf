------------------------------- MODULE KpiMetrics -------------------------------
(***************************************************************************)
(* AdvancedMetricsCollector: what is recorded of each prediction, under a  *)
(* lock, in counters for all time and in windows of three lengths, and the *)
(* indicators that are computed from both.  Confidences are in percent,    *)
(* costs in the cost of one prediction, rates are pairs.                   *)
(***************************************************************************)
EXTENDS Naturals, Sequences, FiniteSets, SequencesExt, FiniteSetsExt

CONSTANTS
  Predictions,     \* [label, confidence, latency, backend, cached] that are recorded
  max_history,     \* maxlen of prediction_history (10000 in the code)
  max_confidence,  \* maxlen of the low and high confidence predictions (1000)
  max_latencies,   \* latencies kept for a backend (1000)
  day,             \* ticks of a day
  MaxTime,         \* bound: ticks of the clock
  MaxPredictions   \* bound: predictions

KpiAssumption ==
  /\ {max_history, max_confidence, max_latencies, day} \subseteq Nat \ {0}
  /\ max_confidence <= max_history
  /\ MaxTime \in Nat /\ MaxPredictions \in Nat
  /\ IsFiniteSet(Predictions)
  /\ \A p \in Predictions : p.confidence \in Nat /\ p.latency \in Nat

Labels == {p.label : p \in Predictions}
Backends == {p.backend : p \in Predictions}
Buckets == {"very_high", "high", "medium", "low", "very_low"}

VARIABLES
  detailed,            \* enable_detailed_tracking
  history,             \* prediction_history: predictions with the time they were made
  low, high,           \* low_ and high_confidence_predictions
  by_label, by_bucket, by_backend,
  latencies,           \* latency_by_backend
  total_cost,
  cost_by_day,
  gauges,              \* [rejection, p95, throughput], as they were last set
  now,
  \* history
  all                  \* every prediction recorded

vars ==
  <<detailed, history, low, high, by_label, by_bucket, by_backend, latencies, total_cost,
    cost_by_day, gauges, now, all>>

Days == 0 .. MaxTime \div day
Count == 0 .. MaxPredictions

TypeOK ==
  /\ detailed \in BOOLEAN
  /\ Len(history) <= max_history /\ Len(low) <= max_confidence /\ Len(high) <= max_confidence
  /\ by_label \in [Labels -> Count] /\ by_bucket \in [Buckets -> Count]
  /\ by_backend \in [Backends -> Count]
  /\ \A b \in Backends : Len(latencies[b]) <= max_latencies
  /\ total_cost \in Count /\ cost_by_day \in [Days -> Count]
  /\ now \in 0 .. MaxTime /\ Len(all) <= MaxPredictions
  /\ gauges.rejection \in Count \X Count /\ gauges.p95 \in Nat /\ gauges.throughput \in Count

Init ==
  /\ detailed \in BOOLEAN
  /\ history = <<>> /\ low = <<>> /\ high = <<>> /\ all = <<>>
  /\ by_label = [l \in Labels |-> 0]
  /\ by_bucket = [b \in Buckets |-> 0]
  /\ by_backend = [b \in Backends |-> 0]
  /\ latencies = [b \in Backends |-> <<>>]
  /\ total_cost = 0 /\ cost_by_day = [d \in Days |-> 0]
  /\ gauges = [rejection |-> <<0, 0>>, p95 |-> 0, throughput |-> 0]
  /\ now = 0

-----------------------------------------------------------------------------
(* record_prediction *)

\* mutant
Everything(s, n) == s

\* The last n elements of s.
LastOf(s, n) == SubSeq(s, Len(s) - (IF Len(s) < n THEN Len(s) ELSE n) + 1, Len(s))

\* _get_confidence_bucket
Bucket(confidence) ==
  CASE confidence >= 95 -> "very_high"
    [] 80 <= confidence /\ confidence < 95 -> "high"
    [] 60 <= confidence /\ confidence < 80 -> "medium"
    [] 50 <= confidence /\ confidence < 60 -> "low"
    [] confidence < 50 -> "very_low"

Record(p) ==
  LET made == [p |-> p, at |-> now]
  IN /\ Len(all) < MaxPredictions
     /\ history' = IF detailed THEN LastOf(Append(history, made), max_history) ELSE history
     /\ by_label' = [by_label EXCEPT ![p.label] = @ + 1]
     /\ by_bucket' = [by_bucket EXCEPT ![Bucket(p.confidence)] = @ + 1]
     /\ by_backend' = [by_backend EXCEPT ![p.backend] = @ + 1]
     /\ low' = IF p.confidence < 60 THEN LastOf(Append(low, made), max_confidence) ELSE low
     /\ high' = IF p.confidence >= 90 THEN LastOf(Append(high, made), max_confidence) ELSE high
     /\ latencies' = [latencies EXCEPT ![p.backend] = LastOf(Append(@, p.latency), max_latencies)]
     /\ total_cost' = total_cost + 1
     /\ cost_by_day' = [cost_by_day EXCEPT ![now \div day] = @ + 1]
     /\ all' = Append(all, made)
     /\ UNCHANGED <<detailed, gauges, now>>

-----------------------------------------------------------------------------
(* Indicators *)

Of(f) == MapThenSumSet(LAMBDA x : f[x], DOMAIN f)

\* Where _calculate_percentile looks in the sorted data, from 0.
PercentileIndex(n, percent) == IF (percent * n) \div 100 > n - 1 THEN n - 1 ELSE (percent * n) \div 100

\* The places of the data in their order.
Orders(p, data) == \A i, j \in DOMAIN data : i < j => data[p[i]] <= data[p[j]]
Sorted(data) ==
  LET p == CHOOSE p \in Bijection(DOMAIN data, DOMAIN data) : Orders(p, data)
  IN [i \in DOMAIN data |-> data[p[i]]]

Percentile(data, percent) ==
  IF data = <<>> THEN 0 ELSE Sorted(data)[PercentileIndex(Len(data), percent) + 1]

Latencies == [i \in DOMAIN history |-> history[i].p.latency]
Confidences == [i \in DOMAIN history |-> history[i].p.confidence]

\* get_business_kpis: the ratio of high quality predictions is of the window, the total
\* and its shares by label are of all time.
BusinessKpis ==
  [total |-> Of(by_label), by_label |-> by_label,
   high_quality |-> <<Cardinality({i \in DOMAIN history : history[i].p.confidence >= 80}), Len(history)>>]

LowRate == <<Len(low), Len(history)>>

\* get_quality_metrics
GetQuality ==
  /\ history # <<>>
  /\ gauges' = [gauges EXCEPT !.rejection = LowRate]
  /\ UNCHANGED <<detailed, history, low, high, by_label, by_bucket, by_backend, latencies,
                 total_cost, cost_by_day, now, all>>

\* get_cost_metrics: cached ones of the window in percent of all.
CostMetrics ==
  [total |-> total_cost, per_prediction |-> <<total_cost, Of(by_label)>>,
   last_day |-> Cardinality({i \in DOMAIN history : now - history[i].at < day}),
   savings |-> <<Cardinality({i \in DOMAIN history : history[i].p.cached}), Of(by_label)>>]

Throughput == Cardinality({i \in DOMAIN history : history[i].at = now})

\* get_performance_metrics
GetPerformance ==
  /\ history # <<>>
  /\ gauges' = [gauges EXCEPT !.p95 = Percentile(Latencies, 95), !.throughput = Throughput]
  /\ UNCHANGED <<detailed, history, low, high, by_label, by_bucket, by_backend, latencies,
                 total_cost, cost_by_day, now, all>>

\* get_slo_compliance: availability is always 100.
Compliant(p95_target, p99_target) ==
  history # <<>> /\ Percentile(Latencies, 95) <= p95_target /\ Percentile(Latencies, 99) <= p99_target

Tick ==
  /\ now < MaxTime /\ now' = now + 1
  /\ UNCHANGED <<detailed, history, low, high, by_label, by_bucket, by_backend, latencies,
                 total_cost, cost_by_day, gauges, all>>

Next == (\E p \in Predictions : Record(p)) \/ GetQuality \/ GetPerformance \/ Tick

Spec == Init /\ [][Next]_vars

-----------------------------------------------------------------------------
(* Properties *)

\* The counters of all time, the costs and the windows tell of the same predictions.
CountersAgree ==
  LET costs == CostMetrics
  IN /\ Of(by_label) = Len(all) /\ Of(by_bucket) = Len(all) /\ Of(by_backend) = Len(all)
     /\ costs.total = Of(cost_by_day) /\ costs.per_prediction[1] = costs.per_prediction[2]
     /\ history = IF detailed THEN LastOf(all, max_history) ELSE <<>>
     /\ costs.last_day <= costs.total /\ costs.savings[1] <= costs.savings[2]

\* At least as many of the data as the percentile says are not above it, and it is one
\* of them (advanced_metrics.py:497-503).
PercentileIsTrue(data, percent) ==
  LET value == Percentile(data, percent)
  IN data # <<>> =>
       /\ value \in ToSet(data)
       /\ 100 * Cardinality({i \in DOMAIN data : data[i] <= value}) >= percent * Len(data)

\* A latency target is met only if that share of the predictions in the window met it,
\* and the percentiles are ordered (advanced_metrics.py:460-473).
TargetsAreMet ==
  /\ \A percent \in {50, 95, 99} :
       PercentileIsTrue(Latencies, percent) /\ PercentileIsTrue(Confidences, percent)
  /\ Percentile(Latencies, 50) <= Percentile(Latencies, 95)
  /\ \A target \in ToSet(Latencies) : Compliant(target, target) =>
       100 * Cardinality({i \in DOMAIN history : history[i].p.latency <= target}) >= 99 * Len(history)

\* The predictions of low confidence that are kept are as many as were ever made until
\* there are max_confidence, and that many then, whatever the window of all has forgotten: the
\* rate never exceeds one, and is that of the window while neither has evicted
\* (advanced_metrics.py:232, :322).
RatesAreExact ==
  LET ever == Cardinality({i \in DOMAIN all : all[i].p.confidence < 60})
  IN /\ Len(low) = IF ever < max_confidence THEN ever ELSE max_confidence
     /\ detailed => LowRate[1] <= LowRate[2]
     /\ detailed /\ Len(all) <= max_history /\ ever <= max_confidence
          => LowRate[1] = Cardinality({i \in DOMAIN history : history[i].p.confidence < 60})

\* Counters agree, percentiles and targets are true, rates are exact up to what is kept.
KpisAreSound == CountersAgree /\ TargetsAreMet /\ RatesAreExact

\* advanced_metrics.py:132, "Percentage of predictions below confidence threshold": the
\* windows of the two counts have different lengths (README, section 6).
RejectionIsOfWindow ==
  detailed => LowRate[1] = Cardinality({i \in DOMAIN history : history[i].p.confidence < 60})

\* advanced_metrics.py:164, "P95 latency in milliseconds": of when it was last asked for
\* (README, section 6).
GaugeIsCurrent == history # <<>> => gauges.p95 = Percentile(Latencies, 95)

==============================================================================
