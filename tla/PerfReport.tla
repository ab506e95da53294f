------------------------------ MODULE PerfReport -----------------------------
(***************************************************************************)
(* What the performance page is told (performance/): baselines of a        *)
(* window, deviations from them, the score, the trends, the applications   *)
(* ranked as contributors, and the episodes rendered from recorded         *)
(* samples.  Values are integers, shares are compared as products, and a   *)
(* median is kept as its double.                                           *)
(***************************************************************************)
EXTENDS Integers, Sequences, FiniteSets, FiniteSetsExt

CONSTANT Absent      \* None

Elements(s) == {s[i] : i \in DOMAIN s}
Greatest(S) == CHOOSE x \in S : \A y \in S : y <= x
Least(S) == CHOOSE x \in S : \A y \in S : x <= y
Magnitude(x) == IF x < 0 THEN 0 - x ELSE x

-----------------------------------------------------------------------------
(* Baselines (baseline.py): the statistics of a window. *)

\* The k-th smallest value of a sequence.
Ranked(values, k) ==
    CHOOSE v \in Elements(values) :
        /\ Cardinality({i \in DOMAIN values : values[i] < v}) < k
        /\ Cardinality({i \in DOMAIN values : values[i] <= v}) >= k

\* BaselineCalculator._percentile, nearest rank, of the 95 %.
P95(values) == Ranked(values, Greatest({1, (95 * Len(values) + 99) \div 100}))

TwiceMedian(values) ==
    Ranked(values, (Len(values) + 1) \div 2) + Ranked(values, Len(values) \div 2 + 1)

SumOf(values, I) == MapThenSumSet(LAMBDA i : values[i], I)

\* BaselineCalculator.from_window; the dispersion is left out.
BaselineOf(values) ==
    IF values = <<>> THEN Absent
    ELSE [count |-> Len(values), total |-> SumOf(values, DOMAIN values),
          twiceMedian |-> TwiceMedian(values), p95 |-> P95(values),
          least |-> Least(Elements(values)), greatest |-> Greatest(Elements(values))]

MinDeviationSamples == 2
Sufficient(baseline) == baseline # Absent /\ baseline.count >= MinDeviationSamples

-----------------------------------------------------------------------------
(* Deviations and the score (deviation.py, score.py). *)

Bands == {"UNKNOWN", "NORMAL", "ELEVATED", "CRITICAL"}

\* _band_for, condition_for: a low battery is the bad one.
Band(current, warn, crit, higherIsWorse) ==
    LET Reached(limit) == IF higherIsWorse THEN current >= limit ELSE current <= limit
    IN  IF current = Absent THEN "UNKNOWN"
        ELSE IF Reached(crit) THEN "CRITICAL"
        ELSE IF Reached(warn) THEN "ELEVATED" ELSE "NORMAL"

\* compute_deviation: twice the distance to the median.
Deviation(current, baseline, warn, crit, higherIsWorse) ==
    LET sufficient == current # Absent /\ Sufficient(baseline)
    IN  [current |-> current, band |-> Band(current, warn, crit, higherIsWorse),
         sufficient |-> sufficient,
         twiceDelta |-> IF sufficient THEN 2 * current - baseline.twiceMedian ELSE Absent]

MaxPenalty == [cpu |-> 25, memory |-> 25, storage |-> 20, process |-> 15, battery |-> 15]

\* round() of a half goes to the even neighbour: 12.5 to 12, 7.5 to 8.
HalfPenalty == [cpu |-> 12, memory |-> 12, storage |-> 10, process |-> 8, battery |-> 8]

Penalty(metric, band) ==
    CASE band = "CRITICAL" -> MaxPenalty[metric]
      [] band = "ELEVATED" -> HalfPenalty[metric]
      [] OTHER -> 0

\* compute_score, of the bands of the metrics there are.
ScoreOf(bands) ==
    LET Lost(m) == IF m \in DOMAIN bands THEN Penalty(m, bands[m]) ELSE 0
    IN  Greatest({0, 100 - (Lost("cpu") + Lost("memory") + Lost("storage") + Lost("process")
                            + Lost("battery"))})

-----------------------------------------------------------------------------
(* Trends (trend.py). *)

MinTrendSamples == 4
StableThreshold == 2

\* classify_trend; the means of the halves are compared as products.
ClassifyTrend(values, higherIsWorse, reference) ==
    LET n == Len(values)
        half == n \div 2
        first == SumOf(values, 1 .. half)
        second == SumOf(values, half + 1 .. n)
        delta == second * half - first * (n - half)
        worsening == IF higherIsWorse THEN delta > 0 ELSE delta < 0
    IN  IF n < MinTrendSamples THEN "INSUFFICIENT_DATA"
        ELSE IF Magnitude(delta) <= StableThreshold * half * (n - half) THEN "STABLE"
        ELSE IF worsening THEN "DEGRADING"
        ELSE IF reference # Absent /\ values[n] >= reference THEN "RECOVERING"
        ELSE "IMPROVING"

-----------------------------------------------------------------------------
(* Contributors (contributors.py): apps are [package, at, cpu, memory],    *)
(* at being the place in the snapshot.                                     *)

Share(x) == IF x = Absent THEN 0 ELSE x
Load(app) == Share(app.cpu) + Share(app.memory)

\* _relevant_metric: of several other pressures, whichever the set yields.
RelevantMetrics(pressure, app) ==
    IF "memory" \in pressure /\ app.memory # Absent THEN {"memory"}
    ELSE IF "cpu" \in pressure /\ app.cpu # Absent THEN {"cpu"}
    ELSE IF "process" \in pressure \/ pressure = {} THEN {"process"}
    ELSE pressure

MaxContributors == 5

HeavierApp(a, b) == Load(a) > Load(b) \/ (Load(a) = Load(b) /\ a.at < b.at)

\* rank_contributors: the place of each application that has a load to show.
RankContributors(apps, pressure) ==
    LET shown == {a \in apps : a.cpu # Absent \/ a.memory # Absent}
        Place(a) == 1 + Cardinality({b \in shown : HeavierApp(b, a)})
    IN  {[package |-> a.package, place |-> Place(a), metrics |-> RelevantMetrics(pressure, a),
          load |-> Load(a)] : a \in {b \in shown : Place(b) <= MaxContributors}}

\* correlate_contributors, of the snapshots [at, apps] recorded in an episode.
Correlate(snapshots) ==
    LET Ranks(i) == RankContributors(snapshots[i].apps, {})
        packages == UNION {{c.package : c \in Ranks(i)} : i \in DOMAIN snapshots}
        In(p, places) == {i \in DOMAIN snapshots :
                             \E c \in Ranks(i) : c.package = p /\ c.place \in places}
    IN  {[package |-> p, present |-> Cardinality(In(p, 1 .. MaxContributors)),
          top |-> Cardinality(In(p, {1})), samples |-> Len(snapshots)] : p \in packages}

-----------------------------------------------------------------------------
(* Episodes (episodes.py): samples are [at, value]. *)

\* _pressure_metric_names
PressureName(metric) == IF metric = "application" THEN "process" ELSE metric

\* _episode_samples
Within(samples, first, end) ==
    SelectSeq(samples, LAMBDA s : s.at >= first /\ (end = Absent \/ s.at <= end))

\* build_episode: the first sample at the greatest value.
Peak(samples) ==
    IF samples = <<>> THEN Absent
    ELSE LET top == Greatest({s.value : s \in Elements(samples)})
         IN  samples[Least({i \in DOMAIN samples : samples[i].value = top})]

\* build_episode: a time before the start gives none.
Duration(first, end) == IF end = Absent \/ end < first THEN Absent ELSE end - first

\* build_grouped_episode: of the primary metric, from what was recorded.
RenderEpisode(record, metric, samples, values, now, active) ==
    LET end == IF active THEN now ELSE record.ended
        baseline == BaselineOf(values)
    IN  [id |-> record.id, metric |-> metric, active |-> active,
         peak |-> Peak(Within(samples, record.began, end)),
         twiceBaseline |-> IF Sufficient(baseline) THEN baseline.twiceMedian ELSE Absent,
         duration |-> Duration(record.began, end),
         scores |-> record.scores,
         delta |-> IF record.scores.recovery = Absent THEN Absent
                   ELSE record.scores.recovery - record.scores.start]

-----------------------------------------------------------------------------
(* The comparison with earlier episodes (history_compare.py). *)

\* find_comparable
Comparable(episodes, episode) ==
    SelectSeq(episodes, LAMBDA e : /\ e # episode /\ e.metric = episode.metric
                                   /\ ~e.active /\ e.duration # Absent)

\* build_historical_comparison
CompareHistory(episode, baseline, comparable) ==
    LET durations == [i \in DOMAIN comparable |-> comparable[i].duration]
    IN  [sufficient |-> Sufficient(baseline) /\ comparable # <<>>,
         peakVsP95 |-> IF Sufficient(baseline) /\ episode.peak # Absent
                       THEN episode.peak.value - baseline.p95 ELSE Absent,
         comparable |-> Len(comparable),
         twicePrevious |-> IF comparable = <<>> THEN Absent ELSE TwiceMedian(durations)]

\* _interpret, of history_compare.py
InterpretHistory(episode, comparison) ==
    (IF comparison.peakVsP95 = Absent THEN {}
     ELSE IF comparison.peakVsP95 >= 0 THEN {"reached p95"} ELSE {"below p95"})
    \cup (IF comparison.twicePrevious = Absent \/ episode.duration = Absent THEN {}
          ELSE IF 2 * episode.duration > comparison.twicePrevious THEN {"longer"}
          ELSE IF 2 * episode.duration < comparison.twicePrevious THEN {"shorter"}
          ELSE {"as long"})

-----------------------------------------------------------------------------
(* Explanations and the summary (explanation.py, investigation.py). *)

\* _interpret, of explanation.py
Interpret(deviation, trend) ==
    IF ~deviation.sufficient THEN <<"insufficient">>
    ELSE <<IF Magnitude(deviation.twiceDelta) >= 20 THEN "substantially" ELSE "moderately",
           IF deviation.twiceDelta >= 0 THEN "above" ELSE "below", trend>>

\* build_recommendations: what to inspect, never an action.
Inspect(metric, contributors) ==
    IF contributors = {} THEN metric
    ELSE (CHOOSE c \in contributors : \A d \in contributors : c.place <= d.place).package

\* build_explanation
ExplainCondition(metric, deviation, trend, contributors) ==
    LET related == {c \in contributors : PressureName(metric) \in c.metrics}
        shown == IF related # {} THEN related ELSE {c \in contributors : c.place = 1}
    IN  [metric |-> metric, interpretation |-> Interpret(deviation, trend),
         contributors |-> shown, inspect |-> Inspect(metric, shown)]

\* build_investigation_summary
Summarize(episode, deviation, comparison, trend, top) ==
    [status |-> IF episode.active THEN "ACTIVE" ELSE "RECOVERED",
     duration |-> episode.duration,
     twicePeakVsBaseline |-> IF episode.peak = Absent \/ episode.twiceBaseline = Absent
                             THEN Absent ELSE 2 * episode.peak.value - episode.twiceBaseline,
     usage |-> IF ~deviation.sufficient THEN Absent
               ELSE IF deviation.twiceDelta >= 0 THEN "above" ELSE "below",
     trend |-> trend, historical |-> comparison,
     top |-> IF top = Absent \/ top.top = 0 THEN Absent ELSE top]

-----------------------------------------------------------------------------
(* The state of the page (orchestrator.py). *)

\* The state a pressured metric gives on its own.
PressureState(metric) ==
    CASE metric = "cpu" -> "CPU_PRESSURE" [] metric = "memory" -> "MEMORY_PRESSURE"
      [] metric = "storage" -> "STORAGE_PRESSURE" [] metric = "process" -> "PROCESS_PRESSURE"
      [] metric = "application" -> "APPLICATION_PRESSURE"

\* _overall_state; recovered is when a condition last did.
OverallState(pressured, latest, recovered, recoveringWindow) ==
    IF Cardinality(pressured) >= 2 THEN "MULTI_METRIC_PRESSURE"
    ELSE IF pressured # {} THEN PressureState(CHOOSE m \in pressured : TRUE)
    ELSE IF recovered # Absent /\ latest # Absent /\ latest - recovered <= recoveringWindow
    THEN "RECOVERING" ELSE "NORMAL"

=============================================================================
