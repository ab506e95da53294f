------------------------------ MODULE MCPerfView ------------------------------
(* The instance of PerfView that TLC checks. *)
EXTENDS PerfView, TLC

Phones == Permutations(Serial)

CpuOnly == {"cpu"}
\* Two cpu values below its thresholds, so that a full window can recover; of
\* processes one value below and one at the warning; storage is never available.
Levels == [m \in EpisodeMetric |->
    CASE m = "cpu" -> {0, 1, 3} [] m = "process" -> 0 .. 1 [] OTHER -> {}]
Warnings == [m \in EpisodeMetric |-> IF m = "process" THEN 1 ELSE 2]
Criticals == [m \in EpisodeMetric |-> IF m = "process" THEN 2 ELSE 3]

-----------------------------------------------------------------------------
(* The pure algorithms, against reference definitions. *)

Windows == UNION {[1 .. n -> 0 .. 3] : n \in 1 .. 5}
Sorted(values) == SortSeq(values, <)

\* The order statistics are those of the sorted window.
ASSUME MedianIsMiddle ==
    \A values \in Windows :
        LET n == Len(values)
        IN  /\ TwiceMedian(values) =
                  Sorted(values)[(n + 1) \div 2] + Sorted(values)[(n + 2) \div 2]
            /\ P95(values) = Sorted(values)[n]

\* The score never leaves 0 .. 100 and no better band lowers it.
ScoredBands == [{"cpu", "memory", "storage", "process", "battery"} -> Bands]
Worse(b, c) == b = c \/ c = "CRITICAL" \/ (c = "ELEVATED" /\ b # "CRITICAL") \/ {b, c} = {"UNKNOWN", "NORMAL"}
ASSUME ScoreIsMonotone ==
    /\ \A bands \in ScoredBands : ScoreOf(bands) \in 0 .. 100
    /\ \A bands \in ScoredBands, m \in {"cpu", "battery"}, b \in Bands :
          Worse(bands[m], b) => ScoreOf([bands EXCEPT ![m] = b]) <= ScoreOf(bands)

App(package, at, cpu, memory) == [package |-> package, at |-> at, cpu |-> cpu, memory |-> memory]
Loads == {Absent, 0, 5}
TwoApps == {{App("a", 1, c, m), App("b", 2, d, 1)} : c \in Loads, m \in Loads, d \in Loads}

\* No application is on top, or present, more often than there were samples; one
\* is on top of every sample that shows one.
ASSUME CorrelationCounts ==
    \A first \in TwoApps, second \in TwoApps \cup {{}} :
        LET found == Correlate(<<[at |-> 1, apps |-> first], [at |-> 2, apps |-> second]>>)
        IN  /\ \A c \in found : c.top <= c.present /\ c.present <= c.samples
            /\ \A c, d \in found : c # d => c.top + d.top <= c.samples

\* An explanation names a contributor whenever there is one.
ASSUME ExplanationNamesCulprit ==
    \A apps \in TwoApps, metric \in {"cpu", "memory", "storage", "application"} :
        LET ranked == RankContributors(apps, {metric})
            deviation == Deviation(5, BaselineOf(<<1, 2>>), 4, 6, TRUE)
            told == ExplainCondition(metric, deviation, "STABLE", ranked)
        IN  ranked # {} => /\ told.contributors # {}
                           /\ told.inspect \in {c.package : c \in ranked}

\* The comparison of durations says one thing, that of the peak another.
ASSUME HistoryIsSaidOnce ==
    \A duration \in {Absent} \cup 0 .. 3, previous \in 0 .. 3, peak \in 0 .. 3 :
        LET current == [metric |-> "cpu", active |-> FALSE, duration |-> duration,
                        peak |-> [at |-> 1, value |-> peak]]
            earlier == <<[current EXCEPT !.duration = previous]>>
            told == InterpretHistory(current,
                        CompareHistory(current, BaselineOf(<<1, 2>>), earlier))
        IN  /\ ("reached p95" \in told) = (peak >= 2)
            /\ ("longer" \in told) = (duration # Absent /\ duration > previous)
            /\ Cardinality(told) = (IF duration = Absent THEN 1 ELSE 2)

=============================================================================
