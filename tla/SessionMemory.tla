--------------------------- MODULE SessionMemory ----------------------------
(***************************************************************************)
(* What a session remembers: the bounded window of samples kept of each    *)
(* metric and what is computed from it (history/metrics.py, session.py), the *)
(* alerting rules over these windows (rules/engine.py) and the log of the  *)
(* session's events (timeline/engine.py).  A sample also carries, for the  *)
(* properties, the phone its value was read from.                          *)
(***************************************************************************)
EXTENDS Thresholds, Sequences, FiniteSets, Folds

Sample(value, at, phone) == [value |-> value, at |-> at, phone |-> phone]

LastOf(samples) == samples[Len(samples)]

\* MetricHistory.add_sample: unavailable and repeated values are not recorded,
\* the oldest sample makes room for the newest.
AddSample(samples, sample, maximum) ==
    IF sample.value = None \/ (samples # <<>> /\ LastOf(samples).value = sample.value)
    THEN samples
    ELSE Append(IF Len(samples) < maximum THEN samples ELSE Tail(samples), sample)

\* resize: the newest samples are kept.
Resize(samples, maximum) ==
    IF Len(samples) <= maximum THEN samples
    ELSE SubSeq(samples, Len(samples) - maximum + 1, Len(samples))

-----------------------------------------------------------------------------
(* How long a condition has held. *)

\* sustained_while: the latest sample from which the condition, which the samples
\* in holding meet, has held for the duration, walking back from the newest one;
\* no single sample is enough.
SustainedWhile(samples, holding, duration) ==
    LET last == Len(samples)
        reached == {i \in DOMAIN samples :
                       /\ i .. last \subseteq holding
                       /\ samples[last].at - samples[i].at >= duration}
    IN  IF last < 2 \/ reached = {} THEN None
        ELSE samples[CHOOSE i \in reached : \A j \in reached : j <= i].at

-----------------------------------------------------------------------------
(* Statistics. *)

Total(values) ==
    MapThenFoldSet(LAMBDA x, y : x + y, 0, LAMBDA i : values[i],
                   LAMBDA S : CHOOSE i \in S : TRUE, DOMAIN values)

Values(samples) == [i \in DOMAIN samples |-> samples[i].value]

MinTrendSamples == 4

\* _trend: the mean of the newer half against the mean of the older half; the
\* means are compared as fractions of a common denominator.
Trend(samples) ==
    LET count == Len(samples)
        split == count \div 2
        older == Total(Values(SubSeq(samples, 1, split))) * (count - split)
        recent == Total(Values(SubSeq(samples, split + 1, count))) * split
    IN  IF count < MinTrendSamples THEN "insufficient"
        ELSE IF older = 0 THEN IF recent = 0 THEN "flat" ELSE "rising"
        ELSE IF 100 * (recent - older) > older THEN "rising"
        ELSE IF 100 * (older - recent) > older THEN "falling" ELSE "flat"

\* peak_periods: the maximal runs at or above a threshold, of a minimal length.
PeakRuns(samples, threshold, minimum) ==
    LET High(i) == i \in DOMAIN samples /\ samples[i].value >= threshold
    IN  {run \in (DOMAIN samples) \X (DOMAIN samples) :
            /\ run[2] - run[1] + 1 >= minimum
            /\ \A i \in run[1] .. run[2] : High(i)
            /\ ~High(run[1] - 1) /\ ~High(run[2] + 1)}

-----------------------------------------------------------------------------
(* Rules: a rule is [id, metric, op, threshold, duration, cooldown], duration *)
(* None when the newest sample alone decides.                              *)

CONSTANT Never   \* a rule that has not fired in this session

ASSUME NeverAssumption == Never \notin Int

Operator == {">=", ">", "<=", "<", "=="}

\* _compare.
Compare(op, value, threshold) ==
    CASE op = ">=" -> value >= threshold
      [] op = ">"  -> value > threshold
      [] op = "<=" -> value <= threshold
      [] op = "<"  -> value < threshold
      [] op = "==" -> value = threshold

\* Mutant: only the ends of the run are looked at.
SatisfiedByEnds(rule, samples) ==
    LET last == Len(samples)
        Holds(i) == Compare(rule.op, samples[i].value, rule.threshold)
    IN  IF rule.duration # None
        THEN IF last > 1 /\ Holds(last) /\ Holds(1)
                /\ samples[last].at - samples[1].at >= rule.duration
             THEN samples[1].at ELSE None
        ELSE IF samples = <<>> THEN None
        ELSE IF Holds(last) THEN samples[last].at ELSE None

\* _satisfied: since when the rule's condition holds, None when it does not.
Satisfied(rule, samples) ==
    LET holding == {i \in DOMAIN samples : Compare(rule.op, samples[i].value, rule.threshold)}
    IN  IF rule.duration # None THEN SustainedWhile(samples, holding, rule.duration)
        ELSE IF Len(samples) \in holding THEN LastOf(samples).at ELSE None

Cooled(rule, fired, now) ==
    fired[rule.id] = Never \/ now - fired[rule.id] >= rule.cooldown

\* evaluate: the places of the rules that fire, in the order of registration.
Evaluate(rules, fired, windows, now) ==
    {i \in DOMAIN rules : /\ Cooled(rules[i], fired, now)
                          /\ Satisfied(rules[i], windows[rules[i].metric]) # None}

\* last_fired_at after an evaluation.
FiredAfter(rules, firing, fired, now) ==
    [id \in DOMAIN fired |->
        IF \E i \in firing : rules[i].id = id THEN now ELSE fired[id]]

-----------------------------------------------------------------------------
(* The timeline: the bounded log of events, with the state last recorded for *)
(* each kind of transition.                                                *)

CONSTANTS
    Unset,       \* no state recorded yet
    MaxEvents    \* DEFAULT_MAX_EVENTS

ASSUME EventsAssumption == MaxEvents \in Nat \ {0}

EmptyTimeline == [events |-> <<>>, connection |-> Unset, health |-> Unset]

\* The newest MaxEvents of a log.
Newest(events) ==
    IF Len(events) <= MaxEvents THEN events
    ELSE SubSeq(events, Len(events) - MaxEvents + 1, Len(events))

\* record, once per event: the oldest events make room for the newest.
RecordEvents(timeline, events) ==
    [timeline EXCEPT !.events = Newest(@ \o events)]

RecordEvent(timeline, event) == RecordEvents(timeline, <<event>>)

\* The same event, once for each of some items.
RecordForEach(timeline, event, items) ==
    RecordEvents(timeline, [i \in 1 .. Cardinality(items) |-> event])

\* record_transition: an event only when the state differs from the one last
\* recorded under the same key.
RecordTransition(timeline, key, value, event) ==
    IF timeline[key] = value THEN timeline
    ELSE RecordEvent([timeline EXCEPT ![key] = value], event)

\* begin_session: nothing of an earlier session is left.
BeginTimeline(event) == RecordEvent(EmptyTimeline, event)

=============================================================================
