------------------------------- MODULE PerfView -------------------------------
(***************************************************************************)
(* The performance page's view of a session (performance/orchestrator.py): *)
(* PerfSession, with the time of each sample, the scores of the episodes   *)
(* and the list of recent events, and the state, the scores and the        *)
(* episodes that view_state renders from them with the operators of        *)
(* PerfReport.                                                             *)
(***************************************************************************)
EXTENDS PerfSession, PerfReport, SequencesExt

CONSTANTS
    RecentEvents,        \* how many events are kept
    RecoveringWindow,    \* RECOVERING_WINDOW_S
    MaxDelay,            \* bound: updates between a reading and its handling
    MaxTime              \* bound: updates in one behaviour

\* What is kept of the open episode.
Opened == [began : Nat, metric : EpisodeMetric, start : Nat, low : Nat]

ASSUME ViewAssumption ==
    /\ RecentEvents \in Nat \ {0} /\ RecoveringWindow \in Nat
    /\ MaxDelay \in Nat /\ MaxTime \in Nat
    /\ Absent \notin Opened

VARIABLES
    clock,       \* the time of the handling of the latest update
    dates,       \* when the snapshots the monitor holds were read
    times,       \* when each sample of a window was recorded
    counts,      \* the process counts of the extended window: [at, value]
    opened,      \* the open episode: when it began, its primary metric, its scores
    details,     \* the same of the completed ones, and when each ended
    events,      \* _last_events: what each is about and its phase
    recoveredAt  \* _last_recovered_at

clockVars == <<clock, dates, times, counts>>
storyVars == <<opened, details, events, recoveredAt>>
viewVars == <<perfVars, clockVars, storyVars>>

MetricOrder == <<"cpu", "memory", "storage", "process">>
NoTimes == [m \in Windowed |-> <<>>]
NoDates == [k \in {"cpu", "storage"} |-> Absent]

ViewInit ==
    /\ PerfInit
    /\ clock = 0 /\ dates = NoDates
    /\ times = NoTimes /\ counts = <<>>
    /\ opened = Absent /\ details = <<>>
    /\ events = <<>> /\ recoveredAt = Absent

-----------------------------------------------------------------------------
(* The score of a tick. *)

LatestOf(samples) == IF samples = <<>> THEN Absent ELSE samples[Len(samples)]

\* _deviations_snapshot: the latest value of each metric against its thresholds.
BandsOf(windows, extended) ==
    [m \in EpisodeMetric |->
        Band(IF m = "process"
             THEN IF extended.latest = NoReading THEN Absent ELSE extended.latest
             ELSE LatestOf(windows[m]),
             Warn[m], Crit[m], TRUE)]

TickScore(windows, extended) == ScoreOf(BandsOf(windows, extended))

-----------------------------------------------------------------------------
(* What an update adds to a step of the session. *)

Tick == clock < MaxTime /\ clock' = clock + 1

\* A snapshot brings the time of its reading, some updates ago. One whose reading
\* failed, or was not due, is published again, with the time it had.
TimeOfReading(kind, now) ==
    \/ /\ now \in 0 .. clock' /\ clock' <= now + MaxDelay
       /\ dates[kind] # Absent => dates[kind] < now
       /\ dates' = [dates EXCEPT ![kind] = now]
    \/ /\ now = dates[kind] /\ UNCHANGED dates
       /\ \A m \in Windowed \cap {kind} : window[m] # <<>> => window'[m] = window[m]

\* Every other update takes the time of its handling.
TimeOfHandling(now) == now = clock' /\ UNCHANGED dates

\* The windows keep the time of each sample that was recorded, a repeated value
\* is none; of the counts every one is kept.
RecordTimes(now) ==
    times' = [m \in Windowed |->
        IF window'[m] = window[m] THEN times[m]
        ELSE LET longer == Append(times[m], now)
             IN  SubSeq(longer, Len(longer) - Len(window'[m]) + 1, Len(longer))]

RecordCount(count, now) ==
    counts' = IF count = NoReading THEN counts
              ELSE LET longer == Append(counts, [at |-> now, value |-> count])
                   IN  IF Len(longer) > WindowSize THEN Tail(longer) ELSE longer

Primary(keys) ==
    MetricOrder[Least({i \in DOMAIN MetricOrder : \E k \in keys : k.metric = MetricOrder[i]})]

\* EpisodeTracker._open_episode
Begin(started, score, now) ==
    [began |-> now, metric |-> Primary(started), start |-> score, low |-> score]

\* Mutant: the score is followed only when a condition starts.
LowestAtStarts(low, score, started) == IF started # {} /\ score < low THEN score ELSE low

\* _OpenEpisode.update_score: on every tick of the episode.
Lowest(low, score, started) == IF score < low THEN score ELSE low

\* An episode closes, even in the update that opened it.
Closing == ~episode'.open /\ (episode.open \/ EpisodeKeys(active' \ active) # {})

\* EpisodeTracker.update, the scores and the times.
FollowEpisode(now) ==
    LET started == EpisodeKeys(active' \ active)
        score == TickScore(window', processes')
        begun == IF episode.open
                 THEN [opened EXCEPT !.low = Lowest(@, score, started)]
                 ELSE Begin(started, score, now)
    IN  \/ /\ ~episode.open /\ started = {}
           /\ UNCHANGED <<opened, details>>
        \/ /\ episode.open \/ started # {}
           /\ episode'.open
           /\ opened' = begun /\ UNCHANGED details
        \/ /\ Closing
           /\ opened' = Absent
           /\ details' = Retain(Append(details,
                 [id |-> completed'[Len(completed')].id, began |-> begun.began,
                  ended |-> now, metric |-> begun.metric,
                  scores |-> [start |-> begun.start, low |-> begun.low,
                              recovery |-> score]]))

Phases(keys, phase) == SetToSeq({[about |-> k, phase |-> phase] : k \in keys})

\* _analyze: the transitions of the tick, the announcement of a closed episode
\* last; the newest RecentEvents are kept.
FollowEvents(now) ==
    LET all == events \o Phases(active' \ active, "started")
                      \o Phases(active \ active', "recovered")
                      \o (IF Closing THEN <<[about |-> [episode |-> details'[Len(details')].id],
                                            phase |-> "announced"]>> ELSE <<>>)
    IN  /\ events' = SubSeq(all, IF Len(all) > RecentEvents THEN Len(all) - RecentEvents + 1 ELSE 1,
                            Len(all))
        /\ recoveredAt' = IF active \ active' = {} THEN recoveredAt ELSE now

\* ingest, of what was recorded.
FollowUpdate(now) == RecordTimes(now) /\ FollowEpisode(now) /\ FollowEvents(now)

-----------------------------------------------------------------------------
(* The steps. *)

\* begin_session: only the windows start over.
ForgetSamples == times' = NoTimes /\ counts' = <<>> /\ UNCHANGED <<clock, dates, storyVars>>

ViewConnected ==
    /\ OnConnected
    /\ IF serial = NoSerial THEN ForgetSamples ELSE UNCHANGED <<clockVars, storyVars>>

ViewSerialReady(s) == OnSerialReady(s) /\ ForgetSamples

\* end_session; the monitor has dropped the snapshots it held.
EndStory ==
    /\ times' = NoTimes /\ counts' = <<>>
    /\ opened' = Absent /\ details' = <<>> /\ recoveredAt' = Absent
    /\ events' = <<>>
    /\ dates' = NoDates /\ UNCHANGED clock

ViewDeviceLost == OnDeviceLost /\ EndStory

\* The monitor drops them here too.
ViewConnectFailed ==
    /\ OnConnectFailed
    /\ dates' = NoDates /\ UNCHANGED <<clock, times, counts, storyVars>>

\* The count of a snapshots signal is the new latest one, or was unavailable. The
\* signal carries no cpu snapshot until one was read.
ViewSnapshots ==
    /\ OnSnapshots /\ Tick
    /\ \E now \in 0 .. clock' :
          /\ \/ TimeOfReading("cpu", now)
             \/ /\ dates["cpu"] = Absent /\ TimeOfHandling(now)
                /\ \A m \in Windowed \cap {"cpu"} : window'[m] = window[m]
          /\ \/ /\ processes'.count > processes.count /\ processes'.latest = processes.latest
                /\ RecordCount(NoReading, now)
             \/ processes' = processes /\ RecordCount(NoReading, now)
             \/ processes'.latest # NoReading /\ RecordCount(processes'.latest, now)
          /\ FollowUpdate(now)

ViewStorage ==
    /\ OnStorage /\ Tick /\ UNCHANGED counts
    /\ \E now \in 0 .. clock' : TimeOfReading("storage", now) /\ FollowUpdate(now)

ViewBackgroundApps ==
    OnBackgroundApps /\ Tick /\ UNCHANGED counts /\ TimeOfHandling(clock') /\ FollowUpdate(clock')

ViewEmptySnapshots ==
    OnEmptySnapshots /\ Tick /\ UNCHANGED counts /\ TimeOfHandling(clock') /\ FollowUpdate(clock')

ViewNext ==
    \/ ViewConnected
    \/ \E s \in Serial : ViewSerialReady(s)
    \/ ViewDeviceLost \/ ViewConnectFailed
    \/ ViewSnapshots \/ ViewStorage \/ ViewBackgroundApps \/ ViewEmptySnapshots

ViewSpec == ViewInit /\ [][ViewNext]_viewVars

-----------------------------------------------------------------------------
(* view_state *)

\* _latest_timestamp: of the first canonical window that holds a sample.
LatestTime ==
    LET held == {i \in 1 .. 3 : MetricOrder[i] \in Windowed /\ times[MetricOrder[i]] # <<>>}
    IN  IF held = {} THEN Absent ELSE LatestOf(times[MetricOrder[Least(held)]])

SamplesOf(metric) ==
    IF metric = "process" THEN counts
    ELSE [i \in DOMAIN window[metric] |-> [at |-> times[metric][i], value |-> window[metric][i]]]

ValuesOf(metric) == [i \in DOMAIN SamplesOf(metric) |-> SamplesOf(metric)[i].value]

\* _build_episodes: the open one, then the completed ones, the newest first.
OpenEpisodes ==
    IF opened = Absent THEN <<>>
    ELSE <<RenderEpisode([id |-> counter, began |-> opened.began,
                          scores |-> [start |-> opened.start, low |-> opened.low,
                                      recovery |-> Absent]],
                         opened.metric, SamplesOf(opened.metric), ValuesOf(opened.metric),
                         LatestTime, TRUE)>>

\* _render_completed_episode
Completed(record) ==
    RenderEpisode(record, record.metric, SamplesOf(record.metric), ValuesOf(record.metric),
                  Absent, FALSE)

RecentEpisodes == [i \in DOMAIN details |-> Completed(details[Len(details) + 1 - i])]

Pressured == {k.metric : k \in active}

PageState == OverallState(Pressured, LatestTime, recoveredAt, RecoveringWindow)

DeviationOf(metric) ==
    Deviation(LatestOf(ValuesOf(metric)),
              IF metric = "process" THEN Absent ELSE BaselineOf(ValuesOf(metric)),
              Warn[metric], Crit[metric], TRUE)

TrendOf(metric) == ClassifyTrend(ValuesOf(metric), TRUE, Warn[metric])

\* The comparison and the summary of the current episode.
CurrentSummary ==
    LET all == OpenEpisodes \o RecentEpisodes
        current == all[1]
        comparison == CompareHistory(current, BaselineOf(ValuesOf(current.metric)),
                                     Comparable(all, current))
    IN  IF all = <<>> THEN Absent
        ELSE Summarize(current, DeviationOf(current.metric), comparison,
                       TrendOf(current.metric), Absent)

-----------------------------------------------------------------------------
ViewTypeOK ==
    /\ PerfTypeOK
    /\ clock \in 0 .. MaxTime
    /\ dates \in [{"cpu", "storage"} -> {Absent} \cup 0 .. clock]
    /\ \A m \in Windowed : Len(times[m]) = Len(window[m])
    /\ Len(counts) <= WindowSize
    /\ (opened = Absent) <=> ~episode.open
    /\ Len(details) = Len(completed)
    /\ Len(events) <= RecentEvents
    /\ recoveredAt = Absent \/ recoveredAt \in 0 .. clock

\* The lowest score of an episode is the lowest the page has shown while the
\* episode was open, and the order of its scores is that of its story.
LowestScoreIsLowest ==
    /\ opened # Absent => /\ opened.low <= opened.start
                          /\ opened.low <= TickScore(window, processes)
    /\ \A i \in DOMAIN details :
          /\ details[i].scores.low <= details[i].scores.start
          /\ details[i].scores.low <= details[i].scores.recovery

\* In the list of recent events a condition starts, recovers, starts again: it
\* never does either twice in a row, though sessions end without recoveries.
TransitionsAlternate ==
    \A i \in DOMAIN events, j \in DOMAIN events :
        (/\ i < j /\ events[i].about = events[j].about
         /\ \A k \in i + 1 .. j - 1 : events[k].about # events[i].about)
            => events[i].phase # events[j].phase

\* The headline of the page, its episodes and its summary agree: the headline
\* names a pressure, other than that of the applications, exactly while an
\* episode is listed as active, and the summary is of that episode.
HeadlineFollowsEpisode ==
    LET pressed == PageState \notin {"NORMAL", "RECOVERING", "APPLICATION_PRESSURE"}
        summary == CurrentSummary
    IN  /\ OpenEpisodes # <<>> <=> pressed
        /\ summary # Absent => (summary.status = "ACTIVE" <=> pressed)

\* The parts of the page are computed apart, at different moments of an update,
\* from windows that skip samples and lists that are cut: they tell one story.
PageTellsOneStory ==
    /\ HeadlineFollowsEpisode
    /\ LowestScoreIsLowest
    /\ TransitionsAlternate

\* ADR 0005 lists "Non-overlap" among the rules the tracker's tests enforce: an
\* episode begins when the one before it has ended, and ends after it began.
EpisodesFollowEachOther ==
    /\ \A i \in DOMAIN details : details[i].began <= details[i].ended
    /\ \A i \in 1 .. Len(details) - 1 : details[i].ended <= details[i + 1].began
    /\ (opened # Absent /\ details # <<>>) => details[Len(details)].ended <= opened.began

\* orchestrator.py, _build_episodes: "The open episode renders with
\* ``current_time`` (duration so far)".
OpenEpisodeHasDuration ==
    \A i \in DOMAIN OpenEpisodes : OpenEpisodes[i].duration # Absent

=============================================================================
