---------------------------- MODULE PerfSession ----------------------------
(***************************************************************************)
(* The live performance session on the GUI thread: PerformanceIntegration  *)
(* passes the monitor's signals, in the order the monitor emits them, to   *)
(* the PerformanceOrchestrator, which records them in bounded windows,     *)
(* analyses the windows, tracks the conditions found (ConditionTracker)    *)
(* and groups the conditions into episodes (EpisodeTracker).               *)
(***************************************************************************)
EXTENDS Naturals, Sequences, FiniteSets

CONSTANTS
    Serial, NoSerial,    \* device serials; no serial
    Sampled,             \* the metrics of a snapshots signal that fill a window
    Reading, NoReading,  \* the values of each metric; a value that is unavailable
    Warn, Crit,          \* the thresholds of each metric
    Package,             \* application packages
    NoApps,              \* no application snapshot, or one without entries
    MinSamples,          \* samples a finding needs
    WindowSize,          \* CPU_MAX_SAMPLES and its siblings
    Retention,           \* EPISODE_RETENTION
    MaxEpisodes          \* bound: episodes opened in one session

Windowed == Sampled \cup {"storage"}
EpisodeMetric == Windowed \cup {"process"}
Level == {"warning", "critical"}

ASSUME PerfAssumption ==
    /\ NoSerial \notin Serial
    /\ Reading \in [EpisodeMetric -> SUBSET Nat] /\ NoReading \notin Nat
    /\ Sampled \subseteq {"cpu", "memory"}
    /\ Warn \in [EpisodeMetric -> Nat] /\ Crit \in [EpisodeMetric -> Nat]
    /\ NoApps \notin Package
    /\ MinSamples \in Nat \ {0} /\ WindowSize \in Nat \ {0}
    /\ Retention \in Nat \ {0} /\ MaxEpisodes \in Nat

VARIABLES
    link,        \* where the monitor's signals stand
    serial,      \* session.device_serial
    window,      \* the samples of each metric, oldest first
    processes,   \* the extended window: its length, and the latest count
    sources,     \* auxiliary: the serials the samples were recorded under
    background,  \* orchestrator._background_apps: its first package
    active,      \* tracker._active: the keys of the active conditions
    counter,     \* episodes._counter
    episode,     \* episodes._open
    completed    \* episodes._completed, oldest first

sessionVars == <<serial, window, processes, sources>>
episodeVars == <<counter, episode, completed>>
perfVars == <<link, sessionVars, background, active, episodeVars>>

-----------------------------------------------------------------------------
(* Conditions and episodes. *)

MaybeSerial == Serial \cup {NoSerial}
MaybeReading(m) == Reading[m] \cup {NoReading}

\* A condition's key: "cpu:warning", "app:com.example".
MetricKey == [metric : EpisodeMetric, level : Level]
AppKey == [metric : {"application"}, level : Package]
Key == MetricKey \cup AppKey

\* The conditions that can form or hold an episode.
EpisodeKeys(keys) == {k \in keys : k.metric \in EpisodeMetric}

Worst(keys) ==
    IF \E k \in keys : k.level = "critical" THEN "critical" ELSE "warning"

NoEpisode == [open |-> FALSE]
OpenEpisode == [open : {TRUE}, id : Nat, held : SUBSET MetricKey,
                seen : SUBSET MetricKey, severity : Level]
EpisodeRecord == [id : Nat, seen : SUBSET MetricKey, severity : Level]

EmptyWindows == [m \in Windowed |-> <<>>]
NoProcesses == [count |-> 0, latest |-> NoReading]

PerfTypeOK ==
    /\ link \in {"down", "opening", "live", "lost"}
    /\ serial \in MaybeSerial
    /\ window \in [Windowed -> Seq(Nat)]
    /\ \A m \in Windowed : Len(window[m]) <= WindowSize
    /\ processes \in [count : 0 .. WindowSize, latest : MaybeReading("process")]
    /\ sources \subseteq MaybeSerial
    /\ background \in Package \cup {NoApps}
    /\ active \in SUBSET Key
    /\ counter \in Nat
    /\ episode \in OpenEpisode \cup {NoEpisode}
    /\ completed \in Seq(EpisodeRecord)

PerfInit ==
    /\ link = "down"
    /\ serial = NoSerial
    /\ window = EmptyWindows
    /\ processes = NoProcesses
    /\ sources = {}
    /\ background = NoApps
    /\ active = {}
    /\ counter = 0
    /\ episode = NoEpisode
    /\ completed = <<>>

-----------------------------------------------------------------------------
(* The lifecycle of a session. *)

\* Mutant: the windows survive a restart under another serial.
BeginKeepingWindows(s) ==
    /\ serial' = s
    /\ UNCHANGED <<window, processes, sources>>

\* PerformanceSession.begin_session: only the windows start over.
BeginSession(s) ==
    /\ serial' = s
    /\ window' = EmptyWindows
    /\ processes' = NoProcesses
    /\ sources' = {}

\* PerformanceOrchestrator.end_session: the background snapshot is kept.
EndSession ==
    /\ BeginSession(NoSerial)
    /\ active' = {}
    /\ counter' = 0
    /\ episode' = NoEpisode
    /\ completed' = <<>>
    /\ UNCHANGED background

\* on_connection_changed(CONNECTED), ahead of the serial_ready of a connect.
OnConnected ==
    /\ link \in {"down", "live"}
    /\ link' = "opening"
    /\ IF serial = NoSerial THEN BeginSession(NoSerial) ELSE UNCHANGED sessionVars
    /\ UNCHANGED <<background, active, episodeVars>>

OnSerialReady(s) ==
    /\ link = "opening"
    /\ link' = "live"
    /\ BeginSession(s)
    /\ UNCHANGED <<background, active, episodeVars>>

\* on_connection_changed(a device-loss state): by a tick, which publishes an
\* empty snapshot next, or by a connect that fails.
OnDeviceLost ==
    /\ link \in {"down", "live"}
    /\ link' \in IF link = "live" THEN {"lost", "down"} ELSE {"down"}
    /\ EndSession

\* A reconnect that fails with TIMEOUT, ADB_MISSING or MULTIPLE_DEVICES.
OnConnectFailed ==
    /\ link = "live"
    /\ link' = "down"
    /\ UNCHANGED <<sessionVars, background, active, episodeVars>>

-----------------------------------------------------------------------------
(* PerformanceOrchestrator.ingest. *)

\* MetricHistory.add_sample: unavailable and repeated values are skipped, the
\* oldest sample makes room for the newest.
AddSample(samples, r) ==
    IF r = NoReading \/ (samples # <<>> /\ samples[Len(samples)] = r) THEN samples
    ELSE IF Len(samples) < WindowSize THEN Append(samples, r)
    ELSE Append(Tail(samples), r)

\* PerformanceSession.record; the extended window grows by a network sample
\* even when the process count is unavailable.
Record(readings, count, network) ==
    /\ window' = [m \in Windowed |->
          IF m \in DOMAIN readings THEN AddSample(window[m], readings[m]) ELSE window[m]]
    /\ processes' =
          [count  |-> IF (count # NoReading \/ network) /\ processes.count < WindowSize
                      THEN processes.count + 1 ELSE processes.count,
           latest |-> IF count # NoReading THEN count ELSE processes.latest]
    /\ sources' = IF window' = window /\ processes' = processes
                  THEN sources ELSE sources \cup {serial}
    /\ UNCHANGED serial

\* The one finding of a metric that reaches its thresholds, if it has samples enough.
Findings(m, enough, critical, elevated) ==
    {[metric |-> m, level |-> l] : l \in
        IF ~enough THEN {}
        ELSE IF critical THEN {"critical"}
        ELSE IF elevated THEN {"warning"} ELSE {}}

\* _analyze_metric: any sample of the window at a threshold is a finding.
MetricConditions(m, samples) ==
    LET High(limit) == \E i \in DOMAIN samples : samples[i] >= limit
    IN  Findings(m, Len(samples) >= MinSamples, High(Crit[m]), High(Warn[m]))

\* analyze_process_pressure: only the latest count is compared.
ProcessConditions(extended) ==
    Findings("process", extended.count >= MinSamples /\ extended.latest # NoReading,
             extended.latest >= Crit["process"], extended.latest >= Warn["process"])

\* Application pressure is a finding whenever an application is listed.
AppConditions(top) ==
    {[metric |-> "application", level |-> p] : p \in {top} \ {NoApps}}

Conditions(windows, extended, top) ==
    (UNION {MetricConditions(m, windows[m]) : m \in Windowed})
        \cup ProcessConditions(extended) \cup AppConditions(top)

\* Mutant: an escalation does not raise the severity of the open episode.
AbsorbKeepingSeverity(started) ==
    IF started = {} THEN episode
    ELSE IF episode.open
    THEN [episode EXCEPT !.held = @ \cup started, !.seen = @ \cup started]
    ELSE [open |-> TRUE, id |-> counter + 1, held |-> started, seen |-> started,
          severity |-> Worst(started)]

\* The first condition started opens an episode, the others are absorbed.
Absorb(started) ==
    IF started = {} THEN episode
    ELSE IF episode.open
    THEN [episode EXCEPT !.held = @ \cup started, !.seen = @ \cup started,
                         !.severity = IF Worst(started) = "critical" THEN "critical" ELSE @]
    ELSE [open |-> TRUE, id |-> counter + 1, held |-> started, seen |-> started,
          severity |-> Worst(started)]

\* Mutant: the list is cut at its new end.
RetainOldest(records) ==
    IF Len(records) > Retention THEN SubSeq(records, 1, Retention) ELSE records

\* The newest Retention records.
Retain(records) == IF Len(records) > Retention THEN Tail(records) ELSE records

\* Mutant: recoveries are applied before starts, so an escalation closes.
UpdateEpisodesRecoverFirst(started, recovered) ==
    LET left == IF episode.open THEN episode.held \ recovered ELSE {}
        closes == episode.open /\ left = {}
    IN  /\ counter' = IF (closes \/ ~episode.open) /\ started # {}
                      THEN counter + 1 ELSE counter
        /\ completed' = IF closes
                        THEN Retain(Append(completed, [id |-> episode.id,
                                 seen |-> episode.seen, severity |-> episode.severity]))
                        ELSE completed
        /\ episode' = IF closes \/ ~episode.open
                      THEN IF started = {} THEN NoEpisode
                           ELSE [open |-> TRUE, id |-> counter + 1, held |-> started,
                                 seen |-> started, severity |-> Worst(started)]
                      ELSE [Absorb(started) EXCEPT !.held = @ \ recovered]

\* EpisodeTracker.update: starts are absorbed before recoveries are released;
\* an episode that holds nothing any more is closed and retained.
UpdateEpisodes(started, recovered) ==
    LET absorbed == Absorb(started)
    IN  /\ counter' = IF ~episode.open /\ started # {} THEN counter + 1 ELSE counter
        /\ episode' = IF absorbed.open /\ absorbed.held \ recovered # {}
                      THEN [absorbed EXCEPT !.held = @ \ recovered] ELSE NoEpisode
        /\ completed' = IF absorbed.open /\ ~episode'.open
                        THEN Retain(Append(completed, [id |-> absorbed.id,
                                 seen |-> absorbed.seen, severity |-> absorbed.severity]))
                        ELSE completed

\* Mutant: the tracker forgets to drop what has recovered from the episodes'
\* input, so the episode keeps holding it.
AnalyzeWithoutRecovery ==
    /\ active' = Conditions(window', processes', background')
    /\ UpdateEpisodes(EpisodeKeys(active' \ active), {})
    /\ counter' <= MaxEpisodes

\* _analyze: ConditionTracker.update, then the episodes with the conditions
\* that started and recovered.  The throttled ACTIVE events change nothing.
Analyze ==
    /\ active' = Conditions(window', processes', background')
    /\ UpdateEpisodes(EpisodeKeys(active' \ active), EpisodeKeys(active \ active'))
    /\ counter' <= MaxEpisodes

\* on_snapshots of a tick.
OnSnapshots ==
    /\ link = "live"
    /\ \E readings \in [Sampled -> UNION {MaybeReading(m) : m \in Sampled}],
          count \in MaybeReading("process"), network \in BOOLEAN :
          /\ \A m \in Sampled : readings[m] \in MaybeReading(m)
          /\ Record(readings, count, network)
    /\ UNCHANGED <<link, background>>
    /\ Analyze

\* on_storage: a tick publishes the storage snapshot only when there is one.
OnStorage ==
    /\ link = "live"
    /\ \E r \in MaybeReading("storage") : Record([m \in {"storage"} |-> r], NoReading, FALSE)
    /\ UNCHANGED <<link, background>>
    /\ Analyze

\* on_background_apps: built by the window while it is connected.
OnBackgroundApps ==
    /\ link = "live"
    /\ background' \in Package \cup {NoApps}
    /\ UNCHANGED <<link, sessionVars>>
    /\ Analyze

\* on_snapshots(None, None, None, None, None): how a tick ends a lost session.
OnEmptySnapshots ==
    /\ link = "lost"
    /\ link' = "down"
    /\ UNCHANGED <<sessionVars, background>>
    /\ Analyze

PerfNext ==
    \/ OnConnected
    \/ \E s \in Serial : OnSerialReady(s)
    \/ OnDeviceLost
    \/ OnConnectFailed
    \/ OnSnapshots
    \/ OnStorage
    \/ OnBackgroundApps
    \/ OnEmptySnapshots

PerfSpec == PerfInit /\ [][PerfNext]_perfVars

-----------------------------------------------------------------------------
\* The open episode holds exactly the conditions the tracker has active, and
\* there is one exactly while such a condition is active: the two trackers,
\* which see each other only through started and recovered lists, never drift.
EpisodeHoldsConditions ==
    /\ episode.open <=> EpisodeKeys(active) # {}
    /\ episode.open => episode.held = EpisodeKeys(active)

\* An episode, open or completed, is as severe as the worst condition it has
\* seen, through every escalation and partial recovery.
SeverityIsWorstSeen ==
    /\ episode.open => episode.severity = Worst(episode.seen)
    /\ \A i \in DOMAIN completed : completed[i].severity = Worst(completed[i].seen)

\* Every episode opened in the session is listed once: the completed ones are
\* the newest, without a gap, up to the open one.
EpisodesAccountedFor ==
    /\ Len(completed) <= Retention
    /\ \A i \in DOMAIN completed :
         completed[i].id + (Len(completed) - i) = counter - (IF episode.open THEN 1 ELSE 0)
    /\ episode.open => episode.id = counter
    /\ Len(completed) < Retention => completed = <<>> \/ completed[1].id = 1

\* The windows never mix the samples of two phones.
WindowsOfOnePhone == sources \subseteq {serial}

\* No episode is open while no session is.
NoEpisodeWithoutSession == serial = NoSerial => ~episode.open

\* A condition that worsens, or gives way to another of the same tick, never
\* closes the episode: only end_session or a tick free of conditions does.
EscalationKeepsEpisode ==
    [][episode.open /\ EpisodeKeys(active') # {}
           => episode'.open /\ episode'.id = episode.id]_perfVars

\* A lost device leaves no live condition behind once its tick is over
\* (on_connection_changed: "close the live session so no stale state survives").
NothingActiveAfterLoss == serial = NoSerial => active = {}

=============================================================================
