------------------------ MODULE SessionIntelligence -------------------------
(***************************************************************************)
(* The intelligence engines of the window (gui/main_window.py), fed on the *)
(* GUI thread by the monitor's signals in the order the monitor emits      *)
(* them: the mirrors of the latest snapshots, the session's history, the   *)
(* rules, the timeline, the health of the phone and the recommendations.   *)
(* The readings of a signal are taken to be those of the phone the session *)
(* was announced for: MonitorWorker says when that is so.                  *)
(***************************************************************************)
EXTENDS SessionMemory, DeviceHealth

CONSTANTS
    Serial, NoSerial,     \* device serials; no serial
    Snapshots,            \* what a snapshots signal may carry
    StorageReadings,      \* what a storage signal may carry
    Rules,                \* the registered rules, a sequence
    Retention,            \* how many samples the window of a metric holds
    Packages,             \* the package lists a reading may return
    MaxLag,               \* bound: the age of a CPU sample when it is handled
    MaxTime               \* bound: the clock

Metric == {"cpu", "memory", "battery", "storage"}
SnapshotField == {"cpu", "memory", "battery", "processes", "network"}
Field == SnapshotField \cup {"storage"}
RuleId == {Rules[i].id : i \in DOMAIN Rules}

ASSUME IntelligenceAssumption ==
    /\ NoSerial \notin Serial
    /\ \A s \in Snapshots : DOMAIN s = SnapshotField
    /\ Retention \in [Metric -> Nat \ {0}]
    /\ Rules \in Seq({Rules[i] : i \in DOMAIN Rules})
    /\ \A i \in DOMAIN Rules : Rules[i].metric \in Metric /\ Rules[i].op \in Operator
    /\ \A i, j \in DOMAIN Rules : Rules[i].id = Rules[j].id => i = j
    /\ MaxLag \in Nat /\ MaxTime \in Nat

VARIABLES
    now,         \* time.monotonic()
    link,        \* where the monitor's signals stand
    state,       \* MainWindow._connection_state
    serial,      \* MainWindow._device_serial
    mirror,      \* the _latest_* mirrors
    owner,       \* auxiliary: the phone each mirror was read from
    verified,    \* _verified_packages
    users,       \* _user_packages; whether there is an inventory at all
    inventory,
    history,     \* _session_history
    fired,       \* _rules: when each rule last fired
    fires,       \* _rule_fires, by the place of the rule
    timeline,    \* _timeline
    health,      \* _health, by its status
    recs,        \* _recommendations
    carried,     \* auxiliary: the session followed another with no loss in between
    steady       \* auxiliary: how many samples were added since each rule's condition
                 \* last failed, counted up to the size of the window

mirrorVars == <<mirror, owner>>
packageVars == <<verified, users, inventory>>
engineVars == <<history, fired, fires, timeline, health, recs, steady>>
intelligenceVars ==
    <<now, link, state, serial, mirrorVars, packageVars, engineVars, carried>>

\* One state stands for those that mean the phone is lost, one for the others
\* (TIMEOUT, COLLECTOR_ERROR, ADB_MISSING, MULTIPLE_DEVICES).
LossState == {"LOST"}
KeptState == {"FAILED"}
MaybeSerial == Serial \cup {NoSerial}

Event(type, phone) == [type |-> type, phone |-> phone]

NoMirrors == [f \in Field |-> None]
NoOwners == [f \in Field |-> NoSerial]
EmptyHistory == [m \in Metric |-> <<>>]
NothingFired == [r \in RuleId |-> Never]

IntelligenceInit ==
    /\ now = 0
    /\ link = "down"
    /\ state = "none"
    /\ serial = NoSerial
    /\ mirror = NoMirrors /\ owner = NoOwners
    /\ verified = {} /\ users = {} /\ inventory = FALSE
    /\ history = EmptyHistory
    /\ fired = NothingFired /\ fires = <<>>
    /\ timeline = EmptyTimeline
    /\ health = None
    /\ recs = <<>>
    /\ carried = FALSE
    /\ steady = [i \in DOMAIN Rules |-> 0]

-----------------------------------------------------------------------------
(* Recording and evaluation. *)

\* What the history records of the mirrors.
ReadingOf(mirrors, m) ==
    IF m = "battery"
    THEN IF mirrors.battery = None THEN None ELSE mirrors.battery.level
    ELSE mirrors[m]

\* _record_metric_samples: one sample per metric, from the mirrors.
RecordSamples(at) ==
    /\ history' = [m \in Metric |->
          AddSample(history[m], Sample(ReadingOf(mirror', m), at, owner'[m]), Retention[m])]
    /\ steady' = [i \in DOMAIN Rules |->
          LET metric == Rules[i].metric
              reading == ReadingOf(mirror', metric)
          IN  IF reading # None /\ ~Compare(Rules[i].op, reading, Rules[i].threshold) THEN 0
              ELSE IF history'[metric] # history[metric] /\ steady[i] < Retention[metric]
              THEN steady[i] + 1 ELSE steady[i]]

\* _evaluate_health: the first status of a session is not a transition.
HealthTransition(log, status) ==
    IF health # None /\ health # status
    THEN RecordTransition(log, "health", status, Event("health", serial))
    ELSE log

\* _evaluate_intelligence while the phone is not connected.
EvaluateDisconnected(log) ==
    /\ health' = None
    /\ recs' = <<>>
    /\ fires' = <<>>
    /\ timeline' = log
    /\ UNCHANGED fired

\* _evaluate_intelligence: rules, then health, then recommendations, each
\* leaving its events on the timeline, which holds no more than MaxEvents of
\* the advice.
EvaluateConnected(log) ==
    LET device == EvaluateHealth([f \in Field \cup {"inventory"} |->
                                     IF f = "inventory" THEN inventory' ELSE mirror'[f]])
    IN  /\ fires' = [i \in Evaluate(Rules, fired, history', now) |->
              [id |-> Rules[i].id, value |-> LastOf(history'[Rules[i].metric]).value,
               since |-> Satisfied(Rules[i], history'[Rules[i].metric])]]
        /\ fired' = FiredAfter(Rules, DOMAIN fires', fired, now)
        /\ health' = device.status
        /\ recs' = Recommend(device.findings, mirror'.processes, verified', users')
        /\ LET withRules == RecordForEach(log, Event("rule", serial), DOMAIN fires')
               withHealth == HealthTransition(withRules, health')
           IN  timeline' = IF recs' = recs THEN withHealth
                           ELSE RecordForEach(withHealth, Event("advice", serial),
                                              DOMAIN recs' \cap 1 .. MaxEvents)

\* Mutant: the engines run whether or not a phone is connected.
EvaluateAlways(log) == EvaluateConnected(log)

EvaluateIntelligence(log) ==
    IF state' = "CONNECTED" THEN EvaluateConnected(log) ELSE EvaluateDisconnected(log)

-----------------------------------------------------------------------------
(* Connection signals. *)

ConnectedEvent(log) ==
    RecordTransition(log, "connection", "connected", Event("connected", serial))

\* update_connection(CONNECTED), ahead of the serial_ready of a connect.
OnConnected ==
    /\ link \in {"down", "live", "sampled"}
    /\ link' = "opening"
    /\ state' = "CONNECTED"
    /\ timeline' = ConnectedEvent(timeline)
    /\ UNCHANGED <<now, serial, mirrorVars, packageVars, history, fired, fires,
                   health, recs, carried, steady>>

\* Mutant: the timeline of the session before is continued.
BeginSessionContinued(s) ==
    /\ serial' = s
    /\ history' = EmptyHistory /\ steady' = [i \in DOMAIN Rules |-> 0]
    /\ fired' = NothingFired
    /\ timeline' = RecordEvent(timeline, Event("session", s))

\* The engines' begin_session.
BeginSession(s) ==
    /\ serial' = s
    /\ history' = EmptyHistory /\ steady' = [i \in DOMAIN Rules |-> 0]
    /\ fired' = NothingFired
    /\ timeline' = BeginTimeline(Event("session", s))

\* on_serial_ready; the mirrors and the last evaluation stay as they are.
OnSerialReady(s) ==
    /\ link = "opening"
    /\ link' = "live"
    /\ BeginSession(s)
    /\ carried' = (serial # NoSerial)
    /\ UNCHANGED <<now, state, mirrorVars, packageVars, fires, health, recs>>

\* update_connection(CONNECTED or a transient error) ahead of a tick's snapshots.
OnTickState(s) ==
    /\ link \in {"live", "sampled"}
    /\ link' = "ticking"
    /\ state' = s
    /\ timeline' = IF s = "CONNECTED" THEN ConnectedEvent(timeline) ELSE timeline
    /\ UNCHANGED <<now, serial, mirrorVars, packageVars, history, fired, fires,
                   health, recs, carried, steady>>

\* Mutant: the mirrors survive the loss of the phone.
ClearWindowPartly ==
    /\ UNCHANGED <<mirror, owner>>
    /\ verified' = {} /\ users' = {} /\ inventory' = FALSE
    /\ health' = None /\ recs' = <<>> /\ fires' = <<>>
    /\ serial' = NoSerial

\* What update_connection clears when the phone is lost.
ClearWindow ==
    /\ mirror' = NoMirrors /\ owner' = NoOwners
    /\ verified' = {} /\ users' = {} /\ inventory' = FALSE
    /\ health' = None /\ recs' = <<>> /\ fires' = <<>>
    /\ serial' = NoSerial

\* update_connection(a loss state): a tick goes on to publish an empty
\* snapshot, a failed connect does not.
OnDeviceLost ==
    /\ link \in {"down", "live", "sampled"}
    /\ link' \in IF link = "down" THEN {"down"} ELSE {"lost", "down"}
    /\ state' \in LossState
    /\ ClearWindow
    /\ timeline' = RecordTransition(timeline, "connection", "disconnected",
                                    Event("disconnected", NoSerial))
    /\ carried' = FALSE
    /\ UNCHANGED <<now, history, fired, steady>>

\* update_connection after a connect that failed otherwise: nothing is cleared.
OnConnectFailed ==
    /\ link \in {"down", "live", "sampled"}
    /\ link' = "down"
    /\ state' \in KeptState
    /\ UNCHANGED <<now, serial, mirrorVars, packageVars, engineVars, carried>>

-----------------------------------------------------------------------------
(* Telemetry signals. *)

\* update_snapshots: the CPU mirror is replaced, the others keep what they
\* have when nothing new arrives.
AdoptSnapshots(s) ==
    /\ mirror' = [f \in Field |->
          IF f = "storage" THEN mirror.storage
          ELSE IF f = "cpu" \/ s[f] # None THEN s[f] ELSE mirror[f]]
    /\ owner' = [f \in Field |->
          IF f # "storage" /\ (f = "cpu" \/ s[f] # None) THEN serial ELSE owner[f]]

SampledAt(cpu) == IF cpu = None THEN {now} ELSE {t \in 0 .. now : now - t <= MaxLag}

OnSnapshots ==
    /\ link = "ticking"
    /\ link' = "sampled"
    /\ \E s \in Snapshots : \E at \in SampledAt(s.cpu) :
          /\ AdoptSnapshots(s)
          /\ RecordSamples(at)
    /\ UNCHANGED <<now, state, serial, packageVars, carried>>
    /\ EvaluateIntelligence(timeline)

\* update_snapshots(None, None, None, None, None) after a tick lost the phone.
OnEmptySnapshots ==
    /\ link = "lost"
    /\ link' = "down"
    /\ AdoptSnapshots([f \in SnapshotField |-> None])
    /\ RecordSamples(now)
    /\ UNCHANGED <<now, state, serial, packageVars, carried>>
    /\ EvaluateIntelligence(timeline)

\* update_storage.
OnStorage ==
    /\ link = "sampled"
    /\ link' = "live"
    /\ \E r \in StorageReadings :
          /\ mirror' = [mirror EXCEPT !.storage = r]
          /\ owner' = [owner EXCEPT !.storage = serial]
    /\ RecordSamples(now)
    /\ UNCHANGED <<now, state, serial, packageVars, carried>>
    /\ EvaluateIntelligence(timeline)

\* on_packages_ready: the answer of a worker, whatever the monitor is doing.
OnPackagesReady ==
    /\ verified' \in Packages
    /\ UNCHANGED <<now, link, state, serial, mirrorVars, users, inventory, history,
                   carried, steady>>
    /\ EvaluateIntelligence(timeline)

\* on_apps_inventory_ready: the user applications are some of the installed ones.
OnInventoryReady ==
    /\ verified' \in Packages
    /\ users' \in {u \in Packages : u \subseteq verified'}
    /\ inventory' = TRUE
    /\ UNCHANGED <<now, link, state, serial, mirrorVars, history, carried, steady>>
    /\ EvaluateIntelligence(timeline)

\* _on_performance_events: what the performance session found, in the log.
OnPerformanceEvents ==
    /\ link \in {"live", "sampled", "lost"}
    /\ timeline' = RecordEvent(timeline, Event("performance", serial))
    /\ UNCHANGED <<now, link, state, serial, mirrorVars, packageVars, history, fired,
                   fires, health, recs, carried, steady>>

\* Time passes between signals.
TimePasses ==
    /\ now < MaxTime
    /\ now' = now + 1
    /\ UNCHANGED <<link, state, serial, mirrorVars, packageVars, engineVars, carried>>

IntelligenceNext ==
    \/ OnConnected
    \/ \E s \in Serial : OnSerialReady(s)
    \/ \E s \in {"CONNECTED"} \cup KeptState : OnTickState(s)
    \/ OnDeviceLost
    \/ OnConnectFailed
    \/ OnSnapshots
    \/ OnEmptySnapshots
    \/ OnStorage
    \/ OnPackagesReady
    \/ OnInventoryReady
    \/ OnPerformanceEvents
    \/ TimePasses

IntelligenceSpec == IntelligenceInit /\ [][IntelligenceNext]_intelligenceVars

-----------------------------------------------------------------------------
RecType == [component : Component, about : {"use", "charge", "heat", "link"},
            severity : {"warning", "critical"}, target : UNION Packages \cup {None},
            evidence : Int \cup {None}]

IntelligenceTypeOK ==
    /\ now \in 0 .. MaxTime
    /\ link \in {"down", "opening", "live", "ticking", "sampled", "lost"}
    /\ state \in {"none", "CONNECTED"} \cup LossState \cup KeptState
    /\ serial \in MaybeSerial
    /\ owner \in [Field -> MaybeSerial]
    /\ verified \in Packages /\ users \in Packages /\ inventory \in BOOLEAN
    /\ \A m \in Metric : Len(history[m]) <= Retention[m]
    /\ fired \in [RuleId -> 0 .. MaxTime \cup {Never}]
    /\ \A i \in DOMAIN fires : fires[i].id \in RuleId
    /\ Len(timeline.events) <= MaxEvents
    /\ timeline.connection \in {Unset, "connected", "disconnected"}
    /\ timeline.health \in Status \cup {Unset}
    /\ health \in Status \cup {None}
    /\ recs \in Seq(RecType)
    /\ carried \in BOOLEAN

\* While a phone is bound the timeline holds no event of another phone, nor one
\* recorded before the phone was known, whatever reconnects, retries and
\* transient failures came before.
TimelineOfThisPhone ==
    serial # NoSerial =>
        \A i \in DOMAIN timeline.events : timeline.events[i].phone = serial

\* In a session that a loss or the start preceded every sample of the history was
\* read from the session's own phone: a mirror that outlives a signal without
\* data cannot bring in a reading of another one.
HistoryOfOnePhone ==
    link \in {"live", "ticking", "sampled"} /\ ~carried =>
        \A m \in Metric : \A i \in DOMAIN history[m] : history[m][i].phone = serial

\* The documentation of the session history: it never mixes two devices.
HistoryNeverMixes ==
    link \in {"live", "ticking", "sampled"} =>
        \A m \in Metric : \A i \in DOMAIN history[m] : history[m][i].phone = serial

\* Once the phone is lost nothing concluded about it is shown until a phone is
\* connected again, whatever signals and answers are still delivered.
NothingShownAfterLoss ==
    state \in LossState =>
        mirror = NoMirrors /\ health = None /\ recs = <<>> /\ fires = <<>>

\* A rule with a duration fires only on a run its condition held throughout: the
\* start that a firing gives is the date of a sample added after the last reading
\* that failed the condition, though the history leaves repetitions out, drops
\* the oldest, and may date a reading before those it was handled after. (A new
\* session shows the firings of the one before until its first sample.)
SustainedRuleSawNoDip ==
    \A i \in DOMAIN Rules :
        LET samples == history[Rules[i].metric]
        IN  i \in DOMAIN fires /\ Rules[i].duration # None /\ samples # <<>> =>
                \E k \in DOMAIN samples :
                    k + steady[i] > Len(samples) /\ samples[k].at = fires[i].since

\* The history's windows are in the order of their dates.
DatesInOrder ==
    \A m \in Metric : \A i, j \in DOMAIN history[m] :
        i < j => history[m][i].at <= history[m][j].at

=============================================================================
