# Android Task Manager: verification project

TLA+ modules, TLC configurations and TLAPS proofs kept beside
`android_task_manager`, a desktop program that monitors Android phones over
`adb`. Paths such as `gui/monitor.py` are relative to
`src/src/android_task_manager/`. `PROJECT.json` lists components, runs, mutants,
the map from definitions to source lines, hazards and theorems.

## 1. Inventory

The program is one process. The GUI thread owns the window and all analysis; a
monitoring thread samples the phone; further threads run actions, inventory
reads, baselines, inspections, permissions, reports and the copilot. They
share one `ConnectionManager`, whose bound serial decides which phone a command
reaches, and otherwise talk through queued Qt signals: delivered in order per
receiver, later than they were emitted, and after whatever has happened since.

| Part | State | Operations | Interaction | What is hard | What makes it correct |
|---|---|---|---|---|---|
| ADB facade (`adb/connection.py`) | bound serial, adb path | verify, list, require, execute, shell, bind, release | called by every worker | the table of devices changes between two commands; typed errors | a bound serial is the only candidate; every failure is typed |
| Monitoring thread (`gui/monitor.py`) | connected, stopped, timer interval, cached snapshots | `_on_timer`, `_connect`, `tick`, `retry`, `select_device`, `locate_adb`, `stop` | emits 9 signals; its slots are queued by the GUI | loss, replacement and timeouts between commands; late clicks; stop from another thread | one phone at a time; nothing kept across sessions; recovers; stops |
| Collectors (`*/collector.py`) and their parsers | previous counters (cpu, network) | `sample` | called by tick | errors swallowed or passed on; rows missing, malformed or contradictory | a snapshot or a rate describes one phone; unknown stays unknown |
| Main window (`gui/main_window.py`) | latest snapshots, serial, page, inventory, health, baseline, pending task | one slot per signal | consumes all signals, queues requests | signals of an old session behind those of a new one | pages show one phone, the one they name |
| Performance session and page (`performance/`) | windows, active conditions, open and completed episodes, events | begin/end session, ingest, compose the page | fed by the monitor's signals | resets in several places; escalation, recovery, retention | trackers and page agree; episodes end with the session |
| Actions (`action/`, `gui/action_worker.py`) | queue, pending selection, lock, inventory | click, confirm, run, report | window -> worker -> window | late execution, late results, check-then-act | an action reaches the phone it was meant for; locks are released |
| Automation (`automation/`) | tasks, cooldowns, budgets, pending task | submit, approve, gate, record | window, action worker | limits checked at dispatch, charged at the answer | limits hold; nothing is reported that did not run |
| History, rules, timeline (`history/`, `rules/`, `timeline/`) | bounded samples, cooldowns, events | record, evaluate, begin session | window slots | time, sampling gaps, order of the connect signals | a rule fires when its condition lasted; nothing of a lost phone |
| Baselines (`baseline/`, `gui/baseline_worker.py`) | stored and session baselines, observation window | capture, save, load, diff, drift | worker and files | serial and contents are read by several commands; results for a replaced baseline or phone; restart | a drift report compares one phone with its own baseline |
| Investigation, incident (`investigation/`, `incident/`) | the case in the window | attribute, explain, generate, export | window, report worker | findings classified twice or not at all; old reports | each change reported once, from the baseline in force |
| Health, diagnostics, recommendations | previous states | pure functions | window, incident builder | missing data, thresholds, aggregation | total, monotone, honest about missing data |
| Inspector, permissions (`gui/inspector_worker.py`, `permissions/`) | panel, resolved package, busy flags | select, read, audit | two workers | pids that die and are used again, names that are cut, late answers | the panel shows the last selection, its buttons act on what its files name |
| Background applications (`background/`) | mirrors, labels, last-seen stamps | attribute, rebuild, resolve labels | window, applications worker | table built from four mirrors of different age | every entry is proven, of this phone, and labelled in the end |
| Copilot (`copilot/`) | keys, settings, messages, busy flags | test, save, clear, ask | worker and network | failing provider, three places that hold a key | the panes say what is used; every question ends |
| Discovery and settings (`settings/`, `adb/discovery.py`) | path of adb, files | locate, load | start of the program | candidates that cannot run | the first usable candidate is taken |
| Terminal monitor, widgets, renderers, updater, web site | - | print, draw | - | text and pixels | covered by the repository's unit tests |

The hazards of `PROJECT.json` name the lines where these difficulties bite.

## 2. Modules and how they correspond to the code

A composed module EXTENDS the modules of operators it evaluates; the right-hand
module of each group is the one that a run explores.

**Sampling.** `AdbConnection`, `DeviceInformation`, `Discovery` -> `MonitorWorker`
(-> `TelemetrySession`) -> `Dashboard`.

* *AdbConnection* has no state. Its operators give the set of results a
  command can have, as a function of the attached phones, the health of adb and
  the bound serial: `RequireResults` for `require_device`, `ShellResults` for
  `shell`, `VerifyErrors` for `verify_available`. A successful command is known
  by the serial it ran on, which is all the properties ask about.
* *MonitorWorker* is the monitoring thread. A handler (a timeout or a slot)
  runs to its end before the next starts, but the world changes between any two
  of its ADB commands, so each command is a step and `pc` names the next one:
  `verify`, `require`, `label` (three reads), `identity`, `report`, `collect`
  (one per collector), `publish`. A snapshot is abstracted to the serial it was
  read from (`cache`), a delta collector's counters likewise (`previous`, and
  `base` for the sample they were differenced against). `out` holds the signals
  the last step emitted.
* *TelemetrySession* is the abstract promise: one session at a time with one
  phone, all data read in it from that phone, nothing held between sessions, and a live
  session goes to another phone only if the user picked that phone (`HandOver`).
  `MonitorWorker` implements it under `session <- IF connected THEN bound ELSE NoSerial`,
  `held <-` the serials in the cache, `picked <-` the picks that wait in its queue.
* *Dashboard* composes the worker with the GUI thread. `Post` queues `out` on
  the GUI; one action per slot of the window consumes the queue and updates the
  mirrors; the apps worker answers each CONNECTED with an inventory read. `doubt` is a
  history variable, which no action of the program reads (below).
* *DeviceInformation* is the reading of a phone's identity: which field comes
  from which property, what a failed, missing or contradictory source makes of
  it. *Discovery* is the search for adb, candidate by candidate.

Late picks. The picker is shown while several phones is what the monitor reported
(`gui/setup_panel.py:195`), but a click is delivered later, and `select_device` moves the
pin whenever it is delivered (`gui/monitor.py:378-385`). A pick of another phone that
arrives in a live session leaves the cache, and the window, with data of the first.
Every run has that step. What the properties say is how far its effect goes: only the
pick of that very phone hands a session over (`ImplementsSession`), and the pages show
the phone they name, and the window files under the session's serial, but for the time
from such a pick to the next loss that reaches the window. `doubt` marks that time:
0 outside it, and inside it one more than the number of waiting signals that were
queued before the pick, because only a loss queued behind it ends it. What the code's
comments promise and the pick breaks is in section 5.

**Performance.** `PerfSession`, `PerfReport` -> `PerfView`.

* *PerfSession* is the chain `PerformanceIntegration` ->
  `PerformanceOrchestrator` -> `PerformanceSession`, `ConditionTracker`,
  `EpisodeTracker`. It takes the monitor's signals in the orders MonitorWorker
  emits them (`link`), so it can be proved by itself.
* *PerfReport* has the pure part: baselines, deviations, trend, score,
  contributors, correlation, explanation, comparison with history.
* *PerfView* adds to each step of PerfSession what the orchestrator keeps for
  the page: times, details of open conditions, events, composed episodes, scores. The
  clock is that of the handling; a cpu or storage sample carries the date of its reading
  (`gui/performance_integration.py:71,85`), any other that of its handling (95), and a
  snapshot that could not be replaced is published again with its old date
  (`TimeOfReading`), so dates repeat and go back.

**Actions.** *ActionPipeline* follows a click to a phone. The window's slots, the
action worker and the apps worker are three actors with a queue each (`toGui`,
`queue`, `appsQueue`); the monitor and the cable are what changes the phone
under them (`MonitorLoses`, `MonitorConnects`, `MonitorSamples`, `Replug`).
`ClickInspector`, `ClickApps`, `ClickBackground` and `ClickRecommendation` are
the four ways to ask for an action, each with its own gate; `dialog` is the
confirmation whose event loop keeps delivering signals until `Answer`. A shell
call resolves the serial when it runs (`Shell`), so one step of a worker is
one call. `ran` is the command the last step executed, with the phones its request
was decided on (`source`). *AutomationFlow* is the engine with the window that
drives it: `ApplyAutomated` submits, approves and gates in one slot, `WorkerRuns` answers, and
`OnResult` matches the answer to the pending task by action and target, whoever
asked for it.

**What the window makes of the samples.** `SessionMemory` (history, rules,
timeline), `Thresholds`, `DeviceHealth` (with recommendations), `Diagnostics` ->
*SessionIntelligence*: one action per slot, in the order in which the slot
records, judges, evaluates rules and writes the timeline (`EvaluateIntelligence`);
`BeginSession` is what `serial_ready` resets, `ClearWindow` what a loss does. A rule is
known by its place in `Rules`; the ids by which cooldowns are kept are distinct
(`rules/engine.py:95`).

**Investigation.** `Drift` (difference of snapshots, observation window, stability
states) -> *BaselineFlow* (panel lock, worker, file per serial, restart; a
capture asks for the serial and then samples twice, `WorkerStarts`, `WorkerReadsProcesses`,
`WorkerReads`, and the connection may move in between, which `moved` records) and, with
`Investigation` (attribution, explanations, process tree), `Permissions` and
`Incident`, -> *CaseDesk* (checks, samples and audits arrive; a report is
generated and exported). `Permissions` also gives dumps and combinations to
*Inspector*, where a selected row is read file by file (`ReadFile`), the status file with
its name cut (`Comm`), presented only
if it is still the inspected pid (`Present`) and audited under the package that
was resolved (`ShowAudit`).

**Background applications.** `BackgroundApps` (parsing of `ps` and `top`,
ownership, totals, order) -> *BackgroundView*: four mirrors that change one signal
at a time, the rebuild after each, the APK-by-APK label reads and their adoption.

**Copilot.** `CopilotContext` (what a question lets the model see, what may be
proposed) and *Copilot* (the key in the dialog, the file, the environment and the
worker; tests, questions, verdicts). An outcome of a provider is one of the
classes its handler distinguishes, after one of the requests it makes.

MC modules hold the constants of the instances, and the assumptions that compare
algorithms with reference definitions (section 3). The eight `*Proofs` modules hold
the theorems. Two of them prove about two systems that share no state, one after the
other: `AutomationProofs` about AutomationFlow and BackgroundView, `CopilotProofs` about
Copilot and CaseDesk.

Abstractions to know of. A collector is one command: a collector that issues
several can fail in the middle, which stores nothing, as a failing one does; that
its later commands may reach another phone is excluded by the binding, not by
this. `socket` tables and packages swallow what is not a connection failure
(`Outcome`). Whether a slow collector is due is a choice (`CollectorRests`). In
PerfSession an application snapshot is its first package; the throttle of ACTIVE
events and the evidence lists feed nothing that is modelled. In ActionPipeline an
inspection is one read; the three companion lists of an inventory are one call; a
command that fails never ran, and uninstalling an application of the system leaves it
installed. The workers' `_busy` flags are set and reset inside one slot of one
thread, so a queued request never observes them and no action reads them. Times
are small integers; strings are members of small sets, the order of names is a
number of the record.

## 3. Runs

| Run | Properties | Shows |
|---|---|---|
| MonitorSession | NothingHeldOffline, LossIsReported, ImplementsSession | Safety of the worker and that it implements TelemetrySession, late picks included: two phones, every health of adb but one that raises what another raises, a click, stop, between any two commands |
| MonitorLiveness | Recovers, StopQuiesces | When exactly one phone stays usable a session with it is established and kept, also after late picks; after stop the loop ends |
| Dashboard | PagesShowOnePhone, WindowCatchesUp | The mirrors show one phone, the one they name, and catch up with the session; where a pick moved a live session, after the next loss |
| Perf | EpisodeHoldsConditions, SeverityIsWorstSeen, EpisodesAccountedFor, WindowsOfOnePhone, PageTellsOneStory, EscalationKeepsEpisode | Windows, trackers and page agree through every sequence of signals, with dates that repeat and go back |
| Actions | LockHasAction, DestructionConfirmed, SystemAppsSparedByOwnData, SettledListsAreTrue | Destructive commands were asked about, system applications are spared by their own phone's data (but for the uninstallation of one whose partial dump states no category), no panel stays locked, and the lists are true once everything was delivered |
| Intelligence | TimelineOfThisPhone, HistoryOfOnePhone, NothingShownAfterLoss, SustainedRuleSawNoDip | What a window remembers is of one phone, and a sustained rule fires only on what lasted, with readings dated by two clocks and handled late |
| Automation | BudgetHolds, ReportedTasksRan, PendingIsAnswered, RecordedRunsAreApart | The limits hold although results of clicks by hand are charged to pending tasks |
| Baseline | DriftOfThisBaseline, LoadedIsOwn | The report shown was computed against the baseline shown; a file is loaded only for its own phone, after a crash too, and all of it was read there unless the connection moved meanwhile |
| CaseDesk | EveryChangeReportedOnce, ReportOfThisBaseline, ExportIsAnswered | A change is a finding or set aside, never both or neither; the counts are those of the lists; an export ends |
| Copilot | PanesTellTheTruth, QuestionsSettle | What is said of the key is what the file has; every question is answered |
| Inspector | LastSelectionWins, ActionsFollowPanel, AuditUnderItsProcess, AuditsSettle | Late answers never replace a later selection, and the buttons act on what the files of the shown process name |
| Background | EntriesAreProven, NothingOfALostPhone, LabelsSettle | Each entry is owned by processes of the snapshot, none is of a lost phone, labels are known in the end |

Some algorithms are checked against a second definition over all inputs of a
small size, as assumptions of the MC modules, so that each TLC run evaluates them:

* `MCDashboard`: a failed source spoils only its own fields (`FailuresStayLocal`),
  contradictions are reported as unknown, cpu ranges count cores, the first usable adb
  wins.
* `MCPerfView`: the median is the middle, the score is monotone, correlation
  counts pairs, the explanation names the culprit, history is mentioned once.
* `MCSessionIntelligence`: diagnosis agrees with health, advice starts with the
  critical, resizing keeps the newest, peak runs partition the samples, the
  trend follows the values.
* `MCCaseDesk`: the tree holds what is rooted, attribution is proven, the first
  observation is the earliest, a UID is used only where it is unique.
* `MCBackgroundView`: an owner is proven, the order is total, memory is shared
  once. `MCInspector`: a flagged combination is granted.
* `MCCopilot`: candidates are the user's own, the context spares protected
  processes, verdicts blame the key only for the key, the answer splits, the request is
  bounded.

Bounds. Two phones are enough for data of one to be taken for the other's; a
third adds no new relation between a holder and a source. `MaxChanges` counts
what happens outside the program: two changes allow one phone to vanish and
another to appear, three a return. `MaxClicks = 1` puts one queued slot against the
timer, 2 in Dashboard two picks, or a pick and a retry, against each other as well. Three
collectors are one that differences counters, one that swallows errors and one that may have nothing to report; the tick treats all others as
one of these. `MaxLag` bounds signals waiting for the GUI: 3 lets those of a loss
wait behind those of a tick in Dashboard, 1 lets a table be rebuilt from mirrors of
two ages in Background; in Intelligence it bounds time, and 1 lets a cpu sample be
handled after a storage reading that was made later. `MaxRefreshes = 1` in
Dashboard is the refresh that the loss can overtake.

* Perf: `WindowSize = 2` fills and drops; `MinSamples = 1` lets conditions start in
  two ticks; `Retention = 1` with `MaxEpisodes = 3` cuts the list twice; only cpu
  reaches the critical threshold, so that escalation and coexistence both occur;
  `RecentEvents = 3` and `RecoveringWindow = 1` with `MaxTime = 4` let events fall out
  of the list and a recovery end; `MaxDelay = 1` lets a sample be dated before the
  update that came before it.
* Actions: one application that belongs to the user on one phone and to the system on
  the other is the case every gate is about. `MaxEvents = 1` is one exchange of the
  phone (or one sample), with the loss and the connect it causes at any later time;
  `MaxClicks = 2` is what it takes to select an application and to act on it, or to ask
  for two things at once. `Dumps` are complete or partial, one read after
  the other as they come.
* Automation: a budget of two and three tasks reach the refusal; one unit of
  cooldown within `MaxTime = 2` separates runs that are too close from those that are not.
* Intelligence: a history of three samples with a rule that must last is what tells
  its ends from its middle; the events of two sessions fit in `MaxEvents = 2`.
* Baseline: two serials that share a file name, one signal of the monitor, three reads:
  a baseline with a check of it and another read, of a check, a baseline or the monitor. `MinPersistent` and `TrackerWindow` are 2, the
  code's value for the first; in CaseDesk both are 3, because with 2 no check is ever
  merely unconfirmed and the bucket would not occur.
* Inspector: two pids, one process change, three selections or audits: one
  answered, one late, one current; two packages, of which one has the other's name as
  its cut name. Copilot: two keys, of which one is stored
  and one typed.

`CHECK_DEADLOCK FALSE` is set where the program may stop: after `stop`, or when the
bounds on the environment are used up.

Fairness. `MonitorWorker`: `WF(Worker)`, the thread's event loop always runs its next
handler and every command returns because `subprocess.run` has a timeout;
`SF(HandleSlot)`, Qt delivers posted events whenever the loop is reached, so the
zero-interval timer cannot starve a queued slot. `Copilot`: `WF(CallEnds)`, every
request of a provider has a timeout. `Inspector`, `BackgroundView`: weak fairness of
each event loop, for the same two reasons. Nothing is assumed of phones, adb or the user.

## 4. Proofs

Theorems hold for any values of the constants that satisfy the named ASSUMEs of the
modules, which TLC evaluates in the runs.

`MonitorWorkerProofs`: for any phones, any sequence of collectors and any bounds,
`TypeOK`, `ConnectedIsBound`, `NothingHeldOffline`, `StopIsFinal` and
`LossIsReported`, that only a pick mixes phones (`OnlyPicksMixPhones`), that only the pick of
that very phone hands a session over (`SessionNeverSwitches`), and `ImplementsSession`.
None of the invariants is inductive alone: that a cached snapshot is the bound
phone's needs to know that a command inside a session resolves to the bound
serial, that a tick only runs inside a session, and that `_connect` binds the
phone it looked up. `IInv` therefore adds what each value of `pc` knows (`Sampling`,
`Reporting`, `Targeted`, `Bound`, `AtRest`, `LabelReads`, `Stated`). Two lemmas about
`RequireResults` and `ShellResults` carry the argument: a command reaches an
attached phone, the bound one if there is one. The action properties and the
refinement follow from `IInv` and one step lemma per action.

The same module has the window behind its queue, for any lag: `DashboardTypeOK`,
`PagesShowOnePhone` and `WindowCatchesUp`. What is
waiting decides what the window will be, so `Coherent` reads the queue from its head:
there is a function `f` that gives the serial in force after each waiting signal
(`Follows`), every snapshot is of the serial in force when it is handled, a phone is
named only where none is in force or the same is (`Fits`), and the serial after the last
signal agrees with the monitor's (`Agrees`). A step of the monitor extends `f` at its
end, a slot drops its first value. That the signals of one step fit needs the order in
which `_connect` and a loss emit them, hence `IInv`. After a
pick that moved the pin the serial in force is `Unknown` and nothing is required of the
signals, up to the first loss that was queued behind it (`doubt` gives the place); that
loss finds the monitor with one phone again, because the step that ends a session drops
what it held.

`PerfSessionProofs`: `PerfTypeOK`, `EpisodeHoldsConditions`,
`SeverityIsWorstSeen`, `NoEpisodeWithoutSession`, `EscalationKeepsEpisode`,
`WindowsOfOnePhone` and `EpisodesAccountedFor`. `PerfInv` adds `ClosedIsEmpty`: while no
serial is known there are no samples and no application snapshot, and a lost link
knows none. With nothing to read, an analysis leaves no condition that an
episode could hold (lemma `ClosedAnalysis`), which is what makes "no episode without
a session" inductive although a lost session is still analysed once. The list of
episodes needs `Accounted`, which numbers it from its end, where records join it
(`AnalysisAccounts`), and says of a list that was never cut that it holds them all.

`PageTellsOneStory` is proved of PerfView, for any windows, retention and dates. `PageInv`
has two parts. `EpisodeStory`: no listed episode starts or ends below its lowest score (`Chronicle`), and
the open one's lowest is not above the score of the windows as they are; scores are
percentages (`Percent`), so that `Absent` is none. Nothing is said of dates, which may
go back.
`Tells`: in the list of events, two about the same condition with none between them
differ in phase, and the last one about a condition says whether it is active, an
announced recovery that its episode is closed (`Fits`). Both survive dropping the
oldest entry, which is what retention does. The headline is computed from the active
conditions, the episodes from the tracker's: that they agree follows from
`EpisodeHoldsConditions` (`HeadlineIsPressure`); which episode a recovery announces, from
`RecordsAccounted`.

`ActionPipelineProofs`: `ActionTypeOK`, `LockHasAction`, `IdentityInStep` and
`DestructionConfirmed` for any phones, packages, system applications and bounds,
and `SystemAppsSparedByOwnData`, dumps of both kinds included. `IInv` has one conjunct per
actor. A row is honest (`HonestRow`) if, when all of it was read from one phone, a
package of that phone's system has the category "system" (which rests on such
packages never leaving their phone), or a partial dump left category and state unknown,
so that nothing but "uninstall" is offered (`OfPartialDump`); every row in a queue, in a panel or in the
inventory is honest, every request was asked for from honest rows (`Asked`) and every
queued one that destroys was confirmed (`Sanctioned`). A command then spares (`Spares`) whatever
happened between the click and its turn, because no step changes a request. For the
identities, `InStep` says that the last package list on its way to the inspector,
or the inspector's own if there is none, is the worker's. `LockHasAction` needs
that an unanswered request stays in the queue until its result is posted, also
between the two commands of `open_app`.

`SettledListsAreTrue` rests on `ListsInv`: while a phone is bound, the last inventory on
its way, or the window's own, is true of that phone as it is now (`RowsTold`), or a
result that changed the phone is still on its way, or a read that will put it right
is queued (`ReadAhead`). A read is two commands, so one under way is counted only if
the names it has read are still installed (`UpToDate`); an uninstall between the two makes
them false and queues its result, and with it another read.

`AutomationProofs`: the budget, the distance of recorded runs, `ReportedTasksRan`
and `PendingIsAnswered`. Checks and charges are two steps of two slots, so the proofs
rest on what the gate found still holding of the task the window waits for
(`GateStillHolds`): no other passes meanwhile, and a new session charges nothing
before its answer. `PendingPassed` says as much of its dispatch. `ReportedTasksRan`
excepts a task that was pending when a new session began (`carried`), whose answer
finds another task under its id.

Its second half is BackgroundView: `EntriesAreProven` and `NothingOfALostPhone` for any
phones, packages and outputs of `ps`, `top` and `pm`. The table is rebuilt from four
mirrors of different age, so nothing can be said of the phone; what can be is that an
entry is proven by the mirrors. A process may be claimed by two applications
unless the table has one row per pid and the order of packages is total: `BackgroundInv`
says that of the mirrors and of every signal that waits (`Honest`), and the lemma
`SampleIsTable` that merging `ps` with `top` makes such a table whatever they print.

`BaselineProofs`: `DriftOfThisBaseline` and `LoadedIsOwn`. The lock of the panel is
what ties a pending check to the baseline it was asked with (`OneOperation`: all
quiet, one waiting or one answered). A stored baseline adopted under that lock releases
it; from then on `intruded` is up and the property promises nothing. `Provenance` follows
what was read from the capture into the worker's answer and the file: until the
connection moves, everything read is of the phone whose serial was asked first
(`CaptureIsOwn`, `SavesAreOwn`, `FilesAreOwn`); the test of the serial in `load` then makes
it the announced phone's.

`IntelligenceProofs`: `NothingShownAfterLoss` and `HistoryOfOnePhone`. The
strengthening says which mirrors a link may hold (`Ordered`) and whose they are
(`MirrorsAreOwn`, `HistoryIsOwn`), unless the session followed another with no loss
in between (`carried`), when neither is true of the code. `TimelineOfThisPhone` needs
no such exception: `BeginSession` empties the log, and every event is recorded under the
serial in force (`OwnLog`), rule firings and packages included.
`SustainedRuleSawNoDip`: the history leaves out repeated values, drops the oldest and
may date a storage reading before a cpu sample it was handled after, so places are
compared, not dates. `steady` counts the samples added since the last reading that failed
the condition, recorded or not; `DipsAreCounted` says that the condition holds at the last
`steady` places of the history. A reading that fails sets it to 0, a recorded one adds one.

`CopilotProofs`: `PanesTellTheTruth` and that the page waits only for a question that is on
its way (`PageWaitsForChat`), from what each pane of the dialog mirrors.

Its second half is CaseDesk: `EveryChangeReportedOnce`, `ReportOfThisBaseline` and
`ExportIsAnswered` for any phones and finite readings. The difference of two finite
snapshots is finite, so its changes can be counted; the stability check puts each into
one bucket (`StabilizeSorts`), whatever its history; the report makes a finding of the
one and an entry of the timeline of the others. `CaseIsOfBaseline` says that the buckets
are those of the check of the baseline in force, because a new baseline drops them.

`InspectorProofs`: `LastSelectionWins`, `AuditUnderItsProcess` and `ActionsFollowPanel`, for
any cut of the names. The newest request is the chosen one
(`NewestIsChosen`), what a read has learnt stays true of a pid while it runs (`Learnt`), and
the resolved package is refreshed with the panel or its package list
(`PackageIsRefreshed`).

Where a proof needs a least or a last element of a set of places (the last sample at which
a condition failed, the first application that claims a process) it comes from the
well-foundedness of the naturals, cited as a fact, and lists are described by what holds at
each place; so no proof has to say what a recursion computes.

Every invariant and action property of the runs is proved. Only model-checked: the five
liveness properties (`Recovers`, `StopQuiesces`, `QuestionsSettle`, `AuditsSettle`,
`LabelsSettle`), whose arguments need ENABLED, which is out of the prover's reach; and
the algorithms of section 3 against their reference definitions, over bounded inputs,
because what a fold returns for every input needs induction over data. The ASSUMEs
are the constants' types and three facts: a store has room for at least one, in
ActionPipeline a command either runs or fails before it runs (adb is not "flaky"), and in
BackgroundView `top` prints its header (without one the sample fails). Where the code
has a case in which a property fails, the property names it: a pick that moved
the pin (`doubt`), a connection that moved during a capture (`moved`), an adoption during an
operation (`intruded`), a session that followed another without a loss (`carried`), a
record of a partial dump, a cut name.

## 5. Known disagreements

Where the code does not do what its own comments say. Each is a definition of a module
with the comment it states; adding it to the named configuration shows a trace.

| Definition | Add to | What the trace shows |
|---|---|---|
| `LossIsNeverMasked` (PROPERTY) | MonitorWorkerSession.cfg | The last error of a tick decides alone: a loss followed by a time-out in one tick is forgotten (`gui/monitor.py:399-417`, doc 63-65) |
| `HeldFromBoundDevice` | MonitorWorkerSession.cfg | A pick delivered after a session came up publishes one phone's data under another (`gui/monitor.py:382`, doc 296-298) |
| `LabelOfThisPhone` (PROPERTY) | MonitorWorkerSession.cfg | `_connect` reads manufacturer, model and version before it binds the connection, so the label announced for a phone may be another's (`gui/monitor.py:234`) |
| `DatesInOrder` | SessionIntelligence.cfg | A cpu sample is dated when it was taken (`gui/main_window.py:969`), a storage reading when it is handled (1003): the window of a metric is not in the order of its dates |
| `EpisodesFollowEachOther` | PerfView.cfg | An episode may begin before the one before it has ended, because a snapshot is published again with its old date (`gui/monitor.py:397-417,470`; ADR 0005:567, "Non-overlap") |
| `DeltaWithinDevice` | MonitorWorkerSession.cfg | The first rates of a session compare the counters of two phones (`cpu/collector.py:40`, doc 31-32) |
| `InventoryOfThisPhone` | Dashboard.cfg | An inventory read outlives its session (`gui/main_window.py:1460`, comment 1196-1198) |
| `NothingActiveAfterLoss` | PerfView.cfg | `end_session` keeps the background snapshot and the next analysis makes a condition of it (`performance/orchestrator.py:151`, `gui/performance_integration.py:113`) |
| `OpenEpisodeHasDuration` | PerfView.cfg | An open episode can be composed without a duration (`_build_episodes`, `_latest_timestamp`) |
| `SystemAppsSpared` | Actions.cfg | Details read from one phone let an uninstallation through to another whose system has that package (`gui/main_window.py:1498`, comment 1492-1494); a partial dump states no category, and the application is then taken for the user's (`action/capability.py:44`) |
| `HistoryNeverMixes` | SessionIntelligence.cfg | The session history is not cleared on loss (`history/session.py:3-6`) |
| `RemovalSeenTwice` | Baseline.cfg | A check counts itself twice, so `MIN_PERSISTENT = 2` confirms an absence that was seen once (`gui/main_window.py:1633`, ADR 0002, lines 32-33) |
| `LoadedWasReadThere` (PROPERTY) | Baseline.cfg | The serial and the contents of a baseline are several commands, between which the connection may move (`gui/baseline_worker.py:96-102`): what `load` accepts as a phone's own (`baseline/storage.py`, doc) was read from another |
| `NewIsNotCalledOld` | CaseDesk.cfg | A signal about new sockets of an owner is explained as "in the baseline", because only names are looked up among the new (`investigation/explain.py`, doc 3-6, 13-15) |
| `SavingNeverWipesTheKey` | Copilot.cfg | Testing an emptied field and saving wipes the stored key (`_on_save`, comment; `_on_test`) |
| `ButtonsActOnWhatRan` | Inspector.cfg | A status name is cut to 15 characters and may be that of another installed package, which is then acted on (`action/resolution.py:71-73`, "never a guess") |
| `PanelIsOneProcess` | Inspector.cfg | A pid that is used again between two files makes one panel of two processes (`process/inspector_models.py:53`) |
| `NoSecondAudit` | Inspector.cfg | The answer to another audit, or a selection, unlocks the button while an audit of this package is under way (`_refresh_permission_button`) |

Other facts met while modelling, which no property states:

* Monitoring: only the timer handler sets the interval, so sampling after a retry
  continues at the retry delay; after a failed read the cached snapshot is emitted
  again with its old time; each CONNECTED reads the inventory again.
* Device facts: a failed `ip route` makes every interface "not the default route",
  though a failure should mark a field unavailable; an empty first key hides
  the vendor's while the patch date falls through; overlapping cpu ranges count twice.
* Performance: repeated values are not recorded, so a condition cannot recover, and a
  sustained rule cannot fire, while a value repeats; the score can be 100 while an
  episode is open; evidence ids are constant, so their retention is never reached.
* Automation: no recommendation of the program is `automation_allowed`; a run whose
  answer finds no pending task is not recorded, so runs may be closer than the
  cooldown; a late result after `begin_session` goes to the task with the same id.
* Intelligence: the connect transition is recorded before `serial_ready` clears the
  timeline; advice is compared with its evidence text, so changing values log it
  each tick; a flip of the health after a gap is swallowed; disk use of diagnostics and
  of health come from different mirrors.
* Investigation: a related reference is looked up only in the current snapshot, so a
  removed one has none; a ppid cycle leaves processes reachable from no root; IPv6
  socket references do not resolve; processes of one name with and without a uid
  cannot be sorted; audits are kept on loss. The first heuristic can signal an old
  identity that shares its name with a new one.
* Inspector: table and panel survive a loss, and an audit of another phone is matched
  by its package name.
* Background: a tick that fails for a time clears the table, the labels and the
  last-seen stamps that it should preserve; labels of a lost session are adopted by the
  next; the label cache, keyed by path, survives a change of phone.
* Copilot: requests to the model run on the GUI thread, against the worker's own documentation; a
  key of the environment is applied again after Clear; "Clear Local Data" is
  connected to nothing; a request repeats the question.

## 6. What is not modelled, and why

* Renderers, the PDF and device reports, styles, widgets without state, the web site
  and packaging: text and pixels, no state that a property could tell apart.
* The patterns of the cpu, memory, battery, storage and network parsers: string
  matching, which the repository's unit tests cover. What parsers *make* of missing and
  contradictory rows is modelled where a property depends on it.
* The terminal monitor: one sequential loop around collectors that are modelled.
* `AutomationEngine.execute`, `correlate_entity`, `format_tree`,
  `BackgroundAppsWidget.clear`: called by nothing in the program. CopilotContext evaluates the
  builders of candidates and of processes, which nothing calls either, against their
  reference definitions only.
* The copilot's prompts, the words that decide an intent and the network formats; theme
  and window settings; the comparison of versions in the updater.
* The shutdown of the threads after the monitor's: the wait is bounded in real time
  (15 s each), and a thread that is still running is kept alive by reference.
* Real time: intervals, throttles and delays are choices or small counters.

Next: the composition of BaselineFlow with CaseDesk, whose interface is the arrival of a
snapshot, so that the report is related to the lock of the panel; abstract specifications
of the action pipeline and of the panel lock, with refinements like that of
TelemetrySession; the algorithms of section 3 whose reference definition needs no fold;
the shutdown.
