---------------------------- MODULE BaselineFlow ----------------------------
(***************************************************************************)
(* Baselines and drift checks end to end: the baseline panel's lock        *)
(* (gui/widgets/baseline_panel.py), the window's slots                     *)
(* (gui/main_window.py), the baseline worker on its own thread             *)
(* (gui/baseline_worker.py), the store of one file per device              *)
(* (baseline/storage.py) and the observation window the monitor's samples  *)
(* also feed.  A read of a phone may find any of Reads: what runs on a     *)
(* phone changes between any two reads.  A capture asks for the serial and *)
(* then reads in two parts, over a connection that the monitor's thread    *)
(* may bind to another phone in between.                                   *)
(***************************************************************************)
EXTENDS Drift

CONSTANTS
    Serial, NoSerial, None,
    File, FileOf,          \* store files; path_for, which may map two serials to one
    Reads,                 \* what a read of a phone may return
    MaxReads,              \* bound: how many reads are made
    MaxSignals             \* bound: connection signals on their way to the window

ASSUME BaselineAssumption ==
    /\ NoSerial \notin Serial
    /\ FileOf \in [Serial -> File]
    /\ MaxReads \in Nat /\ MaxSignals \in Nat

VARIABLES
    device,       \* the phone the commands of the shared connection reach
    capture,      \* _collect under way: its serial and what it has read; auxiliary:
                  \* the phones it read, and whether the connection moved
    signals,      \* serial_ready and loss signals on their way to the window
    requests,     \* the worker's queue
    results,      \* the worker's signals on their way to the window
    store,        \* the baseline in each file
    reads,        \* auxiliary: how many reads have been made
    guiSerial,    \* MainWindow._device_serial
    baseline,     \* MainWindow._baseline, and where it came from
    source,
    current,      \* _current_snapshot
    drift,        \* _drift_report
    heuristics,   \* _heuristics
    stability,    \* _stability
    newRefs,      \* what the process table marks as new
    series,       \* _observation_tracker
    locked,       \* BaselinePanel._operation_busy or _exporting
    intruded      \* auxiliary: a stored baseline was adopted under the lock

queueVars == <<signals, requests, results>>
checkVars == <<current, drift, heuristics, stability, newRefs>>
baselineVars == <<device, capture, queueVars, store, reads, guiSerial, baseline, source,
                  checkVars, series, locked, intruded>>

MaybeSerial == Serial \cup {NoSerial}
NoSeries == [k \in Observed |-> <<>>]

ProgramInit ==
    /\ device = NoSerial /\ guiSerial = NoSerial /\ capture = None
    /\ signals = <<>> /\ requests = <<>> /\ results = <<>>
    /\ baseline = None /\ source = "none"
    /\ current = None /\ drift = None /\ heuristics = None
    /\ stability = None /\ newRefs = {}
    /\ series = NoSeries
    /\ locked = FALSE /\ intruded = FALSE

BaselineInit == ProgramInit /\ store = [f \in File |-> None] /\ reads = 0

-----------------------------------------------------------------------------
(* The connection, and the window's mirror of it. *)

\* The monitor binds or loses a phone and signals it.
ConnectionChanges ==
    /\ Len(signals) < MaxSignals
    /\ device' \in MaybeSerial
    /\ capture' = IF capture # None /\ device' # device
                  THEN [capture EXCEPT !.moved = TRUE] ELSE capture
    /\ signals' = Append(signals, device')
    /\ UNCHANGED <<requests, results, store, reads, guiSerial, baseline, source,
                   checkVars, series, locked, intruded>>

\* Adopting a baseline: what was found against the one before is dropped, the
\* window of observations starts anew, and the panel's lock is released.
Adopt(snapshot, from) ==
    /\ baseline' = snapshot /\ source' = from
    /\ current' = None /\ drift' = None /\ heuristics' = None
    /\ stability' = None /\ newRefs' = {}
    /\ series' = NoSeries
    /\ locked' = FALSE

\* Mutant: whatever the file of the phone holds is taken for its baseline.
LoadUnchecked(serial) == store[FileOf[serial]]

\* BaselineStore.load: only a baseline written for this very serial.
Load(serial) ==
    LET stored == store[FileOf[serial]]
    IN  IF stored # None /\ stored.serial = serial THEN stored ELSE None

\* on_serial_ready, _auto_load_baseline: only if the window holds none.
OnSerialReady ==
    /\ signals # <<>> /\ Head(signals) # NoSerial
    /\ signals' = Tail(signals)
    /\ guiSerial' = Head(signals)
    /\ IF baseline = None /\ Load(Head(signals)) # None
       THEN /\ Adopt(Load(Head(signals)), "loaded")
            /\ intruded' = (requests # <<>> \/ results # <<>>)
       ELSE UNCHANGED <<baseline, source, checkVars, series, locked, intruded>>
    /\ UNCHANGED <<device, capture, requests, results, store, reads>>

\* update_connection(a loss state): baseline and drift stay as they are.
OnDeviceLost ==
    /\ signals # <<>> /\ Head(signals) = NoSerial
    /\ signals' = Tail(signals)
    /\ guiSerial' = NoSerial
    /\ UNCHANGED <<device, capture, requests, results, store, reads, baseline, source,
                   checkVars, series, locked, intruded>>

-----------------------------------------------------------------------------
(* The panel's buttons. *)

\* Mutant: a check may be asked for while a save is running.
PanelIgnoresLock == TRUE

PanelFree == ~locked

Request(kind, subject) ==
    /\ locked' = TRUE
    /\ requests' = Append(requests, [kind |-> kind, baseline |-> subject])
    /\ UNCHANGED <<device, capture, signals, results, store, reads, guiSerial,
                   baseline, source, checkVars, series, intruded>>

SaveClicked == PanelFree /\ Request("save", None)
CheckClicked == PanelFree /\ baseline # None /\ Request("check", baseline)

\* _on_export_requested: the session handed over is the one shown now.
ExportClicked ==
    /\ PanelFree
    /\ baseline # None /\ current # None /\ drift # None
    /\ Request("export", baseline)

-----------------------------------------------------------------------------
(* The worker: one request at a time, each answered. *)

Answered(result) ==
    /\ requests' = Tail(requests)
    /\ results' = Append(results, result)
    /\ UNCHANGED <<device, signals, store, guiSerial, baseline, source, checkVars,
                   series, locked, intruded>>

Failed == [kind |-> "failed"]

Building == requests # <<>> /\ Head(requests).kind # "export"

\* build: the serial of the phone bound now, whichever was meant.
WorkerStarts ==
    /\ Building /\ capture = None
    /\ device # NoSerial
    /\ capture' = [serial |-> device, processes |-> {}, of |-> {}, moved |-> FALSE]
    /\ UNCHANGED <<device, queueVars, store, reads, guiSerial, baseline, source,
                   checkVars, series, locked, intruded>>

\* _collect's first sample.
WorkerReadsProcesses ==
    /\ Building /\ capture # None /\ capture.of = {}
    /\ device # NoSerial
    /\ \E read \in Reads :
          capture' = [capture EXCEPT !.processes = read.processes, !.of = {device}]
    /\ UNCHANGED <<device, queueVars, store, reads, guiSerial, baseline, source,
                   checkVars, series, locked, intruded>>

\* build_snapshot of a first sample and what else a read returns.
NewSnapshot(read) ==
    Snapshot(capture.serial, reads + 1, [read EXCEPT !.processes = capture.processes])

\* A baseline carries, for the properties, the phones it was read from.
NewBaseline(built) ==
    [serial |-> built.serial, id |-> built.id, items |-> built.items,
     verified |-> built.verified, of |-> capture.of \cup {device}, moved |-> capture.moved]

\* _collect's second sample, of whichever phone is bound by then; the snapshot
\* is published, or compared with the baseline that was handed over.
WorkerReads ==
    /\ Building /\ capture # None /\ capture.of # {}
    /\ device # NoSerial /\ reads < MaxReads
    /\ reads' = reads + 1
    /\ capture' = None
    /\ \E read \in Reads :
          LET snapshot == NewSnapshot(read)
              report == DiffSnapshot(Head(requests).baseline, snapshot)
          IN  Answered(IF Head(requests).kind = "save"
                       THEN [kind |-> "saved", snapshot |-> NewBaseline(snapshot)]
                       ELSE [kind |-> "checked", snapshot |-> snapshot, report |-> report,
                             heuristics |-> EvaluateHeuristics(report, snapshot)])

\* No phone is bound, or adb fails half-way.
WorkerFails ==
    /\ Building
    /\ capture' = None
    /\ Answered(Failed)
    /\ UNCHANGED reads

\* export_session, written or not.
WorkerExports ==
    /\ requests # <<>> /\ Head(requests).kind = "export"
    /\ Answered([kind |-> "exported"])
    /\ UNCHANGED <<capture, reads>>

-----------------------------------------------------------------------------
(* The window's slots for the worker's signals. *)

Received(kind) == results # <<>> /\ Head(results).kind = kind /\ results' = Tail(results)

\* on_baseline_saved: adopted, and written to its file unless that fails.
OnBaselineSaved ==
    LET snapshot == Head(results).snapshot
    IN  /\ Received("saved")
        /\ Adopt(snapshot, "created")
        /\ store' \in {store, [store EXCEPT ![FileOf[snapshot.serial]] = snapshot]}
        /\ UNCHANGED <<device, capture, signals, requests, reads, guiSerial, intruded>>

\* _record_check_observations
RecordCheck(snapshot) ==
    [k \in Observed |-> Record(series[k], Observation(snapshot, k))]

\* on_drift_checked: the check is recorded before it is judged.
OnDriftChecked ==
    LET answer == Head(results)
    IN  /\ Received("checked")
        /\ current' = answer.snapshot
        /\ drift' = answer.report
        /\ heuristics' = answer.heuristics
        /\ locked' = FALSE
        /\ IF baseline = None THEN UNCHANGED <<series, stability, newRefs>>
           ELSE /\ series' = RecordCheck(answer.snapshot)
                /\ stability' = StabilizeDrift(answer.report, baseline, answer.snapshot, series')
                /\ newRefs' = NewIdentities("process", answer.report, baseline, answer.snapshot)
        /\ UNCHANGED <<device, capture, signals, requests, store, reads, guiSerial,
                       baseline, source, intruded>>

\* on_baseline_failed, on_drift_failed, on_export_completed.
OnOperationEnded ==
    /\ Received("failed") \/ Received("exported")
    /\ locked' = FALSE
    /\ UNCHANGED <<device, capture, signals, requests, store, reads, guiSerial,
                   baseline, source, checkVars, series, intruded>>

\* A sample of the monitor joins the window of observations of a category.
OnMonitorSample(category) ==
    /\ guiSerial # NoSerial /\ reads < MaxReads
    /\ reads' = reads + 1
    /\ \E read \in Reads :
          series' = [series EXCEPT ![category] =
                        Record(@, Observation(Snapshot(guiSerial, reads + 1, read), category))]
    /\ UNCHANGED <<device, capture, queueVars, store, guiSerial, baseline, source,
                   checkVars, locked, intruded>>

\* The program is closed, or crashes, and is started again: only the files stay,
\* each as it was before or after a save (os.replace is atomic).
Restart ==
    /\ device' = NoSerial /\ guiSerial' = NoSerial /\ capture' = None
    /\ signals' = <<>> /\ requests' = <<>> /\ results' = <<>>
    /\ baseline' = None /\ source' = "none"
    /\ current' = None /\ drift' = None /\ heuristics' = None
    /\ stability' = None /\ newRefs' = {}
    /\ series' = NoSeries
    /\ locked' = FALSE /\ intruded' = FALSE
    /\ UNCHANGED <<store, reads>>

BaselineNext ==
    \/ ConnectionChanges \/ OnSerialReady \/ OnDeviceLost
    \/ SaveClicked \/ CheckClicked \/ ExportClicked
    \/ WorkerStarts \/ WorkerReadsProcesses \/ WorkerReads
    \/ WorkerFails \/ WorkerExports
    \/ OnBaselineSaved \/ OnDriftChecked \/ OnOperationEnded
    \/ \E k \in Observed : OnMonitorSample(k)
    \/ Restart

BaselineSpec == BaselineInit /\ [][BaselineNext]_baselineVars

-----------------------------------------------------------------------------
BaselineTypeOK ==
    /\ device \in MaybeSerial /\ guiSerial \in MaybeSerial
    /\ capture # None => capture.serial \in Serial /\ capture.of \subseteq Serial
    /\ signals \in Seq(MaybeSerial)
    /\ \A i \in DOMAIN requests : requests[i].kind \in {"save", "check", "export"}
    /\ \A f \in File : store[f] # None => FileOf[store[f].serial] = f
    /\ reads \in 0 .. MaxReads
    /\ source \in {"none", "created", "loaded"} /\ (baseline = None <=> source = "none")
    /\ \A k \in Observed : Len(series[k]) <= TrackerWindow
    /\ locked \in BOOLEAN /\ intruded \in BOOLEAN

\* The report shown, the snapshot and the signals exported with it and the marks
\* in the tables were computed against the baseline they are shown with, unless
\* a stored baseline was adopted while an operation was under way.
DriftOfThisBaseline ==
    drift # None /\ ~intruded => baseline # None /\ drift.baseline = baseline.id

\* A baseline restored from disk is one captured from the very phone that was
\* announced, even if two serials share a file, and all of it was read from that
\* phone unless the connection moved while it was read: a failed or repeated
\* capture, a save that failed and a restart mix nothing in.
LoadedIsOwn ==
    [][source' = "loaded" /\ baseline' # baseline =>
          /\ baseline'.serial = guiSerial'
          /\ baseline'.of = {guiSerial'} \/ baseline'.moved]_baselineVars

\* Every failure mode maps to None, a wrong device among them (load): what is
\* restored for a phone was read from that phone.
LoadedWasReadThere ==
    [][source' = "loaded" /\ baseline' # baseline =>
          baseline'.of = {guiSerial'}]_baselineVars

\* An absence is meaningful only after two observations that lack the identity
\* (ADR 0002): what is reported as removed for good was missing from at least two
\* reads of the phone.
RemovalSeenTwice ==
    stability # None =>
        \A e \in stability["meaningful"] :
            e.category \in Observed /\ e.change = "removed" =>
                LET window == series[e.category]
                IN  Cardinality({window[i].read : i \in {k \in DOMAIN window :
                                    e.identity \notin window[k].identities}}) >= 2

=============================================================================
