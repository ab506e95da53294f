------------------------------ MODULE CaseDesk -------------------------------
(***************************************************************************)
(* The investigation as the window keeps it (gui/main_window.py): the      *)
(* baseline, the last drift check with its signals and its stability, the  *)
(* live samples and the permission audits that arrive meanwhile, the       *)
(* incident report made of them on demand, and its export by a worker on a *)
(* thread of its own.  BaselineFlow has what happens before a snapshot     *)
(* arrives; here it arrives.                                               *)
(***************************************************************************)
EXTENDS Incident

CONSTANTS
    None,
    Serial,              \* the phone all of it is about
    DeskReads,           \* what a read may return, as for BaselineFlow, with its rows
    Audits,              \* what an audit may return: [package, flags]
    MaxAudits,           \* how many audits are kept
    MaxReads, MaxExports \* bounds: reads, exports on their way

\* What a phone answers is finite.
ASSUME DeskAssumption ==
    /\ MaxAudits \in Nat \ {0} /\ MaxReads \in Nat /\ MaxExports \in Nat
    /\ \A read \in DeskReads : /\ IsFiniteSet(read.processes) /\ IsFiniteSet(read.packages)
                             /\ IsFiniteSet(read.sockets)

VARIABLES
    reads,       \* auxiliary: how many reads have been made
    baseline, current, drift, signals,
    stability,   \* _stability: the events of each bucket, and the records kept
    series,      \* _observation_tracker
    live,        \* _latest_processes: the rows, and the observation they make
    tables,      \* _latest_network_investigation
    audits,      \* _permission_audits
    incident,    \* _incident_report
    exporting,   \* IncidentPanel._exporting
    exports      \* requests and answers of the incident worker on their way

checkVars == <<current, drift, signals, stability>>
liveVars == <<live, tables>>
deskVars == <<reads, baseline, checkVars, series, liveVars, audits, incident, exporting, exports>>

NoSeries == [k \in Observed |-> <<>>]

DeskInit ==
    /\ reads = 0
    /\ baseline = None /\ current = None /\ drift = None
    /\ signals = {} /\ stability = None
    /\ series = NoSeries
    /\ live = None /\ tables = None
    /\ audits = <<>>
    /\ incident = None
    /\ exporting = FALSE /\ exports = <<>>

Read(read) == Snapshot(Serial, reads + 1, read)
MakeRead == reads < MaxReads /\ reads' = reads + 1

-----------------------------------------------------------------------------
(* What arrives. *)

\* Mutant: the report of the baseline before stays on the panel.
ResetIncidentPartly ==
    /\ signals' = {} /\ audits' = <<>>
    /\ UNCHANGED <<incident, exporting>>

\* _reset_incident_state: set_report also releases the panel's lock.
ResetIncident ==
    /\ signals' = {} /\ audits' = <<>>
    /\ incident' = None /\ exporting' = FALSE

\* on_baseline_saved
OnBaselineSaved(read) ==
    /\ MakeRead
    /\ baseline' = Read(read)
    /\ current' = None /\ drift' = None /\ stability' = None
    /\ series' = NoSeries
    /\ ResetIncident
    /\ UNCHANGED <<liveVars, exports>>

\* update_snapshots: what was sampled, or, after a failed read, what the monitor
\* still has, joins the window of observations unless it is its last entry.
OnProcesses(sample) ==
    /\ live' = sample
    /\ series' = [series EXCEPT !["process"] = Record(@, sample.observation)]
    /\ UNCHANGED <<baseline, checkVars, tables, audits, incident, exporting, exports>>

OnFreshProcesses(read) ==
    /\ MakeRead
    /\ OnProcesses([rows |-> read.rows, observation |-> Observation(Read(read), "process")])

OnCachedProcesses == live # None /\ OnProcesses(live) /\ UNCHANGED reads

\* update_network_investigation
OnSocketTables(read) ==
    /\ MakeRead
    /\ tables' = read.tables
    /\ series' = [series EXCEPT !["socket"] = Record(@, Observation(Read(read), "socket"))]
    /\ UNCHANGED <<baseline, checkVars, live, audits, incident, exporting, exports>>

\* update_connection(a loss state): the live mirrors go, the case stays.
OnDeviceLost ==
    /\ live' = None /\ tables' = None
    /\ UNCHANGED <<reads, baseline, checkVars, series, audits, incident, exporting, exports>>

\* on_permission_audit_ready
OnPermissionAudit(audit) ==
    /\ audits' = LastTaken(Append(audits, audit), MaxAudits)
    /\ UNCHANGED <<reads, baseline, checkVars, series, liveVars, incident, exporting, exports>>

\* on_drift_checked; a report of the check before stays on the panel.
OnDriftChecked(read) ==
    LET snapshot == Read(read)
        report == DiffSnapshot(baseline, snapshot)
    IN  /\ baseline # None
        /\ MakeRead
        /\ current' = snapshot
        /\ drift' = report
        /\ signals' = EvaluateHeuristics(report, snapshot)
        /\ series' = [k \in Observed |-> Record(series[k], Observation(snapshot, k))]
        /\ stability' = [buckets |-> StabilizeDrift(report, baseline, snapshot, series'),
                         records |-> UNION {EntityStabilities(k, baseline, snapshot,
                                               Append(series'[k], Observation(snapshot, k))) :
                                         k \in {e.category : e \in report.events} \cap Observed}]
        /\ UNCHANGED <<baseline, liveVars, audits, incident, exporting, exports>>

-----------------------------------------------------------------------------
(* What is made of it. *)

LiveRows == IF live = None THEN {} ELSE live.rows
TableRows == IF tables = None THEN {} ELSE tables.rows
UidPackages == IF tables = None THEN <<>> ELSE tables.packages
AuditSet == {audits[i] : i \in DOMAIN audits}

\* _on_incident_generate_requested
GenerateReport ==
    /\ drift # None /\ ~exporting
    /\ incident' = BuildReport([baseline |-> baseline, current |-> current, report |-> drift],
                               stability.buckets, signals, AuditSet,
                               LiveRows, TableRows, UidPackages)
    /\ UNCHANGED <<reads, baseline, checkVars, series, liveVars, audits, exporting, exports>>

\* _on_why_requested: what the dialog would say of a signal now.
Explanation(signal) ==
    Explain(signal, current, drift, LiveRows, TableRows, AuditSet, stability.records)

\* _on_incident_export_requested, unless the file dialog is cancelled.
ExportReport ==
    /\ incident # None /\ ~exporting /\ Len(exports) < MaxExports
    /\ exporting' = TRUE
    /\ exports' = Append(exports, "request")
    /\ UNCHANGED <<reads, baseline, checkVars, series, liveVars, audits, incident>>

\* Mutant: the worker says nothing when a write fails.
WriteSilently ==
    \E i \in DOMAIN exports :
        /\ exports[i] = "request" /\ \A j \in 1 .. i - 1 : exports[j] # "request"
        /\ exports' \in {[exports EXCEPT ![i] = "answer"],
                         SubSeq(exports, 1, i - 1) \o SubSeq(exports, i + 1, Len(exports))}

\* request_export: the requests are answered in turn, written or not.
Write ==
    \E i \in DOMAIN exports :
        /\ exports[i] = "request" /\ \A j \in 1 .. i - 1 : exports[j] # "request"
        /\ exports' = [exports EXCEPT ![i] = "answer"]

WorkerWrites ==
    /\ Write
    /\ UNCHANGED <<reads, baseline, checkVars, series, liveVars, audits, incident, exporting>>

\* on_incident_export_completed
OnExportCompleted ==
    /\ exports # <<>> /\ Head(exports) = "answer"
    /\ exports' = Tail(exports)
    /\ exporting' = FALSE
    /\ UNCHANGED <<reads, baseline, checkVars, series, liveVars, audits, incident>>

DeskNext ==
    \/ \E read \in DeskReads :
          \/ OnBaselineSaved(read) \/ OnDriftChecked(read)
          \/ OnFreshProcesses(read) \/ OnSocketTables(read)
    \/ OnCachedProcesses
    \/ OnDeviceLost
    \/ \E audit \in Audits : OnPermissionAudit(audit)
    \/ GenerateReport \/ ExportReport
    \/ WorkerWrites \/ OnExportCompleted

DeskSpec == DeskInit /\ [][DeskNext]_deskVars

-----------------------------------------------------------------------------
DeskTypeOK ==
    /\ reads \in 0 .. MaxReads
    /\ (drift = None <=> current = None) /\ (drift = None <=> stability = None)
    /\ drift # None => baseline # None
    /\ \A k \in Observed : Len(series[k]) <= TrackerWindow
    /\ Len(audits) <= MaxAudits
    /\ exporting \in BOOLEAN
    /\ exports \in Seq({"request", "answer"})

\* Every change the check found is in the report exactly once: as a finding, or
\* set aside on the timeline as transient or unconfirmed; and the counts of the
\* summary and of the investigation section are those of what is listed.
EveryChangeReportedOnce ==
    incident # None =>
        LET found == {f.about : f \in {g \in incident.findings : g.type = "DRIFT"}}
            aside == {t.about : t \in {u \in incident.timeline :
                                          u.type \in {"TRANSIENT_CHANGE", "NOT_OBSERVED"}}}
        IN  /\ found \cap aside = {}
            /\ Cardinality(found) + Cardinality(aside) = incident.changes
            /\ incident.stability["meaningful"] = Cardinality(found)

\* The report that can be read and exported was made from the baseline in force,
\* though checks, audits and losses of the phone may have followed it.
ReportOfThisBaseline ==
    incident # None => baseline # None /\ incident.baseline = baseline.id

\* The panel is locked only while an answer to an export is on its way.
ExportIsAnswered == exporting => exports # <<>>

\* explain.py: facts only. A signal about new things is not explained by saying
\* that what it is about was there before.
NewIsNotCalledOld ==
    drift # None =>
        \A s \in signals : \A f \in Explanation(s) :
            "in_baseline" \in f.says =>
                \E k \in Category : Related(EntityOf(s), baseline)[k] # {}

=============================================================================
