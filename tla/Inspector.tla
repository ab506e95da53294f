------------------------------ MODULE Inspector ------------------------------
(***************************************************************************)
(* The process inspector: the table of processes and the panel under it on *)
(* the GUI thread (process_widget.py, process_inspector_widget.py), the    *)
(* worker that reads /proc/<pid> by one command per file                   *)
(* (inspector_worker.py, inspector_collector.py) and the worker that       *)
(* audits the permissions of one package (permission_worker.py).  Both     *)
(* workers post their answers to the GUI thread, in the order they give    *)
(* them.                                                                   *)
(***************************************************************************)
EXTENDS Naturals, Sequences, FiniteSets

CONSTANTS
    Pid, NoPid,
    Package,             \* packages of the phone
    NoPackage,           \* no package: nothing verified, no argv0, a native process
    Dead,                \* no process has the pid
    Started,             \* what runs under each pid at first
    Comm,                \* what /proc/<pid>/status calls a process of a package: its
                         \* name cut to 15 characters, which may be another package
    MaxAsked,            \* bound: selections and audits in one behaviour
    MaxChanges           \* bound: changes of the phone and of the package list

Runs == Package \cup {NoPackage, Dead}

ASSUME InspectorAssumption ==
    /\ NoPid \notin Pid /\ NoPackage \notin Package /\ Dead \notin Package \cup {NoPackage}
    /\ DOMAIN Comm = Package /\ Started \in [Pid -> Runs]
    /\ MaxAsked \in Nat /\ MaxChanges \in Nat

VARIABLES
    online,      \* the bound phone answers
    running,     \* what runs under each pid
    rows,        \* ProcessWidget._all_processes
    visible,     \* the rows the filter lets through
    inspected,   \* ProcessWidget._inspected_pid
    chosen,      \* auxiliary: the row selected last
    requests,    \* pids on their way to the inspection worker
    reading,     \* its read in progress
    audits,      \* packages on their way to the permission worker
    toGui,       \* answers on their way to the GUI thread
    panel,       \* what the panel shows
    packages,    \* _packages
    resolved,    \* _resolved_package
    busy,        \* _permission_busy
    audit,       \* the package of the audit the panel shows
    asked, changes

phoneVars == <<online, running, changes>>
tableVars == <<rows, visible, inspected, chosen>>
workerVars == <<requests, reading, audits>>
panelVars == <<panel, packages, resolved, busy, audit>>
inspectorVars == <<phoneVars, tableVars, workerVars, toGui, panelVars, asked>>

NoPanel == [pid |-> NoPid, shown |-> FALSE]
NotReading == [pid |-> NoPid]

InspectorInit ==
    /\ online = TRUE /\ running = Started /\ changes = 0
    /\ rows = {p \in Pid : running[p] # Dead} /\ visible = rows
    /\ inspected = NoPid /\ chosen = NoPid
    /\ requests = <<>> /\ reading = NotReading /\ audits = <<>>
    /\ toGui = <<>>
    /\ panel = NoPanel /\ packages = Package /\ resolved = NoPackage
    /\ busy = FALSE /\ audit = NoPackage
    /\ asked = 0

-----------------------------------------------------------------------------
(* The phone: processes come and go, a pid is used again; another phone, or *)
(* none, may answer under the same binding.                                 *)

Changed == changes < MaxChanges /\ changes' = changes + 1

Churn ==
    /\ online /\ Changed
    /\ \E p \in Pid, what \in Runs : what # running[p] /\ running' = [running EXCEPT ![p] = what]
    /\ UNCHANGED <<online, tableVars, workerVars, toGui, panelVars, asked>>

Unplugged ==
    /\ online /\ changes < MaxChanges /\ online' = FALSE
    /\ UNCHANGED <<running, changes, tableVars, workerVars, toGui, panelVars, asked>>

Replugged ==
    /\ ~online /\ Changed /\ online' = TRUE
    /\ running' \in [Pid -> Runs]
    /\ UNCHANGED <<tableVars, workerVars, toGui, panelVars, asked>>

-----------------------------------------------------------------------------
(* The panel. *)

\* resolve_package: argv0 first, then the name; only an installed package counts.
Resolve(name, argv0, installed) ==
    IF argv0 \in installed THEN argv0
    ELSE IF name \in installed THEN name ELSE NoPackage

\* _refresh_actions
Refreshed(p, installed) ==
    IF p.shown THEN Resolve(p.name, p.argv0, installed) ELSE NoPackage

\* Mutant: what was resolved for the process shown before is kept.
PresentKeepingIdentity(p) ==
    /\ panel' = p
    /\ resolved' = IF resolved # NoPackage THEN resolved ELSE Refreshed(p, packages)
    /\ busy' = FALSE /\ audit' = NoPackage
    /\ UNCHANGED packages

\* set_snapshot, set_gone: the permissions are reset with the rest.
Present(p) ==
    /\ panel' = p
    /\ resolved' = Refreshed(p, packages)
    /\ busy' = FALSE /\ audit' = NoPackage
    /\ UNCHANGED packages

Gone(pid) == [pid |-> pid, shown |-> FALSE]

\* show_inspection_gone
PresentGone(pid) == inspected' = NoPid /\ Present(Gone(pid))

-----------------------------------------------------------------------------
(* The table. *)

\* _handle_filtered_inspection: a process that is not visible is not shown.
Rebuild ==
    IF inspected = NoPid \/ inspected \in visible'
    THEN UNCHANGED <<inspected, panelVars>>
    ELSE PresentGone(inspected)

\* set_snapshot of a tick, under whatever filter is set.
OnProcesses ==
    /\ online
    /\ rows' = {p \in Pid : running[p] # Dead} /\ visible' \in SUBSET rows'
    /\ Rebuild
    /\ UNCHANGED <<phoneVars, chosen, workerVars, toGui, asked>>

\* _on_filter_changed
OnFilter ==
    /\ visible' \in SUBSET rows
    /\ Rebuild
    /\ UNCHANGED <<phoneVars, rows, chosen, workerVars, toGui, asked>>

\* Mutant: a selection is dropped while the worker is busy, as an audit would be.
SelectWhenIdle(p) ==
    /\ asked < MaxAsked /\ asked' = asked + 1
    /\ p \in visible
    /\ chosen' = p
    /\ requests' = IF requests = <<>> /\ reading = NotReading THEN <<p>> ELSE requests
    /\ UNCHANGED <<phoneVars, rows, visible, inspected, reading, audits, toGui, panelVars>>

\* _on_selection_changed
Select(p) ==
    /\ asked < MaxAsked /\ asked' = asked + 1
    /\ p \in visible
    /\ chosen' = p
    /\ requests' = Append(requests, p)
    /\ UNCHANGED <<phoneVars, rows, visible, inspected, reading, audits, toGui, panelVars>>

-----------------------------------------------------------------------------
(* The inspection worker. *)

Post(message) == toGui' = Append(toGui, message)

\* What is known of the process whose files are being read; ran is auxiliary:
\* what the pid ran while they were.
StartReading ==
    /\ reading = NotReading /\ requests # <<>>
    /\ requests' = Tail(requests)
    /\ reading' = [pid |-> Head(requests), next |-> "status", name |-> NoPackage,
                   argv0 |-> NoPackage, ran |-> {}]
    /\ UNCHANGED <<phoneVars, tableVars, audits, toGui, panelVars, asked>>

\* status.name or stat.name
NameOf(known, what) ==
    IF known # NoPackage \/ what = NoPackage THEN known ELSE Comm[what]

\* One file: its text, or nothing when the phone denies it.
Learned(what, readable) ==
    LET seen == [reading EXCEPT !.ran = @ \cup {what}]
    IN  CASE reading.next = "status" ->
               [seen EXCEPT !.next = "stat", !.name = IF readable THEN NameOf(@, what) ELSE @]
          [] reading.next = "stat" ->
               [seen EXCEPT !.next = "cmdline", !.name = IF readable THEN NameOf(@, what) ELSE @]
          [] OTHER ->
               [seen EXCEPT !.next = "io", !.argv0 = IF readable THEN what ELSE @]

\* _read_optional of the next identity file.
ReadFile ==
    /\ reading # NotReading /\ reading.next # "io"
    /\ online /\ running[reading.pid] # Dead
    /\ \E readable \in BOOLEAN : reading' = Learned(running[reading.pid], readable)
    /\ UNCHANGED <<phoneVars, tableVars, requests, audits, toGui, panelVars, asked>>

\* The process is gone, or the command fails in some other way.
ReadFails ==
    /\ reading # NotReading /\ reading.next # "io"
    /\ reading' = NotReading
    /\ Post([kind |-> "failed", pid |-> reading.pid])
    /\ UNCHANGED <<phoneVars, tableVars, requests, audits, panelVars, asked>>

\* io is optional, and the last file.
ReadEnds ==
    /\ reading # NotReading /\ reading.next = "io"
    /\ reading' = NotReading
    /\ Post([kind |-> "ready", pid |-> reading.pid, name |-> reading.name,
             argv0 |-> reading.argv0, ran |-> reading.ran])
    /\ UNCHANGED <<phoneVars, tableVars, requests, audits, panelVars, asked>>

-----------------------------------------------------------------------------
(* Audits. *)

\* _on_audit_clicked of the panel.
AuditClicked ==
    /\ asked < MaxAsked /\ asked' = asked + 1
    /\ resolved # NoPackage /\ ~busy
    /\ audits' = Append(audits, resolved)
    /\ busy' = TRUE
    /\ UNCHANGED <<phoneVars, tableVars, requests, reading, toGui, panel, packages, resolved,
                   audit>>

\* An audit asked for on the applications page uses the same worker.
AppsAuditClicked(package) ==
    /\ asked < MaxAsked /\ asked' = asked + 1
    /\ audits' = Append(audits, package)
    /\ UNCHANGED <<phoneVars, tableVars, requests, reading, toGui, panelVars>>

\* Mutant: a command that fails is answered by nothing.
AuditAnsweringSuccess ==
    /\ audits # <<>>
    /\ audits' = Tail(audits)
    /\ IF online THEN Post([kind |-> "audit", package |-> Head(audits)]) ELSE UNCHANGED toGui
    /\ UNCHANGED <<phoneVars, tableVars, requests, reading, panelVars, asked>>

\* PermissionWorker.request_audit: the audit, or what went wrong.
Audit ==
    /\ audits # <<>>
    /\ audits' = Tail(audits)
    /\ \/ online /\ Post([kind |-> "audit", package |-> Head(audits)])
       \/ Post([kind |-> "audit_failed", package |-> Head(audits)])
    /\ UNCHANGED <<phoneVars, tableVars, requests, reading, panelVars, asked>>

-----------------------------------------------------------------------------
(* The answers. *)

Takes(kind) == toGui # <<>> /\ Head(toGui).kind = kind /\ toGui' = Tail(toGui)

OnInspectionReady ==
    /\ Takes("ready")
    /\ inspected' = Head(toGui).pid
    /\ LET m == Head(toGui)
       IN  Present([pid |-> m.pid, shown |-> TRUE, name |-> m.name, argv0 |-> m.argv0,
                    ran |-> m.ran])
    /\ UNCHANGED <<phoneVars, rows, visible, chosen, workerVars, asked>>

OnInspectionFailed ==
    /\ Takes("failed")
    /\ PresentGone(Head(toGui).pid)
    /\ UNCHANGED <<phoneVars, rows, visible, chosen, workerVars, asked>>

\* Mutant: an audit is shown under whatever process the panel shows.
ShowAuditUnmatched(package) ==
    /\ busy' = FALSE
    /\ audit' = IF panel.shown THEN package ELSE audit

\* show_permission_audit: only under the package it was asked for.
ShowAudit(package) ==
    /\ busy' = FALSE
    /\ audit' = IF package = resolved THEN package ELSE audit

OnAudit ==
    /\ Takes("audit")
    /\ ShowAudit(Head(toGui).package)
    /\ UNCHANGED <<phoneVars, tableVars, workerVars, panel, packages, resolved, asked>>

\* show_permission_audit_failed: what was shown stays.
OnAuditFailed ==
    /\ Takes("audit_failed")
    /\ busy' = FALSE
    /\ UNCHANGED <<phoneVars, tableVars, workerVars, panel, packages, resolved, audit, asked>>

\* set_packages: the list was read anew, or a package has left it.
OnPackages ==
    /\ Changed
    /\ packages' \in SUBSET Package
    /\ resolved' = Refreshed(panel, packages')
    /\ UNCHANGED <<online, running, tableVars, workerVars, toGui, panel, busy, audit, asked>>

Worker == StartReading \/ ReadFile \/ ReadFails \/ ReadEnds
Gui == OnInspectionReady \/ OnInspectionFailed \/ OnAudit \/ OnAuditFailed

InspectorNext ==
    \/ Churn \/ Unplugged \/ Replugged
    \/ OnProcesses \/ OnFilter
    \/ \E p \in Pid : Select(p)
    \/ AuditClicked
    \/ \E package \in Package : AppsAuditClicked(package)
    \/ OnPackages
    \/ StartReading \/ ReadFile \/ ReadFails \/ ReadEnds
    \/ Audit
    \/ OnInspectionReady \/ OnInspectionFailed \/ OnAudit \/ OnAuditFailed

\* Each worker has a thread of its own, the GUI thread runs an event loop, and
\* every command has a timeout.
InspectorSpec ==
    /\ InspectorInit /\ [][InspectorNext]_inspectorVars
    /\ WF_inspectorVars(Worker) /\ WF_inspectorVars(Audit) /\ WF_inspectorVars(Gui)

-----------------------------------------------------------------------------
\* Whatever order clicks, reads and deaths come in, the panel ends up with the
\* process selected last, or with the news that it is gone.
LastSelectionWins ==
    (chosen # NoPid /\ requests = <<>> /\ reading = NotReading
        /\ \A i \in DOMAIN toGui : toGui[i].kind \notin {"ready", "failed"})
      => panel.pid = chosen

\* The buttons act on an installed package that the files of the shown process
\* name: one that ran under the pid while they were read or, only where its
\* command line is of no installed package, one its cut name is read as.  Nothing
\* is left of the process shown before (set_snapshot: "must never leak").
ActionsFollowPanel ==
    resolved # NoPackage =>
        /\ panel.shown /\ resolved \in packages
        /\ \/ resolved \in panel.ran
           \/ panel.argv0 \notin packages /\ \E q \in panel.ran \cap Package : Comm[q] = resolved

\* An audit is shown under a process of the package it is of, through every
\* change of the selection, the table and the package list
\* (show_permission_audit: "a stale result must never be shown").
AuditUnderItsProcess ==
    audit # NoPackage => panel.shown /\ audit \in {panel.name, panel.argv0}

\* The audit button does not stay locked, whatever becomes of the phone.
AuditsSettle == busy ~> ~busy

\* resolve_package: "exact match against the device's own package list, never a
\* guess".  Does not hold: the name of a process whose command line was denied
\* may be cut to that of another package.
ButtonsActOnWhatRan == resolved # NoPackage => resolved \in panel.ran

\* ProcessInspectionSnapshot: "a single read-only inspection of one process'
\* /proc/<pid> files".  Does not hold: the pid may be used again between two files.
PanelIsOneProcess == panel.shown => Cardinality(panel.ran) <= 1

\* _refresh_permission_button: "usable exactly when ... no audit is in flight".
\* Does not hold: the answer to an audit of another package, or a selection,
\* unlocks the button while an audit of this one is still under way.
NoSecondAudit == ~busy /\ resolved # NoPackage => ~\E i \in DOMAIN audits : audits[i] = resolved

=============================================================================
