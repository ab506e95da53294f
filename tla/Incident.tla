------------------------------ MODULE Incident -------------------------------
(***************************************************************************)
(* incident/builder.py: the incident report of a drift check.  A session is *)
(* [baseline, current, report]; stability gives the events of each bucket. *)
(* A reference (D-001, P-001, ...) is the very thing it refers to, so a    *)
(* report is made of sets; numbering and wording are left out.             *)
(***************************************************************************)
EXTENDS Investigation

Finding(type, severity, entity, about, refs) ==
    [type |-> type, severity |-> severity, entity |-> entity, about |-> about, refs |-> refs]

-----------------------------------------------------------------------------
(* Findings. *)

\* Mutant: what was seen only once is reported as a finding too.
DriftFindingsUnlessUncertain(report, stability) ==
    {Finding("DRIFT", "INFO", [name |-> e.identity.name], e, {e}) :
        e \in {f \in report.events : BucketOf(f, stability) # "uncertain"}}

\* _build_drift_findings: only changes the analysis found meaningful.
DriftFindings(report, stability) ==
    {Finding("DRIFT", "INFO", [name |-> e.identity.name], e, {e}) :
        e \in {f \in report.events : BucketOf(f, stability) = "meaningful"}}

\* _build_signal_findings: whatever bears a contributing name is referred to,
\* confirmed or not.
SignalFindings(signals, report) ==
    {Finding("SUSPICIOUS_SIGNAL", s.severity, EntityOf(s), s,
             {e \in report.events : e.identity.name \in s.names}) : s \in signals}

\* _build_permission_findings: one for each flag of each audit.
PermissionFindings(audits) ==
    UNION {{Finding("PERMISSION_COMBINATION", "INFO", [name |-> a.package],
                     [audit |-> a, flag |-> f], {}) :
               f \in a.flags} : a \in audits}

-----------------------------------------------------------------------------
(* Evidence. *)

IsDriftOf(finding, categories) ==
    finding.type # "DRIFT" \/ finding.about.category \in categories

\* What the event of a drift finding names, in the snapshot that has it.
SourceItems(finding, category, session) ==
    IF finding.type = "DRIFT" /\ finding.about.category = category
    THEN {i \in (IF finding.about.change = "new" THEN session.current
                 ELSE session.baseline).items[category] : i.name = finding.about.identity.name}
    ELSE {}

\* _collect_process_identities and _collect_socket_identities.
Identities(findings, category, session) ==
    UNION {SourceItems(f, category, session)
             \cup (IF IsDriftOf(f, {category}) THEN Related(f.entity, session.current)[category]
                   ELSE {}) : f \in findings}

\* The packages that own one of the sockets: by the tables' map, else by the
\* current snapshot, else by the baseline.
OwnersOf(socket, session, uidPackages) ==
    LET inSnapshot(s) == {p.name : p \in {q \in s.items.package : q.uid = socket.uid}}
        mapped == IF socket.uid \in DOMAIN uidPackages THEN uidPackages[socket.uid] ELSE {}
        names == IF mapped # {} THEN mapped
                 ELSE IF inSnapshot(session.current) # {} THEN inSnapshot(session.current)
                 ELSE inSnapshot(session.baseline)
    IN  IF socket.uid = NoUid THEN {}
        ELSE {p \in session.current.items.package \cup session.baseline.items.package :
                 p.name \in names /\ p.uid = socket.uid}

\* _collect_package_identities
PackageIdentities(findings, session, uidPackages) ==
    Identities(findings, "package", session)
        \cup UNION {OwnersOf(s, session, uidPackages) :
                       s \in Identities(findings, "socket", session)}

Row(category, identity, session, detail) ==
    [category |-> category, identity |-> identity,
     status |-> StatusIn(category, identity, session.baseline, session.current),
     detail |-> detail]

\* _build_process_evidence: metrics of a live process of that name and UID.
ProcessRows(findings, session, live) ==
    {Row("process", i, session, {[pid |-> p.pid] : p \in {q \in live : q.name = i.name /\ q.uid = i.uid}}) :
        i \in Identities(findings, "process", session)}

\* _build_package_evidence: the audits of that package.
PackageRows(findings, session, audits, uidPackages) ==
    {Row("package", i, session, {a \in audits : a.package = i.name}) :
        i \in PackageIdentities(findings, session, uidPackages)}

\* _build_socket_evidence: the state of a table row with that name.
SocketRows(findings, session, tables) ==
    {Row("socket", i, session, {[state |-> s] : s \in SocketStates(i.name, tables)}) :
        i \in Identities(findings, "socket", session)}

\* _attach_related_refs: rows of what the current snapshot relates to the entity.
RowsOf(finding, rows, session) ==
    {r \in rows : r.identity \in Related(finding.entity, session.current)[r.category]}

-----------------------------------------------------------------------------
(* Summary. *)

SeverityCount(findings) ==
    [s \in {"HIGH", "MEDIUM", "INFO"} |-> Cardinality({f \in findings : f.severity = s})]

Assessment(count) ==
    IF count["HIGH"] > 0 THEN "REVIEW_REQUIRED"
    ELSE IF count["MEDIUM"] > 0 THEN "REVIEW_RECOMMENDED"
    ELSE IF count["INFO"] > 0 THEN "INFORMATIONAL" ELSE "NONE"

\* _RECOMMENDATIONS, by what a finding is: each text of the table by a key.
Steps(finding) ==
    IF finding.type # "DRIFT" THEN {<<"review", finding.type>>}
    ELSE IF finding.about.change = "removed" THEN {<<"confirm", finding.about.category>>}
    ELSE {"verify", "inspect", "compare"} \X {finding.about.category}

\* _build_recommendations: a text is given once, with the findings it is for.
Recommendations(findings) ==
    {[text |-> t, findings |-> {f \in findings : t \in Steps(f)}] :
        t \in UNION {Steps(f) : f \in findings}}

\* _build_timeline: the entries of the investigation log, built a second time.
Timeline(report, stability, signals, audits) ==
    InvestigationTimeline(report, stability, signals, audits)

\* build_incident_report
BuildReport(session, stability, signals, audits, live, tables, uidPackages) ==
    LET report == session.report
        findings == DriftFindings(report, stability) \cup SignalFindings(signals, report)
                        \cup PermissionFindings(audits)
        rows == ProcessRows(findings, session, live)
                    \cup PackageRows(findings, session, audits, uidPackages)
                    \cup SocketRows(findings, session, tables)
    IN  [baseline |-> session.baseline.id,
         current |-> session.current.id,
         findings |-> findings,
         rows |-> rows,
         links |-> [f \in findings |-> RowsOf(f, rows, session)],
         timeline |-> Timeline(report, stability, signals, audits),
         severity |-> SeverityCount(findings),
         assessment |-> Assessment(SeverityCount(findings)),
         changes |-> Cardinality(report.events),
         stability |-> [b \in {"meaningful", "transient", "uncertain"} |->
                           Cardinality(stability[b])],
         recommendations |-> Recommendations(findings)]

=============================================================================
