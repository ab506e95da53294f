--------------------------- MODULE BackgroundApps ---------------------------
(***************************************************************************)
(* The process table of a phone (process/parser.py, classification.py,     *)
(* collector.py): ps says who a process is, top what it uses, and the two  *)
(* outputs, read one after the other, are merged by PID.  And which of the *)
(* user's applications run in the background (background/foreground.py,    *)
(* builder.py, tracker.py): a pure aggregation of the table, the inventory of *)
(* installed applications and the foreground signal.  A process is [pid, uid, *)
(* name, cpu, memory, category]; an application [package, uid, category, label]. *)
(***************************************************************************)
EXTENDS Integers, Sequences, FiniteSets
LOCAL INSTANCE FiniteSetsExt

CONSTANTS
    NoUid,        \* a process that only top knows
    NoName,       \* top has no name for it: "<pid N>"
    NoMetric,     \* a cell that is missing or is not a percentage
    Malformed,    \* what ps output that is not this table parses to
    KernelNames,  \* the names written in brackets
    AidApp,       \* _AID_APP, where the uids of applications begin
    MaxPercent    \* what top may report of a process: 1000

ASSUME TableAssumption == AidApp \in Nat /\ MaxPercent \in Nat

-----------------------------------------------------------------------------
(* A line of ps is [layout, pid, uid, name, words], layout being "four" or   *)
(* "three" columns, or "other": blank, the header, too short, or a cell that *)
(* is not a number.                                                          *)

\* In the older layout the first word of a name with several is taken for a uid.
Readable(line) == line.layout = "four" \/ (line.layout = "three" /\ line.words = 1)

\* Of the rows, places in lines, those where a PID is read for the first time.
FirstOfPid(lines, rows) ==
    {i \in rows : \A j \in rows : j < i => lines[j].pid # lines[i].pid}

\* parse_ps_output: what is known of each PID.
ParsePs(lines) ==
    LET rows == FirstOfPid(lines, {i \in DOMAIN lines : Readable(lines[i])})
    IN  [pid \in {lines[i].pid : i \in rows} |->
            LET i == CHOOSE i \in rows : lines[i].pid = pid
            IN  [uid |-> lines[i].uid, name |-> lines[i].name]]

-----------------------------------------------------------------------------
(* A line of top is [kind, pid, cells, name], cells being the ones between   *)
(* the PID and the TIME+ column; kind is "header", "row", "untimed" for a    *)
(* row with no TIME+, or "other" when there is no PID in front.              *)

\* _parse_pct
Percent(cell) == IF cell \in 0 .. MaxPercent THEN cell ELSE NoMetric

\* _row_metrics: anchored on TIME+, the cells count from their end.
FromEnd(cells, n) == IF Len(cells) >= n THEN cells[Len(cells) - n + 1] ELSE NoMetric

RowMetrics(line) ==
    IF line.kind = "untimed"
    THEN [cpu |-> NoMetric, memory |-> NoMetric, name |-> line.name]
    ELSE [cpu |-> Percent(FromEnd(line.cells, 2)), memory |-> Percent(FromEnd(line.cells, 1)),
          name |-> line.name]

\* _find_table_header
HasHeader(lines) == \E i \in DOMAIN lines : lines[i].kind = "header"
Header(lines) ==
    CHOOSE i \in DOMAIN lines :
        lines[i].kind = "header" /\ \A j \in 1 .. i - 1 : lines[j].kind # "header"

TopRow(line) == line.kind \in {"row", "untimed"}

\* parse_top_output, and what _merge keeps of a PID that is there twice.
ParseTop(lines) ==
    LET body == SubSeq(lines, Header(lines) + 1, Len(lines))
        rows == FirstOfPid(body, {i \in DOMAIN body : TopRow(body[i])})
    IN  [pid \in {body[i].pid : i \in rows} |->
            RowMetrics(body[CHOOSE i \in rows : body[i].pid = pid])]

-----------------------------------------------------------------------------
\* classify_process
Classify(name, uid) ==
    CASE name \in KernelNames -> "kernel_thread"
      [] name \notin KernelNames /\ (uid = NoUid \/ uid < AidApp) -> "system"
      [] OTHER -> "user"

\* _merge: the processes top reported, known as ps knows them.
Merge(identities, metrics) ==
    {LET known == pid \in DOMAIN identities
         name == IF known THEN identities[pid].name ELSE metrics[pid].name
         uid == IF known THEN identities[pid].uid ELSE NoUid
     IN  [pid |-> pid, uid |-> uid, name |-> name, cpu |-> metrics[pid].cpu,
          memory |-> metrics[pid].memory, category |-> Classify(name, uid)] :
        pid \in DOMAIN metrics}

\* ProcessCollector.sample
SampleProcesses(ps, top) ==
    IF HasHeader(top) THEN Merge(ParsePs(ps), ParseTop(top)) ELSE Malformed

-----------------------------------------------------------------------------
(* The background applications.                                            *)

CONSTANTS
    NoPackage,         \* no foreground application is known
    NoLabel,           \* a label that could not be read
    ServiceOf,         \* the package whose "<package>:suffix" a process name is
    Place              \* the place of each package in the alphabet

-----------------------------------------------------------------------------
(* The foreground signal: the lines of the dump that name a resumed activity, *)
(* each the package it names, valid or not.                                   *)

\* parse_foreground_output: the first of them decides.
ParseForeground(lines) ==
    IF lines = <<>> \/ ~Head(lines).valid THEN NoPackage ELSE Head(lines).package

-----------------------------------------------------------------------------
(* Who a process belongs to. *)

UserApps(inventory) == {a \in inventory : a.category = "user"}

\* _uid_group_matches
NameMatches(package, name) == name = package \/ ServiceOf[name] = package

FirstPlaced(apps) == CHOOSE a \in apps : \A b \in apps : Place[a.package] <= Place[b.package]

\* _resolve_owner: no application, or the one.
Owner(process, inventory) ==
    LET candidates == {a \in UserApps(inventory) : a.uid # NoUid /\ a.uid = process.uid}
        exact == {a \in candidates : a.package = process.name}
        prefixed == {a \in candidates : NameMatches(a.package, process.name)}
    IN  CASE candidates = {} -> {}
          [] exact # {} -> {FirstPlaced(exact)}
          [] exact = {} /\ prefixed # {} -> {FirstPlaced(prefixed)}
          [] OTHER -> {FirstPlaced(candidates)}

\* What the loop of build_background_apps keeps of the processes.
Eligible(process) ==
    process.category # "kernel_thread" /\ (process.uid = NoUid \/ process.uid >= AidApp)

OwnedBy(app, processes, inventory) ==
    {p \in processes : Eligible(p) /\ app \in Owner(p, inventory)}

Running(processes, inventory, foreground) ==
    {a \in UserApps(inventory) :
        a.package # foreground /\ OwnedBy(a, processes, inventory) # {}}

-----------------------------------------------------------------------------
(* The entries. *)

\* _sum: of what is known.
Total(metric, processes) ==
    LET known == {p \in processes : p[metric] # NoMetric}
    IN  IF known = {} THEN NoMetric ELSE MapThenSumSet(LAMBDA p : p[metric], known)

\* A label the device gave, else the inventory's.
LabelOf(app, labels) ==
    IF app.package \in DOMAIN labels /\ labels[app.package] # NoLabel
    THEN labels[app.package] ELSE app.label

\* memory_kb: round gives the even one of the two neighbours of a half KiB.
RoundedPercent(x) ==
    LET whole == x \div 100
    IN  IF x % 100 > 50 \/ (x % 100 = 50 /\ whole % 2 = 1) THEN whole + 1 ELSE whole

Kilobytes(share, memory) ==
    IF memory > 0 /\ share # NoMetric THEN RoundedPercent(memory * share) ELSE NoMetric

EntryOf(app, processes, inventory, foreground, memory, labels) ==
    LET mine == OwnedBy(app, processes, inventory)
    IN  [package |-> app.package, uid |-> app.uid, label |-> LabelOf(app, labels),
         pids |-> {p.pid : p \in mine},
         cpu |-> Total("cpu", mine), memory |-> Total("memory", mine),
         kb |-> Kilobytes(Total("memory", mine), memory),
         state |-> IF foreground = NoPackage THEN "unknown" ELSE "background"]

\* build_background_apps
BuildBackground(processes, inventory, foreground, memory, labels) ==
    {EntryOf(a, processes, inventory, foreground, memory, labels) :
        a \in Running(processes, inventory, foreground)}

\* _sort_key: the heaviest first, what is not known last.
Heavier(x, y) == x # NoMetric /\ (y = NoMetric \/ x > y)
ListedBefore(e, f) ==
    \/ Heavier(e.memory, f.memory)
    \/ e.memory = f.memory /\ Heavier(e.cpu, f.cpu)
    \/ e.memory = f.memory /\ e.cpu = f.cpu /\ Place[e.package] < Place[f.package]

\* LastSeenTracker.annotate
Annotate(seen, packages, now) ==
    [p \in DOMAIN seen \cup packages |-> IF p \in packages THEN now ELSE seen[p]]

-----------------------------------------------------------------------------
(* What the table shows of the entries (background_apps_widget.py). *)

\* _matches_filter: by label or package; a query is the words it is part of.
MatchesFilter(entry, query) ==
    query = {} \/ entry.package \in query \/ entry.label \in query

\* What memory is shown as: the estimate, else the share, else nothing.
MemoryShown(entry) ==
    CASE entry.kb # NoMetric -> <<"megabytes", entry.kb \div 1024>>
      [] entry.kb = NoMetric /\ entry.memory # NoMetric -> <<"percent", entry.memory>>
      [] OTHER -> <<"not available">>

=============================================================================
