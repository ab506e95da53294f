------------------------------- MODULE Drift --------------------------------
(***************************************************************************)
(* Baselines compared: the structural diff of two snapshots                *)
(* (baseline/diff.py, baseline/snapshot.py, baseline/matching.py) and the  *)
(* heuristic rules that look for a pattern in it (heuristics/).  A snapshot *)
(* holds the identities of each category and the categories that were read *)
(* in full; wording and the order of presentation are left out, so a report *)
(* is a set of events, one per identity.                                   *)
(* Then drift that lasts (investigation/stability.py, completeness.py): the *)
(* window of recent observations of a category, oldest first, and the      *)
(* judgement it passes on each event of a drift report.                    *)
(***************************************************************************)
EXTENDS Integers, FiniteSets, Sequences

CONSTANTS NoUid

Category == {"process", "package", "socket"}

\* build_snapshot: processes ps could not name and sockets without a key are
\* left out; only the socket read can be reported as not verified.
Snapshot(serial, id, read) ==
    [serial |-> serial, id |-> id,
     items |-> [process |-> {p \in read.processes : p.named},
                package |-> read.packages,
                socket |-> {s \in read.sockets : s.keyed}],
     verified |-> IF read.socketsRead THEN Category ELSE Category \ {"socket"}]

\* _uid_by_package: a package under several UIDs is under none.
UidOfPackage(uids) == IF Cardinality(uids) = 1 THEN CHOOSE u \in uids : TRUE ELSE NoUid

Event(category, change, identity) ==
    [category |-> category, change |-> change, identity |-> identity]

\* The categories both snapshots verified.
Comparable(baseline, current) == baseline.verified \cap current.verified

CategoryEvents(category, baseline, current) ==
    LET old == baseline.items[category]
        new == current.items[category]
    IN  {Event(category, "new", i) : i \in new \ old}
            \cup {Event(category, "removed", i) : i \in old \ new}

\* diff_snapshot
DiffSnapshot(baseline, current) ==
    [baseline |-> baseline.id,
     events |-> UNION {CategoryEvents(k, baseline, current) :
                          k \in Comparable(baseline, current)},
     unverified |-> Category \ Comparable(baseline, current)]

\* new_process_refs and new_socket_identities: what the tables mark as new.
NewIdentities(category, report, baseline, current) ==
    IF category \in report.unverified THEN {}
    ELSE current.items[category] \ baseline.items[category]

-----------------------------------------------------------------------------
(* The heuristic rules.  An event names an entity, not an identity: a rule *)
(* considers every identity of the current snapshot with that name.        *)

NewEvents(report, category) ==
    {e \in report.events : e.category = category /\ e.change = "new"}

Named(snapshot, event) ==
    {i \in snapshot.items[event.category] : i.name = event.identity.name}

OwnedBy(uid, snapshot, event) ==
    \E i \in Named(snapshot, event) : i.uid # NoUid /\ i.uid = uid

\* names: the entities of the contributing events.
Signal(rule, severity, about, names) ==
    [rule |-> rule, severity |-> severity, about |-> about, names |-> names]

NamesOf(events) == {e.identity.name : e \in events}

\* A new process and a new socket of the same UID.
ProcessWithSocket(report, current) ==
    LET sockets == NewEvents(report, "socket")
        matching(uid) == {e \in sockets : OwnedBy(uid, current, e)}
    IN  IF report.unverified \cap {"process", "socket"} # {} THEN {}
        ELSE {Signal("process_with_socket", "MEDIUM", p, {p.name} \cup NamesOf(matching(p.uid))) :
                 p \in {q \in UNION {Named(current, e) : e \in NewEvents(report, "process")} :
                            q.uid # NoUid /\ matching(q.uid) # {}}}

\* A new package and a new process of the user's with its UID.
PackageWithProcess(report, current) ==
    LET running(uid) == {e \in NewEvents(report, "process") :
                            \E i \in Named(current, e) :
                                i.user /\ i.uid # NoUid /\ i.uid = uid}
    IN  IF report.unverified \cap {"package", "process"} # {} THEN {}
        ELSE {Signal("package_with_process", "MEDIUM", p, {p.name} \cup NamesOf(running(p.uid))) :
                 p \in {e.identity : e \in {f \in NewEvents(report, "package") :
                            /\ f.identity.uid # NoUid
                            /\ running(f.identity.uid) # {}}}}

\* How often the sockets of a UID are counted: once per event and per socket
\* of that UID the event's entity has.
SocketsCounted(uid, report, current) ==
    Cardinality({c \in NewEvents(report, "socket") \X current.items.socket :
                    c[2].name = c[1].identity.name /\ c[2].uid = uid})

\* Several new sockets of one UID.
SeveralSockets(report, current) ==
    IF "socket" \in report.unverified THEN {}
    ELSE {Signal("several_sockets", "HIGH", [uid |-> u],
                 NamesOf({e \in NewEvents(report, "socket") : OwnedBy(u, current, e)})) :
             u \in {v \in {i.uid : i \in current.items.socket} \ {NoUid} :
                        SocketsCounted(v, report, current) >= 2}}

\* evaluate_heuristics
EvaluateHeuristics(report, current) ==
    ProcessWithSocket(report, current) \cup PackageWithProcess(report, current)
        \cup SeveralSockets(report, current)

-----------------------------------------------------------------------------
(* Drift that lasts.                                                       *)

CONSTANTS
    MinPersistent,     \* MIN_PERSISTENT_OBSERVATIONS
    TrackerWindow      \* TRACKER_WINDOW

ASSUME StabilityAssumption == MinPersistent \in Nat \ {0} /\ TrackerWindow \in Nat \ {0}

Observed == {"process", "socket"}

\* snapshot_completeness, of a category of a snapshot.
Completeness(snapshot, category) ==
    IF category \in snapshot.verified THEN "COMPLETE"
    ELSE IF snapshot.items[category] # {} THEN "PARTIAL" ELSE "FAILED"

\* read: which read of the phone the observation comes from.
Observation(snapshot, category) ==
    [read |-> snapshot.id, completeness |-> Completeness(snapshot, category),
     identities |-> snapshot.items[category]]

LastTaken(series, n) ==
    IF Len(series) <= n THEN series ELSE SubSeq(series, Len(series) - n + 1, Len(series))

\* ObservationTracker.record: a read published again is not a new observation.
Record(series, observation) ==
    IF series # <<>> /\ series[Len(series)].read = observation.read THEN series
    ELSE LastTaken(Append(series, observation), TrackerWindow)

-----------------------------------------------------------------------------
(* One identity over the window. *)

\* How many of the latest observations are all in places.
Streak(series, places) ==
    CHOOSE n \in 0 .. Len(series) :
        /\ Len(series) - n + 1 .. Len(series) \subseteq places
        /\ n < Len(series) => Len(series) - n \notin places

PresenceStreak(identity, series) ==
    Streak(series, {i \in DOMAIN series : identity \in series[i].identities})

AbsentCompleteStreak(identity, series) ==
    Streak(series, {i \in DOMAIN series : /\ series[i].completeness = "COMPLETE"
                                          /\ identity \notin series[i].identities})

\* Of an identity of the baseline.
StateOfKnown(identity, series) ==
    LET latest == series[Len(series)]
    IN  CASE identity \in latest.identities -> "STABLE"
          [] identity \notin latest.identities /\ latest.completeness # "COMPLETE"
                -> "UNCERTAIN"
          [] OTHER -> IF AbsentCompleteStreak(identity, series) >= MinPersistent
                      THEN "REMOVED" ELSE "TRANSIENT"

\* Of an identity the baseline does not have.
StateOfUnknown(identity, series) ==
    LET streak == PresenceStreak(identity, series)
    IN  IF streak >= MinPersistent THEN "PERSISTENT"
        ELSE IF streak >= 1 THEN "TRANSIENT" ELSE "UNCERTAIN"

\* classify_entity_state
ClassifyEntity(identity, known, series) ==
    IF series = <<>> THEN "UNCERTAIN"
    ELSE IF known THEN StateOfKnown(identity, series) ELSE StateOfUnknown(identity, series)

-----------------------------------------------------------------------------
(* The events of a drift report. *)

\* _candidate_identities
Candidates(event, baseline, current, series) ==
    {i \in baseline.items[event.category] \cup current.items[event.category]
               \cup UNION {series[k].identities : k \in DOMAIN series} :
        i.name = event.identity.name}

\* _bucket_for: one confirmed identity of the name confirms the event.
Bucket(event, baseline, current, series) ==
    LET states == {ClassifyEntity(i, i \in baseline.items[event.category], series) :
                      i \in Candidates(event, baseline, current, series)}
        confirmed == IF event.change = "new" THEN "PERSISTENT" ELSE "REMOVED"
    IN  IF confirmed \in states THEN "meaningful"
        ELSE IF states = {} \/ "UNCERTAIN" \in states THEN "uncertain"
        ELSE "transient"

\* stabilize_drift: the snapshot of the check is the last observation; packages
\* pass through.
StabilizeDrift(report, baseline, current, seriesOf) ==
    LET bucket(e) == IF e.category \notin Observed THEN "meaningful"
                     ELSE Bucket(e, baseline, current,
                                 Append(seriesOf[e.category], Observation(current, e.category)))
    IN  [b \in {"meaningful", "transient", "uncertain"} |->
            {e \in report.events : bucket(e) = b}]

\* _entity_stabilities: the evidence kept for each identity of the pool.
EntityStabilities(category, baseline, current, series) ==
    LET pool == baseline.items[category] \cup current.items[category]
                    \cup UNION {series[k].identities : k \in DOMAIN series}
        seen(i) == {k \in DOMAIN series : i \in series[k].identities}
    IN  {[identity |-> i, state |-> ClassifyEntity(i, i \in baseline.items[category], series),
          count |-> Cardinality(seen(i)), consecutive |-> PresenceStreak(i, series),
          reads |-> {series[k].read : k \in seen(i)}] : i \in pool}

\* first_observed_by_key: the first read of the window that saw the name.
FirstObserved(name, series) ==
    LET seen == {k \in DOMAIN series : \E i \in series[k].identities : i.name = name}
    IN  IF seen = {} THEN {} ELSE {series[CHOOSE k \in seen : \A j \in seen : k <= j].read}

=============================================================================
