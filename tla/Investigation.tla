---------------------------- MODULE Investigation ----------------------------
(***************************************************************************)
(* investigation/: what the window derives from a drift check without      *)
(* asking the phone again: the entities a key stands for, the facts behind *)
(* a signal, the owner of a socket, the log of the check, and the tree of  *)
(* the processes.  An entity is [name] or, for the rule about several      *)
(* sockets, [uid].  A row of a live process sample is [pid, name, uid,     *)
(* user, ppid], a row of the socket tables [name, uid, state].             *)
(***************************************************************************)
EXTENDS Drift

CONSTANTS
    NoPid,       \* a parent or an owner that is not known
    Plain        \* socket names that split at their colons: those of IPv4

EntityOf(signal) ==
    IF signal.rule = "several_sockets" THEN signal.about
    ELSE [name |-> signal.about.name]

IsOwner(entity) == "uid" \in DOMAIN entity

Matches(entity, identity) ==
    IF IsOwner(entity) THEN identity.uid = entity.uid ELSE identity.name = entity.name

\* _related_identities, and what an explanation starts from.
Related(entity, snapshot) ==
    [k \in Category |-> {i \in snapshot.items[k] : Matches(entity, i)}]

-----------------------------------------------------------------------------
(* explain.py: the facts behind a signal. *)

\* _is_new: an event carries the name of an entity, never an owner.
IsNew(entity, report) ==
    ~IsOwner(entity) /\ \E e \in report.events :
                            e.change = "new" /\ e.identity.name = entity.name

Fact(section, says, about) == [section |-> section, says |-> says, about |-> about]

\* What the baseline has to say: of the first kind the entity is found as.
PresenceFacts(entity, snapshot, report) ==
    LET found == {k \in Category : Related(entity, snapshot)[k] # {}}
        kind == IF IsOwner(entity) \/ "socket" \in found THEN "socket"
                ELSE IF "process" \in found THEN "process" ELSE "package"
        says == IF IsNew(entity, report) THEN {"new"} ELSE {"in_baseline"}
    IN  IF ~IsOwner(entity) /\ found = {} THEN {} ELSE {Fact(kind, says, entity)}

\* entity_stability_for: the first record of the name, in whichever order.
StabilityFacts(entity, stabilities) ==
    LET named == {r \in stabilities : ~IsOwner(entity) /\ r.identity.name = entity.name}
        first == CHOOSE r \in named : TRUE
    IN  IF named = {} THEN {}
        ELSE IF first.state \in {"PERSISTENT", "TRANSIENT", "UNCERTAIN"}
        THEN {Fact("baseline", {first.state}, entity)} ELSE {}

FirstThree(rows, Before(_, _)) ==
    {r \in rows : Cardinality({q \in rows : Before(q, r)}) < 3}

\* The live processes a signal is about: by name, or by the UID a process of
\* the check has under that name.
LiveProcesses(entity, snapshot, live) ==
    {p \in live :
        IF IsOwner(entity) THEN p.uid = entity.uid
        ELSE \/ p.name = entity.name
             \/ \E i \in Related(entity, snapshot).process : i.uid = p.uid}

ProcessFacts(entity, snapshot, live) ==
    LET Before(p, q) == p.pid < q.pid
    IN  {Fact("process", {"live"}, p) :
            p \in FirstThree(LiveProcesses(entity, snapshot, live), Before)}

\* The state the latest tables give a socket, of any row with its name.
SocketStates(name, tables) == {s.state : s \in {t \in tables : t.name = name}}

\* The sockets of the entity, and those its contributing events name; no more
\* than three of each are quoted.
SocketFacts(signal, snapshot, tables) ==
    LET own == Related(EntityOf(signal), snapshot).socket
        contributing == {s \in snapshot.items.socket :
                            s.name \in signal.names \cap Plain}
    IN  {Fact("network", SocketStates(s.name, tables), s) : s \in own \cup contributing}

\* Only the audits of a package the entity is.
PermissionFacts(entity, snapshot, audits) ==
    {Fact("permission", a.flags, [name |-> a.package]) :
        a \in {b \in audits : /\ b.flags # {}
                              /\ \E p \in Related(entity, snapshot).package : p.name = b.package}}

\* explain_signal
Explain(signal, snapshot, report, live, tables, audits, stabilities) ==
    LET entity == EntityOf(signal)
    IN  PresenceFacts(entity, snapshot, report)
            \cup StabilityFacts(entity, stabilities)
            \cup ProcessFacts(entity, snapshot, live)
            \cup SocketFacts(signal, snapshot, tables)
            \cup {Fact("package", {"is"}, p) : p \in Related(entity, snapshot).package}
            \cup PermissionFacts(entity, snapshot, audits)
            \cup {Fact("signal", {signal.severity}, [rule |-> signal.rule])}

-----------------------------------------------------------------------------
(* attribution.py: who owns a socket. *)

\* _package_names: the tables' own map is authoritative when there is one.
PackagesOf(uid, uidPackages, snapshot) ==
    IF uid = NoUid THEN {}
    ELSE IF DOMAIN uidPackages # {}
    THEN IF uid \in DOMAIN uidPackages THEN uidPackages[uid] ELSE {}
    ELSE {p.name : p \in {q \in snapshot.items.package : q.uid = uid}}

\* A process is the owner only if its UID does not contradict the socket's.
OwningProcess(socket, pid, live) ==
    {p \in live : pid # NoPid /\ p.pid = pid /\ (socket.uid = NoUid \/ p.uid = socket.uid)}

\* attribute_socket: full only if every link resolves.
Attribute(socket, pid, live, uidPackages, snapshot) ==
    LET owner == OwningProcess(socket, pid, live)
        uid == IF socket.uid # NoUid \/ owner = {} THEN socket.uid
               ELSE (CHOOSE p \in owner : TRUE).uid
        packages == PackagesOf(uid, uidPackages, snapshot)
    IN  [state |-> IF owner # {} THEN IF packages # {} THEN "FULL" ELSE "PARTIAL"
                   ELSE IF uid # NoUid THEN "PARTIAL" ELSE "UNAVAILABLE",
         process |-> owner, uid |-> uid, packages |-> packages]

\* _baseline_status, of an identity of either snapshot.
StatusIn(category, identity, baseline, snapshot) ==
    LET old == identity \in baseline.items[category]
        now == identity \in snapshot.items[category]
    IN  IF now /\ ~old THEN "new" ELSE IF old /\ ~now THEN "removed" ELSE "baseline"

-----------------------------------------------------------------------------
(* timeline.py *)

\* _bucket_of: an event no analysis mentions counts as meaningful.
BucketOf(event, stability) ==
    IF event \in stability["transient"] THEN "transient"
    ELSE IF event \in stability["uncertain"] THEN "uncertain" ELSE "meaningful"

Entry(type, about) == [type |-> type, about |-> about]

TypeOfBucket == [meaningful |-> "DRIFT_EVENT", transient |-> "TRANSIENT_CHANGE",
                 uncertain |-> "NOT_OBSERVED"]

\* build_investigation_timeline, before it is put in order of time and rank.
InvestigationTimeline(report, stability, signals, audits) ==
    {Entry(t, [baseline |-> report.baseline]) :
        t \in {"BASELINE_CREATED", "DRIFT_CHECKED", "HEURISTICS_EVALUATED"}}
    \cup {Entry(TypeOfBucket[BucketOf(e, stability)], e) : e \in report.events}
    \cup {Entry("STABILITY_ANALYZED", [category |-> k]) : k \in {e.category : e \in report.events}}
    \cup {Entry("SIGNAL_GENERATED", s) : s \in signals}
    \cup {Entry("PERMISSION_AUDITED", a) : a \in audits}

-----------------------------------------------------------------------------
(* tree.py *)

\* A process whose parent is not in the sample is a root.
Roots(live) == {p \in live : p.ppid = NoPid \/ ~\E q \in live : q.pid = p.ppid}

Unresolved(live) == {p \in Roots(live) : p.ppid # NoPid}

\* What build reaches from the roots, in at most n steps.
Reached(live) ==
    LET within[n \in 0 .. Cardinality(live)] ==
            IF n = 0 THEN Roots(live)
            ELSE within[n - 1] \cup {p \in live : \E q \in within[n - 1] : p.ppid = q.pid}
    IN  within[Cardinality(live)]

=============================================================================
