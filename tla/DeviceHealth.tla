---------------------------- MODULE DeviceHealth ----------------------------
(***************************************************************************)
(* health/engine.py: the health of a phone from the latest snapshots, and  *)
(* recommend/engine.py: what the window advises.  A snapshot record holds  *)
(*   cpu, memory, storage  a percentage, or None                           *)
(*   battery               [level, temperature], or None                   *)
(*   processes             a set of [pid, name, user, cpu, memory], or None *)
(*   network               whether a non-loopback interface is up, or None *)
(*   inventory             whether an application inventory is present     *)
(***************************************************************************)
EXTENDS Thresholds, SequencesExt

Status == {"healthy", "warning", "critical", "unavailable"}
Component == {"cpu", "memory", "battery", "storage", "processes",
              "applications", "connectivity"}

StatusOf == [normal |-> "healthy", elevated |-> "warning", high |-> "critical"]
Score == [healthy |-> 100, warning |-> 70, critical |-> 40, unavailable |-> 0]

LevelStatus(value, level) == IF value = None THEN "unavailable" ELSE StatusOf[level]

\* A temperature that is not normal replaces what the level says.
BatteryStatus(battery) ==
    IF battery = None THEN "unavailable"
    ELSE LET heat == ClassifyTemperature(battery.temperature)
         IN  StatusOf[IF heat = "normal" THEN ClassifyBattery(battery.level) ELSE heat]

\* Only user applications are held responsible.
HeavyCpu(processes) ==
    {p \in processes : p.user /\ p.cpu # None /\ p.cpu >= CpuHigh}
HeavyMemory(processes) ==
    {p \in processes : p.user /\ p.memory # None /\ p.memory >= MemoryHigh}

ProcessStatus(processes) ==
    IF processes = None THEN "unavailable"
    ELSE IF HeavyCpu(processes) # {} THEN "critical"
    ELSE IF HeavyMemory(processes) # {} THEN "warning" ELSE "healthy"

ComponentStatus(s) ==
    [cpu          |-> LevelStatus(s.cpu, ClassifyCpu(s.cpu)),
     memory       |-> LevelStatus(s.memory, ClassifyMemory(s.memory)),
     battery      |-> BatteryStatus(s.battery),
     storage      |-> LevelStatus(s.storage, ClassifyStorage(s.storage)),
     processes    |-> ProcessStatus(s.processes),
     applications |-> IF s.inventory THEN "healthy" ELSE "unavailable",
     connectivity |-> IF s.network = None THEN "unavailable"
                      ELSE IF s.network THEN "healthy" ELSE "warning"]

-----------------------------------------------------------------------------
(* Findings, in the order the engine appends them. *)

\* value: what the evidence quotes, where advice repeats it.
FindingIf(status, component, about, value) ==
    IF status \in {"warning", "critical"}
    THEN <<[component |-> component, about |-> about, severity |-> status, value |-> value]>>
    ELSE <<>>

LevelFinding(level, component, about, value) ==
    FindingIf(StatusOf[level], component, about, value)

CpuFindings(cpu) == LevelFinding(ClassifyCpu(cpu), "cpu", "use", cpu)
MemoryFindings(memory) == LevelFinding(ClassifyMemory(memory), "memory", "use", memory)
StorageFindings(storage) == LevelFinding(ClassifyStorage(storage), "storage", "use", storage)

BatteryFindings(battery) ==
    IF battery = None THEN <<>>
    ELSE LevelFinding(ClassifyBattery(battery.level), "battery", "charge", None)
         \o LevelFinding(ClassifyTemperature(battery.temperature), "battery", "heat", None)

ProcessFindings(processes) ==
    FindingIf(ProcessStatus(processes), "processes", "use", None)

LinkFindings(network) ==
    FindingIf(IF network = FALSE THEN "warning" ELSE "healthy", "connectivity", "link", None)

HealthFindings(s) ==
    CpuFindings(s.cpu) \o MemoryFindings(s.memory) \o BatteryFindings(s.battery)
    \o StorageFindings(s.storage) \o ProcessFindings(s.processes) \o LinkFindings(s.network)

-----------------------------------------------------------------------------
(* The device as a whole. *)

Available(components) == {c \in Component : components[c] # "unavailable"}

WorstStatus(statuses) ==
    IF statuses = {} THEN "unavailable"
    ELSE IF "critical" \in statuses THEN "critical"
    ELSE IF "warning" \in statuses THEN "warning" ELSE "healthy"

\* The mean score of the available components, in tenths, rounded.
OverallScore(components) ==
    LET available == Available(components)
        n == Cardinality(available)
        total == MapThenFoldSet(LAMBDA x, y : x + y, 0, LAMBDA c : Score[components[c]],
                                LAMBDA S : CHOOSE c \in S : TRUE, available)
    IN  IF n = 0 THEN None ELSE (20 * total + n) \div (2 * n)

\* evaluate_device_health.
EvaluateHealth(s) ==
    LET components == ComponentStatus(s)
    IN  [status     |-> WorstStatus({components[c] : c \in Available(components)}),
         score      |-> OverallScore(components),
         components |-> components,
         findings   |-> HealthFindings(s)]

-----------------------------------------------------------------------------
(* Advice, derived from the findings and, for an application to stop, from the *)
(* process table and the inventory.                                        *)

\* _flagged_user_processes: a user process at a threshold, whose name is an
\* installed user application.  An invalid name is never an installed one.
Flagged(processes, withMemory, installed, users) ==
    IF processes = None THEN {}
    ELSE {p \in HeavyCpu(processes) \cup (IF withMemory THEN HeavyMemory(processes) ELSE {}) :
              p.name \in installed \cap users}

\* Heaviest on the CPU first, then by pid.
Heavier(p, q) ==
    LET Load(r) == IF r.cpu = None THEN 0 ELSE r.cpu
    IN  Load(p) > Load(q) \/ (Load(p) = Load(q) /\ p.pid < q.pid)

InOrder(flagged) ==
    CHOOSE s \in [1 .. Cardinality(flagged) -> flagged] :
        \A i, j \in DOMAIN s : i < j => Heavier(s[i], s[j])

Advice(finding, target, evidence) ==
    [component |-> finding.component, about |-> finding.about,
     severity |-> finding.severity, target |-> target, evidence |-> evidence]

\* Informational advice has no target; a process finding gives none.
Informational(finding) ==
    IF finding.component = "processes" THEN <<>>
    ELSE <<Advice(finding, None, finding.value)>>

\* A force-stop quotes the load that flagged the process.
ForceStop(finding, p) ==
    Advice(finding, p.name, IF p \in HeavyCpu({p}) THEN p.cpu ELSE p.memory)

\* One force-stop per application not recommended before.
WithForceStops(recs, finding, flagged) ==
    FoldLeft(LAMBDA acc, p : IF \E i \in DOMAIN acc : acc[i].target = p.name
                             THEN acc ELSE Append(acc, ForceStop(finding, p)),
             recs, flagged)

ForFinding(recs, finding, processes, installed, users) ==
    LET informed == recs \o Informational(finding)
    IN  IF finding.component \in {"cpu", "processes"}
        THEN WithForceStops(informed, finding,
                 InOrder(Flagged(processes, finding.component = "processes", installed, users)))
        ELSE informed

\* recommend: a stable sort puts what is critical first.
Recommend(findings, processes, installed, users) ==
    LET all == FoldLeft(LAMBDA acc, f : ForFinding(acc, f, processes, installed, users),
                        <<>>, findings)
        Of(severity) == SelectSeq(all, LAMBDA rec : rec.severity = severity)
    IN  Of("critical") \o Of("warning")

=============================================================================
