----------------------- MODULE MCSessionIntelligence ------------------------
(* The instances of SessionIntelligence that TLC checks. *)
EXTENDS SessionIntelligence, TLC

\* The CPU is calm, or high at one of two values; storage is what outlives a
\* signal without data.
SomeReadings ==
    {[cpu |-> c, memory |-> None, battery |-> None, processes |-> None, network |-> None] :
        c \in {50, 85, 90}}

FullDisk == {95}

\* The rule of the CPU that waits for the load to last.
CpuRule ==
    <<[id |-> "cpu_sustained_high", metric |-> "cpu", op |-> ">=", threshold |-> CpuHigh,
       duration |-> 1, cooldown |-> 1]>>

CpuKeepsThree == [m \in Metric |-> IF m = "cpu" THEN 3 ELSE 1]

NoPackages == {{}}

Phones == Permutations(Serial)

-----------------------------------------------------------------------------
(* The pure algorithms, against reference definitions. *)

D == INSTANCE Diagnostics

SeverityAt(level) ==
    IF level = "high" THEN {"critical"} ELSE IF level = "elevated" THEN {"warning"} ELSE {}

SeveritiesOf(findings) == {f.severity : f \in findings}

\* The diagnostics and the health engine call the same values high and elevated.
ASSUME DiagnosisAgreesWithHealth ==
    \A value \in (0 .. 100) \cup {None} :
        /\ SeveritiesOf(D!CpuUtilization(value)) = SeverityAt(ClassifyCpu(value))
        /\ SeveritiesOf(D!MemoryPressure(value)) = SeverityAt(ClassifyMemory(value))
        /\ SeveritiesOf(D!StorageUtilization([storage |-> value])) = SeverityAt(ClassifyStorage(value))
        /\ SeveritiesOf(D!BatteryTemperature([temperature |-> value])) =
              SeverityAt(ClassifyTemperature(value))

SomeBundles ==
    [cpu : {50, 70, 90}, memory : {None, 95},
     battery : {None} \cup [temperature : {30, 41}, health : {"good", "dead"},
                            discharging : BOOLEAN, sources : {{}, {"usb"}}],
     device : {None}]

\* A report lists every finding once, the critical ones first.
ASSUME CriticalFirst ==
    \A bundle \in SomeBundles :
        LET report == D!Diagnose(bundle)
        IN  /\ {report[i] : i \in DOMAIN report} = D!Findings(bundle)
            /\ Len(report) = Cardinality(D!Findings(bundle))
            /\ \A i, j \in DOMAIN report :
                  i < j => D!Rank(report[i].severity) >= D!Rank(report[j].severity)

\* The windows of up to five values.
Windows == UNION {[1 .. n -> {0, 100, 200}] : n \in 0 .. 5}
Recorded(values) == [i \in DOMAIN values |-> Sample(values[i], i, NoSerial)]

\* Recording into a full window is recording into a larger one, cut to size.
ASSUME ResizeKeepsNewest ==
    \A values \in Windows, maximum \in 1 .. 4 :
        LET samples == Recorded(values)
            added == AddSample(samples, Sample(50, 6, NoSerial), 6)
        IN  /\ AddSample(Resize(samples, maximum), Sample(50, 6, NoSerial), maximum) =
                  Resize(added, maximum)

\* Every sample at the threshold is in exactly one run, no other sample is.
ASSUME PeakRunsPartition ==
    \A values \in Windows :
        \A i \in DOMAIN values :
            Cardinality({run \in PeakRuns(Recorded(values), 100, 1) : i \in run[1] .. run[2]}) =
                (IF values[i] >= 100 THEN 1 ELSE 0)

\* A window that never falls does not trend down, and the other way round.
ASSUME TrendFollowsValues ==
    \A values \in Windows :
        /\ (\A i, j \in DOMAIN values : i <= j => values[i] <= values[j]) =>
              Trend(Recorded(values)) # "falling"
        /\ (\A i, j \in DOMAIN values : i <= j => values[i] >= values[j]) =>
              Trend(Recorded(values)) # "rising"

=============================================================================
