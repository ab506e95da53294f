----------------------------- MODULE Diagnostics -----------------------------
(***************************************************************************)
(* diagnostics/: one rule per finding, each a function of the latest       *)
(* snapshots, and the report ordered by severity.  A bundle holds          *)
(*   cpu, memory   a percentage, or None                                   *)
(*   battery       [temperature, health, discharging, sources], or None    *)
(*   device        the identity facts of the phone, each None when it was  *)
(*                 not collected, or None as a whole                       *)
(* The thresholds are those of thresholds.py.                              *)
(***************************************************************************)
EXTENDS Thresholds, FiniteSets
LOCAL INSTANCE SequencesExt

Severity == <<"info", "warning", "critical">>
Rank(severity) == CHOOSE i \in DOMAIN Severity : Severity[i] = severity

Finding(severity, category, title) ==
    {[severity |-> severity, category |-> category, title |-> title]}

\* Critical from the high threshold on, a warning only above the elevated one.
ThresholdFindings(value, elevated, high, category, title) ==
    IF value = None THEN {}
    ELSE IF value >= high THEN Finding("critical", category, title)
    ELSE IF value > elevated THEN Finding("warning", category, title) ELSE {}

-----------------------------------------------------------------------------
(* Battery. *)

BatteryTemperature(battery) ==
    ThresholdFindings(battery.temperature, TemperatureElevated, TemperatureHigh,
                      "battery", "temperature")

\* A health that cannot be read is no finding.
BatteryHealth(battery) ==
    CASE battery.health \in {"overheat", "dead"} -> Finding("critical", "battery", battery.health)
      [] battery.health \in {"cold", "over_voltage", "unspecified_failure"}
            -> Finding("warning", "battery", battery.health)
      [] OTHER -> {}

\* Discharging with a power source is a contradiction, without one it is a fact.
BatteryCharging(battery) ==
    IF ~battery.discharging THEN {}
    ELSE IF battery.sources # {} THEN Finding("warning", "battery", "contradictory")
    ELSE Finding("info", "battery", "discharging")

-----------------------------------------------------------------------------
(* Storage, memory, processor, network. *)

StorageUtilization(device) ==
    ThresholdFindings(device.storage, StorageElevated, StorageHigh, "storage", "use")

MemoryPressure(percent) ==
    ThresholdFindings(percent, MemoryElevated, MemoryHigh, "memory", "use")

CpuUtilization(percent) ==
    ThresholdFindings(percent, CpuElevated, CpuHigh, "cpu", "use")

\* Both kinds of address were read, and there is none.
WifiWithoutAddress(device) ==
    IF device.wifi = TRUE /\ device.ipv4 = {} /\ device.ipv6 = {}
    THEN Finding("warning", "network", "no_address") ELSE {}

-----------------------------------------------------------------------------
(* Security. *)

SelinuxMode(device) ==
    CASE device.selinux = "disabled" -> Finding("critical", "security", "selinux")
      [] device.selinux = "permissive" -> Finding("warning", "security", "selinux")
      [] OTHER -> {}

VerifiedBoot(device) ==
    CASE device.boot = "red" -> Finding("critical", "security", "boot")
      [] device.boot \in {"yellow", "orange"} -> Finding("warning", "security", "boot")
      [] OTHER -> {}

WarnIf(condition, title) ==
    IF condition THEN Finding("warning", "security", title) ELSE {}

BootloaderLock(device) == WarnIf(device.locked = FALSE, "bootloader")
RootEvidence(device) == WarnIf(device.root = "ROOT_EVIDENCE", "root")
DebuggableBuild(device) == WarnIf(device.debuggable = TRUE, "debuggable")
StorageEncryption(device) == WarnIf(device.encryption = "unencrypted", "encryption")
VerityMode(device) == WarnIf(device.verity \in {"eio", "logging", "disabled"}, "verity")

-----------------------------------------------------------------------------
\* A report is ordered critical first; the order within a severity, by category
\* and title, is left to the choice of a sequence.
Ordered(findings) ==
    SetToSortSeq(findings, LAMBDA f, g : Rank(f.severity) > Rank(g.severity))

Findings(bundle) ==
    (IF bundle.battery = None THEN {}
     ELSE BatteryTemperature(bundle.battery) \cup BatteryHealth(bundle.battery)
            \cup BatteryCharging(bundle.battery))
    \cup
    (IF bundle.device = None THEN {}
     ELSE StorageUtilization(bundle.device) \cup WifiWithoutAddress(bundle.device)
            \cup SelinuxMode(bundle.device) \cup VerifiedBoot(bundle.device)
            \cup BootloaderLock(bundle.device) \cup RootEvidence(bundle.device)
            \cup DebuggableBuild(bundle.device) \cup StorageEncryption(bundle.device)
            \cup VerityMode(bundle.device))
    \cup MemoryPressure(bundle.memory) \cup CpuUtilization(bundle.cpu)

\* evaluate
Diagnose(bundle) == Ordered(Findings(bundle))

=============================================================================
