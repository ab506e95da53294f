----------------------------- MODULE Thresholds -----------------------------
(***************************************************************************)
(* thresholds.py: the values at which a metric counts as elevated or high, *)
(* shared by the health engine, the diagnostics and the built-in rules.    *)
(***************************************************************************)
EXTENDS Integers

CONSTANT None   \* a value that is unavailable

ASSUME NoneAssumption == None \notin Int

Level == {"normal", "elevated", "high"}

CpuElevated == 60
CpuHigh == 85
MemoryElevated == 70
MemoryHigh == 90
TemperatureElevated == 40
TemperatureHigh == 45
StorageElevated == 80
StorageHigh == 90
BatteryElevated == 35
BatteryHigh == 20

\* High at its threshold, elevated only above it.
Classify(value, elevated, high) ==
    IF value = None THEN "normal"
    ELSE IF value >= high THEN "high"
    ELSE IF value > elevated THEN "elevated" ELSE "normal"

ClassifyCpu(percent) == Classify(percent, CpuElevated, CpuHigh)
ClassifyMemory(percent) == Classify(percent, MemoryElevated, MemoryHigh)
ClassifyTemperature(celsius) == Classify(celsius, TemperatureElevated, TemperatureHigh)
ClassifyStorage(percent) == Classify(percent, StorageElevated, StorageHigh)

\* A low battery is the risk.
ClassifyBattery(percent) ==
    IF percent = None THEN "normal"
    ELSE IF percent <= BatteryHigh THEN "high"
    ELSE IF percent < BatteryElevated THEN "elevated" ELSE "normal"

=============================================================================
