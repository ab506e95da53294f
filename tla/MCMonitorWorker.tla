-------------------------- MODULE MCMonitorWorker --------------------------
(* Small instances of MonitorWorker for TLC. *)
EXTENDS MonitorWorker, TLC

\* cpu differences counters, the socket view swallows what is not a connection
\* failure, storage may have nothing to report.
ThreeCollectors == <<"cpu", "network_investigation", "storage">>
CpuOnly == <<"cpu">>

AnyBinding == MaybeSerial
Unbound == {NoSerial}

\* A broken adb raises what a failing one raises.
AllButBroken == AdbHealth \ {"broken"}
\* An offline phone raises what an unplugged one raises.
AllButOffline == DeviceState \ {"offline"}
PluggedOrNot == {"absent", "device"}
OkFlakyHung == {"ok", "flaky", "hung"}

Phones == Permutations(Serial)
=============================================================================
