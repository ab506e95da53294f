--------------------------- MODULE MonitorWorker ---------------------------
(***************************************************************************)
(* The monitoring thread (gui/monitor.py): one Qt event loop that turns    *)
(* timer timeouts and queued slots (retry, select_device, locate_adb) into *)
(* sequences of ADB commands.  A handler runs to its end before the next   *)
(* one starts, but phones are plugged and unplugged, adb breaks and heals, *)
(* and the GUI thread clicks and asks to stop between any two commands;    *)
(* so every ADB command is a step of its own, and pc says which is next.   *)
(*                                                                         *)
(* A telemetry snapshot is abstracted to the serial it was read from: what *)
(* matters is whose data is held, and whose is published.                  *)
(***************************************************************************)
EXTENDS AdbConnection, Sequences

CONSTANTS
    CollectorOrder,   \* the collectors of one tick, in order
    InitialBinding,   \* the values the --device flag may have
    Healths,          \* the conditions of adb that occur
    States,           \* the device states that occur
    MaxChanges,       \* bound: changes of the environment in a behaviour
    MaxClicks         \* bound: commands the user gives in a behaviour

Collector == {"cpu", "memory", "process", "foreground", "battery",
              "network", "network_investigation", "storage"}

\* The collectors that difference the counters of two samples.
DeltaCollector == {"cpu", "network"}

ASSUME ParameterAssumption ==
    /\ CollectorOrder \in Seq(Collector)
    /\ Len(CollectorOrder) > 0
    /\ InitialBinding \subseteq MaybeSerial
    /\ Healths \subseteq AdbHealth /\ "ok" \in Healths
    /\ States \subseteq DeviceState
    /\ MaxChanges \in Nat /\ MaxClicks \in Nat

VARIABLES
    devices,     \* what `adb devices` would list
    adb,         \* the health of adb
    changes,     \* how often the environment has changed
    bound,       \* ConnectionManager._device_serial
    connected,   \* MonitorWorker._connected
    stopped,     \* MonitorWorker._stopped
    interval,    \* the interval of the timer
    cache,       \* the serial each cached snapshot was read from
    previous,    \* the serial of a delta collector's _previous counters
    base,        \* the serial a cached snapshot was differenced against
    pc,          \* the ADB command the worker issues next
    origin,      \* what called _connect: the timer or a slot
    at,          \* position inside the label reads or inside a tick
    target,      \* the serial require_device returned to _connect
    labelOf,     \* the serials the label's properties were read from
    tickErrors,  \* the states of the errors of this tick
    tickState,   \* tick's local `state`: the last of them
    inbox,       \* slots queued on the worker by the GUI
    clicks,      \* how many commands the user has given
    reported,    \* the last ConnectionState emitted
    out          \* the signals the last step emitted

envVars == <<devices, adb, changes>>
userVars == <<inbox, clicks>>
sessionVars == <<bound, connected, cache, base>>
tickVars == <<tickErrors, tickState>>
connectVars == <<target, labelOf>>
monitorVars == <<envVars, userVars, sessionVars, tickVars, connectVars, stopped,
                 interval, previous, pc, origin, at, reported>>
vars == <<monitorVars, out>>

-----------------------------------------------------------------------------
(* ConnectionState, and how _connect and tick map an error to a state. *)

\* Mutant: a vanished serial is not counted as device loss.
LossStatesButOffline == {"DISCONNECTED", "UNAUTHORIZED", "ADB_ERROR"}
LossStates == {"DISCONNECTED", "OFFLINE", "UNAUTHORIZED", "ADB_ERROR"}
State == LossStates \cup
    {"CONNECTED", "ADB_MISSING", "MULTIPLE_DEVICES", "TIMEOUT", "COLLECTOR_ERROR"}

ConnectState ==
    [e \in AdbError |->
        CASE e = "NotFound"     -> "ADB_MISSING"
          [] e = "Ambiguous"    -> "MULTIPLE_DEVICES"
          [] e = "NoDevice"     -> "DISCONNECTED"
          [] e = "Disconnected" -> "OFFLINE"
          [] e = "Unauthorized" -> "UNAUTHORIZED"
          [] e = "Timeout"      -> "TIMEOUT"
          [] OTHER              -> "ADB_ERROR"]

CollectState ==
    [e \in AdbError |->
        CASE e = "Unauthorized" -> "UNAUTHORIZED"
          [] e = "Timeout"      -> "TIMEOUT"
          [] e = "Disconnected" -> "OFFLINE"
          [] e = "NoDevice"     -> "DISCONNECTED"
          [] e = "Other"        -> "COLLECTOR_ERROR"
          [] OTHER              -> "ADB_ERROR"]

Collected == {CollectorOrder[i] : i \in 1 .. Len(CollectorOrder)}
EmptyCache == [c \in Collected |-> NoSerial]
EmptyBase == [c \in Collected \cap DeltaCollector |-> NoSerial]

(* The signals of the worker. *)
StateSignal(s) == [signal |-> "connection_changed", state |-> s]
SerialSignal(s) == [signal |-> "serial_ready", serial |-> s]
LabelSignal(read) == [signal |-> "device_info", read |-> read]
DevicesSignal(listed) == [signal |-> "devices_available", listed |-> listed]
SnapshotSignal(data, lost) == [signal |-> "snapshots", data |-> data, lost |-> lost]

(* The slots the GUI can queue. *)
Slot == [op : {"retry", "locate_adb"}] \cup [op : {"select_device"}, serial : Serial]

Pc == {"idle", "verify", "require", "label", "identity", "report", "collect", "publish"}

TypeOK ==
    /\ devices \in [Serial -> DeviceState]
    /\ adb \in AdbHealth
    /\ changes \in 0 .. MaxChanges
    /\ bound \in MaybeSerial
    /\ connected \in BOOLEAN
    /\ stopped \in BOOLEAN
    /\ interval \in {"immediate", "retry", "sample"}
    /\ cache \in [Collected -> MaybeSerial]
    /\ previous \in [Collected \cap DeltaCollector -> MaybeSerial]
    /\ base \in [Collected \cap DeltaCollector -> MaybeSerial]
    /\ pc \in Pc
    /\ origin \in {"timer", "slot"}
    /\ at \in 1 .. (Len(CollectorOrder) + 3)
    /\ pc = "collect" => at \in 1 .. Len(CollectorOrder)
    /\ target \in MaybeSerial
    /\ labelOf \subseteq Serial
    /\ tickErrors \subseteq State
    /\ tickState \in State
    /\ inbox \in Seq(Slot)
    /\ clicks \in 0 .. MaxClicks
    /\ reported \in State \cup {"none"}

Init ==
    /\ devices \in [Serial -> States]
    /\ adb \in Healths
    /\ changes = 0
    /\ bound \in InitialBinding
    /\ connected = FALSE
    /\ stopped = FALSE
    /\ interval = "immediate"
    /\ cache = EmptyCache
    /\ previous = EmptyBase
    /\ base = EmptyBase
    /\ pc = "idle"
    /\ origin = "timer"
    /\ at = 1
    /\ target = NoSerial
    /\ labelOf = {}
    /\ tickErrors = {}
    /\ tickState = "CONNECTED"
    /\ inbox = <<>>
    /\ clicks = 0
    /\ reported = "none"
    /\ out = <<>>

-----------------------------------------------------------------------------
(* The environment: phones, adb, the user and the shutdown of the program. *)

DeviceChanges(s, state) ==
    /\ changes < MaxChanges
    /\ devices[s] # state
    /\ devices' = [devices EXCEPT ![s] = state]
    /\ changes' = changes + 1
    /\ UNCHANGED adb

AdbChanges(health) ==
    /\ changes < MaxChanges
    /\ adb # health
    /\ adb' = health
    /\ changes' = changes + 1
    /\ UNCHANGED devices

Environment ==
    /\ \/ \E s \in Serial, state \in States : DeviceChanges(s, state)
       \/ \E health \in Healths : AdbChanges(health)
    /\ out' = <<>>
    /\ UNCHANGED <<userVars, sessionVars, tickVars, connectVars, stopped,
                   interval, previous, pc, origin, at, reported>>

\* The setup page offers retry and locate; a device can be picked only from
\* the list shown while several are attached.
Click(slot) ==
    /\ clicks < MaxClicks
    /\ slot.op = "select_device" => reported = "MULTIPLE_DEVICES"
    /\ inbox' = Append(inbox, slot)
    /\ clicks' = clicks + 1
    /\ out' = <<>>
    /\ UNCHANGED <<envVars, sessionVars, tickVars, connectVars, stopped,
                   interval, previous, pc, origin, at, reported>>

\* app.shutdown calls stop() from the GUI thread, whatever the worker does.
Stop ==
    /\ ~stopped
    /\ stopped' = TRUE
    /\ out' = <<>>
    /\ UNCHANGED <<envVars, userVars, sessionVars, tickVars, connectVars,
                   interval, previous, pc, origin, at, reported>>

-----------------------------------------------------------------------------
(* The event loop: a timeout, or the next queued slot. *)

StartConnect(by) == pc' = "verify" /\ origin' = by

\* Mutant: the handler does not look at the stop flag.
TimerFiresWhenStopped ==
    /\ pc = "idle"
    /\ IF connected
       THEN pc' = "collect" /\ UNCHANGED origin
       ELSE StartConnect("timer")
    /\ out' = <<>>
    /\ UNCHANGED <<envVars, userVars, sessionVars, tickVars, connectVars, stopped,
                   interval, previous, at, reported>>

\* _on_timer: connect while offline, sample while online.
TimerFires ==
    /\ pc = "idle"
    /\ ~stopped
    /\ IF connected
       THEN pc' = "collect" /\ UNCHANGED origin
       ELSE StartConnect("timer")
    /\ out' = <<>>
    /\ UNCHANGED <<envVars, userVars, sessionVars, tickVars, connectVars, stopped,
                   interval, previous, at, reported>>

TakeSlot(op) ==
    /\ pc = "idle"
    /\ inbox # <<>>
    /\ Head(inbox).op = op
    /\ inbox' = Tail(inbox)
    /\ UNCHANGED <<clicks, connected, cache, base, tickVars, connectVars,
                   stopped, interval, previous, at, devices, changes>>

ConnectUnlessStopped ==
    IF stopped THEN UNCHANGED <<pc, origin>> ELSE StartConnect("slot")

Retry ==
    /\ TakeSlot("retry")
    /\ ConnectUnlessStopped
    /\ out' = <<>>
    /\ UNCHANGED <<bound, adb, reported>>

\* The pin is moved before the stop flag is looked at, and whether or not a
\* session has come up since the picker was shown.
SelectDevice ==
    /\ TakeSlot("select_device")
    /\ bound' = Head(inbox).serial
    /\ ConnectUnlessStopped
    /\ out' = <<>>
    /\ UNCHANGED <<adb, reported>>

\* A usable executable replaces a missing or broken one; the probe of an
\* unusable one changes nothing but the reported state.
LocateAdb(usable) ==
    /\ TakeSlot("locate_adb")
    /\ IF usable /\ ~stopped /\ adb \in {"missing", "broken"}
       THEN adb' = "ok" ELSE UNCHANGED adb
    /\ IF usable THEN ConnectUnlessStopped ELSE UNCHANGED <<pc, origin>>
    /\ IF usable \/ stopped
       THEN out' = <<>> /\ UNCHANGED reported
       ELSE out' = <<StateSignal("ADB_MISSING")>> /\ reported' = "ADB_MISSING"
    /\ UNCHANGED bound

HandleSlot == Retry \/ SelectDevice \/ \E usable \in BOOLEAN : LocateAdb(usable)

-----------------------------------------------------------------------------
(* _connect, one ADB command at a time. *)

\* What the caller does once _connect has returned: the timer handler goes on
\* to its first tick, or waits for the next attempt; a slot simply ends.
ConnectReturns(up) ==
    /\ target' = NoSerial
    /\ labelOf' = {}
    /\ at' = 1
    /\ IF origin = "timer"
       THEN /\ interval' = IF up THEN "sample" ELSE "retry"
            /\ pc' = IF up THEN "collect" ELSE "idle"
       ELSE /\ pc' = "idle"
            /\ UNCHANGED interval

\* Mutant: the reset forgets the collectors added later.
InvalidateCpuOnly ==
    /\ cache' = [c \in Collected |-> IF c = "cpu" THEN NoSerial ELSE cache[c]]
    /\ base' = EmptyBase

InvalidateSnapshots == cache' = EmptyCache /\ base' = EmptyBase

Signals(state) == out' = <<StateSignal(state)>> /\ reported' = state

\* _connect_failed; several devices are reported before _connect returns.
ConnectFails(error) ==
    LET state == ConnectState[error]
    IN  /\ connected' = FALSE
        /\ bound' = IF state \in LossStates THEN NoSerial ELSE bound
        /\ InvalidateSnapshots
        /\ Signals(state)
        /\ IF error = "Ambiguous"
           THEN pc' = "report" /\ UNCHANGED <<connectVars, at, interval>>
           ELSE ConnectReturns(FALSE)

\* The stop flag is looked at after `adb version`, after the device lookup and
\* after the last label read: _connect then returns, emitting nothing.
ConnectAborts ==
    /\ ConnectReturns(connected)
    /\ UNCHANGED <<sessionVars, reported>>
    /\ out' = <<>>

ConnectProceeds(next) ==
    /\ pc' = next
    /\ UNCHANGED <<connected, cache, base, interval, reported>>

ConnectUnchanged ==
    UNCHANGED <<envVars, userVars, tickVars, stopped, previous, origin>>

VerifyAvailable ==
    /\ pc = "verify"
    /\ IF VerifyErrors(adb) # {}
       THEN \E e \in VerifyErrors(adb) : ConnectFails(e)
       ELSE IF stopped THEN ConnectAborts
       ELSE /\ ConnectProceeds("require")
            /\ out' = <<>>
            /\ UNCHANGED <<bound, connectVars, at>>
    /\ ConnectUnchanged

RequireDevice ==
    /\ pc = "require"
    /\ \E r \in RequireResults(devices, adb, bound) :
         IF Failed(r) THEN ConnectFails(r.error)
         ELSE IF stopped THEN ConnectAborts
         ELSE /\ ConnectProceeds("label")
              /\ target' = r.serial
              /\ out' = <<>>
              /\ UNCHANGED <<bound, labelOf, at>>
    /\ ConnectUnchanged

\* Manufacturer, model and release: three shell commands, each resolving its
\* device anew.  After the last one the session is bound and labelled.
ReadLabel ==
    /\ pc = "label"
    /\ \E r \in ShellResults(devices, adb, bound) :
         IF Failed(r) THEN ConnectFails(r.error)
         ELSE IF at < 3
         THEN /\ ConnectProceeds("label")
              /\ at' = at + 1
              /\ labelOf' = labelOf \cup {r.serial}
              /\ out' = <<>>
              /\ UNCHANGED <<bound, target>>
         ELSE IF stopped THEN ConnectAborts
         ELSE /\ ConnectProceeds("identity")
              /\ at' = 1
              /\ labelOf' = {}
              /\ bound' = target
              /\ out' = <<LabelSignal(labelOf \cup {r.serial})>>
              /\ UNCHANGED target
    /\ ConnectUnchanged

\* DeviceInfoCollector.sample: only its first command can raise.
ReadIdentity ==
    /\ pc = "identity"
    /\ \E r \in ShellResults(devices, adb, bound) :
         IF Failed(r) THEN ConnectFails(r.error)
         ELSE /\ connected' = TRUE
              /\ out' = <<StateSignal("CONNECTED"), SerialSignal(target)>>
              /\ reported' = "CONNECTED"
              /\ ConnectReturns(TRUE)
              /\ UNCHANGED <<bound, cache, base>>
    /\ ConnectUnchanged

\* _report_devices swallows every failure and then offers an empty list.
ReportDevices ==
    /\ pc = "report"
    /\ out' = <<DevicesSignal(IF ExecuteErrors(adb) # {} THEN {} ELSE Listed(devices, adb))>>
    /\ ConnectReturns(FALSE)
    /\ UNCHANGED <<sessionVars, reported>>
    /\ ConnectUnchanged

Connect == VerifyAvailable \/ RequireDevice \/ ReadLabel \/ ReadIdentity \/ ReportDevices

-----------------------------------------------------------------------------
(* tick: the due collectors in order, then one publication. *)

TickAdvances ==
    /\ IF at < Len(CollectorOrder)
       THEN at' = at + 1 /\ UNCHANGED pc
       ELSE at' = 1 /\ pc' = "publish"
    /\ out' = <<>>
    /\ UNCHANGED <<envVars, userVars, connectVars, bound, connected, stopped,
                   interval, origin, reported>>

\* The socket view keeps what it could read: only connection failures abort it.
Outcome(c, r) ==
    IF c = "network_investigation"
       /\ r.error \in {"NotFound", "Ambiguous", "Command", "Adb", "Other"}
    THEN Ran(bound)
    ELSE r

\* A collector stores its snapshot or leaves the cached one and notes the
\* error.  `df` may have no internal volume to report: the snapshot is None.
Collect ==
    LET c == CollectorOrder[at]
    IN  /\ pc = "collect"
        /\ \E result \in ShellResults(devices, adb, bound) :
             LET r == Outcome(c, result)
             IN  IF Failed(r)
                 THEN /\ tickState' = CollectState[r.error]
                      /\ tickErrors' = tickErrors \cup {CollectState[r.error]}
                      /\ UNCHANGED <<cache, previous, base>>
                 ELSE /\ \E held \in {r.serial} \cup (IF c = "storage" THEN {NoSerial} ELSE {}) :
                            cache' = [cache EXCEPT ![c] = held]
                      /\ IF c \in DeltaCollector
                         THEN /\ base' = [base EXCEPT ![c] = previous[c]]
                              /\ previous' = [previous EXCEPT ![c] = r.serial]
                         ELSE UNCHANGED <<base, previous>>
                      /\ UNCHANGED tickVars
        /\ TickAdvances

\* A collector other than cpu rests while its interval has not elapsed.
CollectorRests ==
    /\ pc = "collect"
    /\ CollectorOrder[at] # "cpu"
    /\ cache[CollectorOrder[at]] # NoSerial
    /\ TickAdvances
    /\ UNCHANGED <<cache, base, previous, tickVars>>

TickReturns ==
    /\ pc = "publish"
    /\ pc' = "idle"
    /\ tickErrors' = {}
    /\ tickState' = "CONNECTED"
    /\ UNCHANGED <<envVars, userVars, connectVars, stopped, interval, previous,
                   origin, at>>

\* No collector failed, or only transient failures: the caches are published.
Publish ==
    /\ TickReturns
    /\ tickErrors = {} \/ tickState \notin LossStates
    /\ out' = <<StateSignal(tickState), SnapshotSignal(cache, FALSE)>>
    /\ reported' = tickState
    /\ UNCHANGED sessionVars

\* Mutant: the snapshot is published before the caches are dropped.
PublishLossEarly ==
    /\ TickReturns
    /\ tickErrors # {} /\ tickState \in LossStates
    /\ bound' = NoSerial
    /\ InvalidateSnapshots
    /\ connected' = FALSE
    /\ out' = <<StateSignal(tickState), SnapshotSignal(cache, TRUE)>>
    /\ reported' = tickState

\* The device is lost: forget it, and publish an empty snapshot.
PublishLoss ==
    /\ TickReturns
    /\ tickErrors # {} /\ tickState \in LossStates
    /\ bound' = NoSerial
    /\ InvalidateSnapshots
    /\ connected' = FALSE
    /\ out' = <<StateSignal(tickState), SnapshotSignal(EmptyCache, TRUE)>>
    /\ reported' = tickState

Tick == Collect \/ CollectorRests \/ Publish \/ PublishLoss

-----------------------------------------------------------------------------
Worker == TimerFires \/ HandleSlot \/ Connect \/ Tick

Next == Environment \/ (\E slot \in Slot : Click(slot)) \/ Stop \/ Worker

Spec == Init /\ [][Next]_vars

(***************************************************************************)
(* The event loop always runs the next handler, every ADB command returns  *)
(* (subprocess timeout), and Qt delivers posted events, in order, whenever *)
(* the loop is reached: a queued slot is not starved by the timer.         *)
(***************************************************************************)
Fairness == WF_vars(Worker) /\ SF_vars(HandleSlot)

FairSpec == Spec /\ Fairness

-----------------------------------------------------------------------------
(* Safety. *)

\* A session exists only with a bound serial: no sample of a session can fall
\* back on whatever else is attached (ConnectionManager.bound_serial).
ConnectedIsBound == connected => bound # NoSerial

\* Nothing is held between sessions, whichever way the last one ended
\* (_invalidate_snapshots: data of a previous session is never current).
NothingHeldOffline == ~connected => cache = EmptyCache /\ base = EmptyBase

\* Every cached snapshot was read from the device the session is bound to, so
\* each publication shows one device.  Picks that arrive late break it.
HeldFromBoundDevice == \A c \in Collected : cache[c] \in {NoSerial, bound}

\* The pin leaves one phone for another with no loss in between.
PinMoves == bound # NoSerial /\ bound' \notin {NoSerial, bound}

\* Nothing but a pick makes the snapshots held those of two phones: no plug, no
\* time-out, no error and no command of _connect or tick does.
OnlyPicksMixPhones ==
    [][HeldFromBoundDevice /\ ~PinMoves => HeldFromBoundDevice']_vars

\* A percentage or a rate compares two samples of one device (CPUCollector:
\* no utilization without a previous sample to compute a delta against).
DeltaWithinDevice ==
    \A c \in Collected \cap DeltaCollector : base[c] \in {NoSerial, cache[c]}

\* A tick that saw the device lost ends the session (_DEVICE_LOSS_STATES:
\* "when any of these is observed").
LossIsNeverMasked ==
    [][TickReturns /\ tickErrors \cap LossStates # {} => ~connected']_vars

\* Once stopped, the worker finishes the handler it is in and starts no other:
\* no timeout, retry, pick or relocation issues an ADB command any more.
StopIsFinal == [][stopped /\ pc = "idle" => pc' = "idle"]_vars

\* A live session goes to another phone only by the pick of that phone; else
\* the worker goes through a reported disconnection first.
SessionNeverSwitches ==
    [][connected /\ connected' /\ bound' # bound =>
          SelectDevice /\ Head(inbox) = [op |-> "select_device", serial |-> bound']]_vars

\* The label of a session was read from its phone (_connect binds after it).
LabelOfThisPhone ==
    [][\A i \in DOMAIN out' :
          out'[i].signal = "device_info" => out'[i].read \subseteq {target}]_vars

\* The GUI always learns of the end of a session: the step that ends it emits
\* a state other than CONNECTED, and what it publishes is empty.
LossIsReported ==
    [][connected /\ ~connected' =>
         /\ \E i \in DOMAIN out' : \E state \in State \ {"CONNECTED"} :
              out'[i] = StateSignal(state)
         /\ \A i \in DOMAIN out' :
              out'[i].signal = "snapshots" => out'[i].data = EmptyCache]_vars

\* The session the worker implements, and whose data it holds.
Session == IF connected THEN bound ELSE NoSerial
Held == {cache[c] : c \in Collected} \ {NoSerial}

\* The phones the user has picked and the worker has not bound yet.
Picked == {s \in Serial : \E i \in DOMAIN inbox :
              inbox[i] = [op |-> "select_device", serial |-> s]}

Abstract == INSTANCE TelemetrySession
                WITH session <- Session, held <- Held, picked <- Picked

\* The worker implements the session of TelemetrySession: data held are of its
\* phone, or of one it had before a pick, and a loss leaves nothing.
ImplementsSession == Abstract!Spec

(* Liveness. *)

\* The phone is the only usable one, and adb works.
OnlyUsable(s) ==
    /\ adb = "ok"
    /\ \A t \in Serial : devices[t] = "device" <=> t = s

\* Hot-plugging, authorizing or locating adb recovers without a restart (run):
\* when exactly one phone stays usable, the worker ends up in a session with
\* it, whatever was bound or picked before.
Recovers ==
    \A s \in Serial :
        <>[]OnlyUsable(s) => <>[](stopped \/ (connected /\ bound = s))

\* stop() ends the loop after the handler that is running (stop, shutdown).
StopQuiesces == [](stopped => <>[](pc = "idle"))

=============================================================================
