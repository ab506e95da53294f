----------------------------- MODULE Dashboard -----------------------------
(***************************************************************************)
(* The GUI thread beside the monitoring thread and the apps worker.  The   *)
(* monitor's signals are queued on the GUI thread (Qt delivers them in     *)
(* order, later); its CONNECTED signals are queued on the apps worker as   *)
(* well, which answers each with an inventory read of its own, queued on   *)
(* the GUI behind whatever the monitor has emitted meanwhile.  The window  *)
(* (gui/main_window.py) mirrors what arrives.                              *)
(*                                                                         *)
(* doubt is a history variable: no action of the program reads it.  A pick *)
(* that moves the pin from one phone to another leaves the window with data*)
(* of the first; doubt says how many signals are queued before the first   *)
(* that could carry the news of a later loss, plus one, and is 0 once such *)
(* a loss has reached the window.                                          *)
(***************************************************************************)
EXTENDS MonitorWorker

CONSTANTS
    MaxLag,        \* bound: signals waiting for the GUI thread
    MaxRefreshes   \* bound: inventory reads waiting for the apps worker

ASSUME LagAssumption == MaxLag \in Nat /\ MaxRefreshes \in Nat

VARIABLES
    toGui,       \* signals queued on the GUI thread
    refreshes,   \* CONNECTED signals queued on the apps worker
    guiState,    \* MainWindow._connection_state
    guiSerial,   \* MainWindow._device_serial
    page,        \* the page of the stack: setup or dashboard
    mirror,      \* the serial of each _latest_* telemetry mirror
    inventory,   \* the serial _latest_app_snapshot was read from
    doubt        \* history: where the loss that follows a pick can be queued

windowVars == <<guiState, guiSerial, page, mirror, inventory>>
dashboardVars == <<vars, toGui, refreshes, windowVars, doubt>>

InventorySignal(s) == [signal |-> "inventory_ready", serial |-> s]

Signal ==
    [signal : {"connection_changed"}, state : State]
        \cup [signal : {"serial_ready", "inventory_ready"}, serial : MaybeSerial]
        \cup [signal : {"device_info"}, read : SUBSET Serial]
        \cup [signal : {"devices_available"}, listed : SUBSET Serial]
        \cup [signal : {"snapshots"}, data : [Collected -> MaybeSerial], lost : BOOLEAN]

DashboardTypeOK ==
    /\ TypeOK
    /\ toGui \in Seq(Signal)
    /\ Len(toGui) <= MaxLag
    /\ refreshes \in 0 .. MaxRefreshes
    /\ guiState \in State \cup {"none"}
    /\ guiSerial \in MaybeSerial
    /\ page \in {"setup", "dashboard"}
    /\ mirror \in [Collected -> MaybeSerial]
    /\ inventory \in MaybeSerial
    /\ doubt \in 0 .. (Len(toGui) + 1)

DashboardInit ==
    /\ Init
    /\ toGui = <<>>
    /\ refreshes = 0
    /\ guiState = "none"
    /\ guiSerial = NoSerial
    /\ page = "setup"
    /\ mirror = EmptyCache
    /\ inventory = NoSerial
    /\ doubt = 0

-----------------------------------------------------------------------------
(* A step of the monitor or of its environment: its signals are posted. *)

Least(m, n) == IF m <= n THEN m ELSE n

\* One inventory read is queued per CONNECTED signal.
Connections(signals) ==
    Cardinality({i \in DOMAIN signals : signals[i] = StateSignal("CONNECTED")})

Post(signals) ==
    /\ Len(toGui) + Len(signals) <= MaxLag
    /\ toGui' = toGui \o signals
    /\ refreshes' = Least(refreshes + Connections(signals), MaxRefreshes)

MonitorStep ==
    /\ Next
    /\ Post(out')
    /\ doubt' = IF PinMoves THEN Len(toGui) + 1 ELSE doubt
    /\ UNCHANGED windowVars

(* AppsWorker.refresh_inventory: a failed read publishes an empty inventory. *)

RefreshInventory ==
    /\ refreshes > 0
    /\ refreshes' = refreshes - 1
    /\ Len(toGui) < MaxLag
    /\ \E r \in ShellResults(devices, adb, bound) :
         toGui' = Append(toGui, InventorySignal(r.serial))
    /\ out' = <<>>
    /\ UNCHANGED <<monitorVars, windowVars, doubt>>

-----------------------------------------------------------------------------
(* The window's slots, one queued signal at a time. *)

IsLoss(signal) == signal.signal = "connection_changed" /\ signal.state \in LossStates

Doubted(signal) ==
    IF doubt > 1 THEN doubt - 1
    ELSE IF IsLoss(signal) THEN 0 ELSE doubt

Delivered(name) ==
    /\ toGui # <<>>
    /\ doubt' = Doubted(Head(toGui))
    /\ Head(toGui).signal = name
    /\ toGui' = Tail(toGui)
    /\ out' = <<>>
    /\ UNCHANGED <<monitorVars, refreshes>>

\* Mutant: the inventory and the serial are cleared, the telemetry is not.
ClearMirrorsPartly ==
    /\ guiSerial' = NoSerial
    /\ inventory' = NoSerial
    /\ UNCHANGED mirror

ClearMirrors ==
    /\ guiSerial' = NoSerial
    /\ inventory' = NoSerial
    /\ mirror' = EmptyCache

\* Mutant: every state but CONNECTED is taken for device loss.
UpdateConnectionClears ==
    LET state == Head(toGui).state
    IN  /\ Delivered("connection_changed")
        /\ guiState' = state
        /\ page' = IF state = "CONNECTED" THEN "dashboard" ELSE "setup"
        /\ IF state # "CONNECTED"
           THEN ClearMirrors
           ELSE UNCHANGED <<guiSerial, mirror, inventory>>

\* update_connection: device loss clears every mirror and shows the setup page;
\* a transient state leaves the page and the mirrors alone.
UpdateConnection ==
    LET state == Head(toGui).state
    IN  /\ Delivered("connection_changed")
        /\ guiState' = state
        /\ page' = CASE state = "CONNECTED" -> "dashboard"
                     [] state \in {"TIMEOUT", "COLLECTOR_ERROR"} -> page
                     [] OTHER -> "setup"
        /\ IF state \in LossStates
           THEN ClearMirrors
           ELSE UNCHANGED <<guiSerial, mirror, inventory>>

OnSerialReady ==
    /\ Delivered("serial_ready")
    /\ guiSerial' = Head(toGui).serial
    /\ UNCHANGED <<guiState, page, mirror, inventory>>

\* update_snapshots and its siblings: cpu mirrors even an empty snapshot, the
\* others keep the last one they had; a loss empties the foreground signal.
UpdateSnapshots ==
    LET data == Head(toGui).data
    IN  /\ Delivered("snapshots")
        /\ mirror' = [c \in Collected |->
              IF \/ c = "cpu"
                 \/ c = "foreground" /\ Head(toGui).lost
                 \/ data[c] # NoSerial
              THEN data[c] ELSE mirror[c]]
        /\ UNCHANGED <<guiState, guiSerial, page, inventory>>

OnInventoryReady ==
    /\ Delivered("inventory_ready")
    /\ inventory' = Head(toGui).serial
    /\ UNCHANGED <<guiState, guiSerial, page, mirror>>

\* The label and the picker are filled; no mirror is touched.
UpdateDevice ==
    /\ Delivered("device_info") \/ Delivered("devices_available")
    /\ UNCHANGED windowVars

Window == UpdateConnection \/ OnSerialReady \/ UpdateSnapshots
              \/ OnInventoryReady \/ UpdateDevice

DashboardNext == MonitorStep \/ RefreshInventory \/ Window

DashboardSpec == DashboardInit /\ [][DashboardNext]_dashboardVars

-----------------------------------------------------------------------------
\* What the pages show was read from the phone they name, however far the
\* window lags behind the monitor and however sessions follow one another
\* (update_connection: stale telemetry must never linger on the pages).  After
\* a pick that takes the pin from one phone to another it is so again as soon
\* as the next loss has reached the window, and not before.
PagesShowOnePhone ==
    doubt = 0 => \A c \in Collected : mirror[c] \in {NoSerial, guiSerial}

\* Once the window has caught up with a live session, the serial it files
\* baselines, reports and events under is the one the session is bound to; a
\* pick that moves the pin keeps it wrong until the next loss at most.
WindowCatchesUp ==
    doubt = 0 /\ toGui = <<>> /\ connected => guiSerial = bound

\* The installed-application list shown is that of the phone in session.
InventoryOfThisPhone == inventory \in {NoSerial, guiSerial}

=============================================================================
