--------------------------- MODULE ActionPipeline ---------------------------
(***************************************************************************)
(* How a click on "Uninstall" becomes a command on a phone, across four    *)
(* threads: the window checks the click against what its panels show and   *)
(* asks for confirmation in a dialog that keeps delivering signals; the    *)
(* action worker takes the queued request later and runs it over the       *)
(* shared connection; the apps worker reads what the panels show next; the *)
(* monitor binds and releases the connection all along.                    *)
(*                                                                         *)
(* A process, a details record and an inventory row are known by their     *)
(* package, what the capability gate asks of them, and the phones they     *)
(* were read from (source).  Phones change by hand or by these commands.   *)
(***************************************************************************)
EXTENDS AdbConnection, Sequences

CONSTANTS
    Package,      \* package names
    NoPackage,    \* Python's None
    SystemApps,   \* the packages that are part of a phone's system
    Wanted,       \* the actions the user tries
    Health,       \* the condition of adb; no command fails after it ran
    Dumps,        \* the outcomes of a dumpsys read: "complete", "partial"
    MaxEvents,    \* bound: exchanges of the phone and samples in a behaviour
    MaxClicks     \* bound: what the user selects, clicks or refreshes

Destructive == {"force_stop", "disable", "uninstall"}
Action == {"open_app", "app_info", "enable"} \cup Destructive
Panel == {"inspector", "apps", "background"}

ASSUME ActionAssumption ==
    /\ NoPackage \notin Package
    /\ SystemApps \in [Serial -> SUBSET Package]
    /\ Wanted \subseteq Action
    /\ Health \in AdbHealth \ {"flaky"}
    /\ Dumps \subseteq {"complete", "partial"} /\ Dumps # {}
    /\ MaxEvents \in Nat /\ MaxClicks \in Nat

VARIABLES
    attached,    \* the phone on the cable
    events,      \* how often it was exchanged or sampled
    installed,   \* the applications of each phone
    disabled,    \* those of them that are disabled
    bound,       \* ConnectionManager._device_serial
    queue,       \* slots queued on the action worker
    launching,   \* open_app has resolved the launcher of the head of queue
    resolver,    \* PackageResolver._installed
    loaded,      \* ActionWorker._packages_loaded
    appsQueue,   \* slots queued on the apps worker
    named,       \* the package names an inventory read has so far
    toGui,       \* signals queued on the GUI thread
    serial,      \* MainWindow._device_serial; the dashboard shows with it
    inventory,   \* the rows of _latest_app_snapshot
    verified,    \* _verified_packages
    process,     \* ProcessInspectorWidget._last_snapshot
    packages,    \* ProcessInspectorWidget._packages
    shown,       \* AppDetailsWidget._details of the two details panels
    selected,    \* the apps panel's _package, the window's _background_selected
    pending,     \* the apps page's _pending
    busy,        \* the panels' _busy
    dialog,      \* the request an open confirmation asks about
    clicks,      \* how often the user has acted
    ran          \* the command the last step ran on a phone

phoneVars == <<attached, events, installed, disabled>>
workerVars == <<queue, launching, resolver, loaded>>
appsVars == <<appsQueue, named>>
panelVars == <<process, packages, shown, selected, pending, busy>>
windowVars == <<serial, inventory, verified>>
userVars == <<dialog, clicks>>
vars == <<phoneVars, bound, workerVars, appsVars, toGui, windowVars, panelVars,
          userVars, ran>>

-----------------------------------------------------------------------------
(* Records. *)

Nothing == [package |-> NoPackage]
MaybePackage == Package \cup {NoPackage}
DetailsPanel == {"apps", "background"}

\* AppInfo and AppDetails.
Category == {"system", "user", "unknown"}
Row == [package : Package, category : Category,
        enabled : {"yes", "no", "unknown"}, source : SUBSET Serial]
Process == [package : Package, source : SUBSET Serial]
Request == [op : {"request"}, action : Action, package : Package,
            panel : Panel \cup {"recommendation"}, category : Category,
            source : SUBSET Serial, confirmed : BOOLEAN]
\* A request and the phone that its command ran on.
Run == [action : Action, package : Package, panel : Panel \cup {"recommendation"},
        category : Category, source : SUBSET Serial, confirmed : BOOLEAN, serial : Serial]
Reload == [op |-> "reload"]
Names == [serial : Serial, packages : SUBSET Package]

Outcome == {"ok", "refused", "missing", "unreachable"}
Signal ==
    [signal : {"lost", "gone"}]
    \cup [signal : {"connected"}, serial : Serial]
    \cup [signal : {"inspection"}, process : Process]
    \cup [signal : {"inventory"}, rows : SUBSET Row]
    \cup [signal : {"details"}, row : Row]
    \cup [signal : {"details_failed"}, package : Package]
    \cup [signal : {"packages"}, packages : SUBSET Package]
    \cup [signal : {"result"}, action : Action, package : Package, outcome : Outcome]

\* A request also carries, for the properties, the category that its gate saw.
Ask(action, package, panel, category, source) ==
    [op |-> "request", action |-> action, package |-> package, panel |-> panel,
     category |-> category, source |-> source, confirmed |-> FALSE]
ReadInventory == [op |-> "inventory"]
ReadDetails(p) == [op |-> "details", package |-> p]
ResultSignal(request, outcome) ==
    [signal |-> "result", action |-> request.action, package |-> request.package,
     outcome |-> outcome]
PackagesSignal(known) == [signal |-> "packages", packages |-> known]

\* Mutant: an application that is not known to be a user's counts as the user's.
SupportedIgnoringCategory(row) ==
    {"open_app", "app_info", "force_stop", "uninstall"}
    \cup (IF row.enabled = "yes" THEN {"disable"} ELSE {})

\* supported_actions: what the device context permits for an application.
Supported(row) ==
    {"open_app", "app_info", "force_stop"}
    \cup (IF row.category # "system" THEN {"uninstall"} ELSE {})
    \cup (IF row.category # "system" /\ row.enabled = "no" THEN {"enable"} ELSE {})
    \cup (IF row.category # "system" /\ row.enabled = "yes" THEN {"disable"} ELSE {})

ActionTypeOK ==
    /\ attached \in MaybeSerial /\ bound \in MaybeSerial /\ serial \in MaybeSerial
    /\ events \in 0 .. MaxEvents /\ clicks \in 0 .. MaxClicks
    /\ installed \in [Serial -> SUBSET Package]
    /\ disabled \in [Serial -> SUBSET Package]
    /\ queue \in Seq(Request \cup {Reload})
    /\ launching \in BOOLEAN /\ loaded \in BOOLEAN
    /\ resolver \in SUBSET Package /\ verified \in SUBSET Package
    /\ appsQueue \in Seq({ReadInventory} \cup {ReadDetails(p) : p \in Package})
    /\ named \in Names \cup {Nothing}
    /\ toGui \in Seq(Signal)
    /\ inventory \in SUBSET Row
    /\ process \in Process \cup {Nothing}
    /\ packages \in SUBSET Package
    /\ shown \in [DetailsPanel -> Row \cup {Nothing}]
    /\ selected \in [DetailsPanel -> MaybePackage]
    /\ pending \in MaybePackage
    /\ busy \in [Panel -> BOOLEAN]
    /\ dialog \in Request \cup {Nothing}
    /\ ran \in Run \cup {Nothing}

ActionInit ==
    /\ attached \in MaybeSerial
    /\ events = 0
    /\ installed \in {phones \in [Serial -> SUBSET Package] :
                        \A s \in Serial : SystemApps[s] \subseteq phones[s]}
    /\ disabled = [s \in Serial |-> {}]
    /\ bound = NoSerial
    /\ queue = <<>> /\ launching = FALSE
    /\ resolver = {} /\ loaded = FALSE
    /\ appsQueue = <<>> /\ named = Nothing
    /\ toGui = <<>>
    /\ serial = NoSerial /\ inventory = {} /\ verified = {}
    /\ process = Nothing /\ packages = {}
    /\ shown = [x \in DetailsPanel |-> Nothing]
    /\ selected = [x \in DetailsPanel |-> NoPackage]
    /\ pending = NoPackage
    /\ busy = [x \in Panel |-> FALSE]
    /\ dialog = Nothing /\ clicks = 0
    /\ ran = Nothing

Post(signal) == toGui' = Append(toGui, signal)
Quiet == ran' = Nothing

-----------------------------------------------------------------------------
(* Phones and the monitor, which MonitorWorker models in full: what matters *)
(* here is when it releases and binds the shared connection.                *)

Replug ==
    /\ events < MaxEvents
    /\ events' = events + 1
    /\ attached' \in MaybeSerial \ {attached}
    /\ Quiet
    /\ UNCHANGED <<installed, disabled, bound, workerVars, appsVars, toGui, windowVars,
                   panelVars, userVars>>

MonitorLoses ==
    /\ bound # NoSerial /\ attached # bound
    /\ bound' = NoSerial
    /\ Post([signal |-> "lost"])
    /\ Quiet
    /\ UNCHANGED <<phoneVars, workerVars, appsVars, windowVars, panelVars, userVars>>

\* CONNECTED reaches the action worker and the apps worker as well, and both
\* read the phone again.
RereadLists ==
    /\ queue' = Append(queue, Reload)
    /\ appsQueue' = Append(appsQueue, ReadInventory)

MonitorConnects ==
    /\ bound = NoSerial /\ attached # NoSerial
    /\ bound' = attached
    /\ Post([signal |-> "connected", serial |-> attached])
    /\ RereadLists
    /\ Quiet
    /\ UNCHANGED <<phoneVars, launching, resolver, loaded, named, windowVars, panelVars,
                   userVars>>

\* Every sample that succeeds emits CONNECTED as well.
MonitorSamples ==
    /\ bound # NoSerial /\ attached = bound
    /\ events < MaxEvents
    /\ events' = events + 1
    /\ RereadLists
    /\ Quiet
    /\ UNCHANGED <<attached, installed, disabled, bound, launching, resolver, loaded, named,
                   toGui, windowVars, panelVars, userVars>>

\* What a shell call of any worker gives, the serial resolved anew.
Shell ==
    ShellResults([s \in Serial |-> IF s = attached THEN "device" ELSE "absent"],
                 Health, bound)

-----------------------------------------------------------------------------
(* The user, while the dashboard shows and no dialog is open. *)

UserActs ==
    /\ serial # NoSerial /\ dialog = Nothing
    /\ clicks < MaxClicks
    /\ clicks' = clicks + 1
    /\ Quiet
    /\ UNCHANGED <<phoneVars, bound, windowVars>>

\* The inspector worker reads the process at once; its answer is queued.
InspectProcess(p) ==
    /\ UserActs
    /\ \E r \in Shell :
         IF Failed(r) \/ p \notin installed[r.serial]
         THEN Post([signal |-> "gone"])
         ELSE Post([signal |-> "inspection",
                    process |-> [package |-> p, source |-> {r.serial}]])
    /\ UNCHANGED <<workerVars, appsVars, panelVars, dialog>>

\* A row of the applications table or of the background table is selected.
SelectApp(panel, p) ==
    /\ UserActs
    /\ \E row \in inventory : row.package = p
    /\ appsQueue' = Append(appsQueue, ReadDetails(p))
    /\ selected' = IF panel = "background" THEN [selected EXCEPT ![panel] = p] ELSE selected
    /\ pending' = IF panel = "apps" THEN NoPackage ELSE pending
    /\ UNCHANGED <<workerVars, named, toGui, process, packages, shown, busy, dialog>>

RefreshApps ==
    /\ UserActs
    /\ appsQueue' = Append(appsQueue, ReadInventory)
    /\ queue' = Append(queue, Reload)
    /\ UNCHANGED <<launching, resolver, loaded, named, toGui, panelVars, dialog>>

\* The panel is locked and the request is queued on the action worker.
Dispatch(request) ==
    /\ queue' = Append(queue, request)
    /\ busy' = [x \in Panel |-> busy[x] \/ x = request.panel]

\* Mutant: uninstalling is not in the list of actions to confirm.
ConfirmOrDispatchUninstall(request) ==
    IF request.action \in {"force_stop", "disable"}
    THEN dialog' = request /\ UNCHANGED <<queue, busy>>
    ELSE Dispatch(request) /\ UNCHANGED dialog

\* Destructive actions open a modal dialog first.
ConfirmOrDispatch(request) ==
    IF request.action \in Destructive
    THEN dialog' = request /\ UNCHANGED <<queue, busy>>
    ELSE Dispatch(request) /\ UNCHANGED dialog

Clicked(request) ==
    /\ request.action \in Wanted
    /\ UserActs
    /\ ConfirmOrDispatch(request)
    /\ UNCHANGED <<launching, resolver, loaded, appsVars, toGui, process, packages,
                   shown, selected, pending>>

\* resolve_package: the inspected process, if its package is verified.
Resolved == IF process.package \in packages THEN process.package ELSE NoPackage

\* AppDetailsWidget._reset and set_details: every lock is released.
ShowRow(panel, row) ==
    /\ shown' = [shown EXCEPT ![panel] = row]
    /\ busy' = [busy EXCEPT ![panel] = FALSE]

\* _resolve_pending: the row of the package is selected, and while there is
\* none the panel waits for its details.
ResolvePending(p, rows) ==
    /\ appsQueue' = Append(appsQueue, ReadDetails(p))
    /\ IF \E row \in rows : row.package = p
       THEN pending' = NoPackage /\ UNCHANGED <<shown, selected, busy>>
       ELSE /\ pending' = p
            /\ ShowRow("apps", Nothing)
            /\ selected' = [selected EXCEPT !["apps"] = p]

\* "Manage" in the inspector opens the applications page on the package.
Manage ==
    /\ Resolved # NoPackage /\ ~busy["inspector"]
    /\ UserActs
    /\ ResolvePending(Resolved, inventory)
    /\ UNCHANGED <<workerVars, named, toGui, process, packages, dialog>>

ClickInspector(action) ==
    /\ Resolved # NoPackage /\ ~busy["inspector"]
    /\ action \in {"open_app", "app_info", "force_stop"}
    /\ Clicked(Ask(action, process.package, "inspector", "unknown", process.source))

ClickApps(action) ==
    /\ shown["apps"] # Nothing /\ ~busy["apps"]
    /\ action \in Supported(shown["apps"])
    /\ Clicked(Ask(action, shown["apps"].package, "apps", shown["apps"].category,
                   shown["apps"].source))

\* The button is derived from the details, the gate looks at the inventory.
ClickBackground(action) ==
    /\ shown["background"] # Nothing /\ ~busy["background"]
    /\ action \in Supported(shown["background"])
    /\ \E row \in inventory :
         /\ row.package = shown["background"].package
         /\ action \in Supported(row)
         /\ Clicked(Ask(action, row.package, "background", row.category,
                        row.source \cup shown["background"].source))

\* A recommendation to force-stop a user's application; its button has no lock.
ClickRecommendation ==
    \E row \in inventory :
        /\ row.category = "user" /\ row.package \in verified
        /\ Clicked(Ask("force_stop", row.package, "recommendation", row.category, row.source))

ClickAction ==
    \/ \E action \in Wanted :
         ClickInspector(action) \/ ClickApps(action) \/ ClickBackground(action)
    \/ ClickRecommendation

\* The dialog is answered, after whatever its event loop has delivered.
Answer ==
    /\ dialog # Nothing
    /\ dialog' = Nothing
    /\ \/ Dispatch([dialog EXCEPT !.confirmed = TRUE])
       \/ UNCHANGED <<queue, busy>>
    /\ Quiet
    /\ UNCHANGED <<phoneVars, bound, launching, resolver, loaded, appsVars, toGui,
                   windowVars, process, packages, shown, selected, pending, clicks>>

-----------------------------------------------------------------------------
(* The action worker: one shell call per step, at the head of its queue. *)

WorkerTurn(op) ==
    /\ queue # <<>>
    /\ Head(queue).op = op
    /\ UNCHANGED <<attached, events, bound, appsVars, windowVars, panelVars, userVars>>

ReloadPackages ==
    /\ WorkerTurn("reload")
    /\ queue' = Tail(queue)
    /\ \E r \in Shell :
         LET known == IF Failed(r) THEN {} ELSE installed[r.serial]
         IN  /\ resolver' = known
             /\ loaded' = ~Failed(r)
             /\ Post(PackagesSignal(known))
    /\ Quiet
    /\ UNCHANGED <<installed, disabled, launching>>

\* Mutant: a package that is gone is dropped, and its action never answered.
CompleteOnlyDrops(outcome) ==
    LET request == Head(queue)
        known   == resolver \ {request.package}
    IN  /\ queue' = Tail(queue)
        /\ launching' = FALSE
        /\ resolver' = IF outcome = "missing" THEN known ELSE resolver
        /\ IF outcome = "missing"
           THEN Post(PackagesSignal(known))
           ELSE Post(ResultSignal(request, outcome))
        /\ UNCHANGED loaded

\* request_action's last lines: the typed result, after a package the phone
\* does not know was dropped.
Complete(outcome) ==
    LET request == Head(queue)
        drops   == outcome = "missing"
        known   == IF drops THEN resolver \ {request.package} ELSE resolver
    IN  /\ queue' = Tail(queue)
        /\ launching' = FALSE
        /\ resolver' = known
        /\ toGui' = toGui \o (IF drops /\ loaded THEN <<PackagesSignal(known)>> ELSE <<>>)
                          \o <<ResultSignal(request, outcome)>>
        /\ UNCHANGED loaded

\* What a command on an application can come to, on the phone it reached;
\* `am force-stop` does not mind an application that is not there.
OutcomeOn(s) ==
    IF Head(queue).package \in installed[s] THEN {"ok", "refused"}
    ELSE {"missing", "refused"}
         \cup (IF Head(queue).action = "force_stop" THEN {"ok"} ELSE {})

\* open_app's first call.  An answer leads to the second one or fails.
ResolveLauncher ==
    /\ WorkerTurn("request")
    /\ Head(queue).action = "open_app" /\ ~launching
    /\ \E r \in Shell :
         \/ Failed(r) /\ Complete("unreachable")
         \/ ~Failed(r) /\ \E outcome \in OutcomeOn(r.serial) \ {"ok"} : Complete(outcome)
         \/ /\ ~Failed(r) /\ "ok" \in OutcomeOn(r.serial)
            /\ launching' = TRUE
            /\ UNCHANGED <<queue, resolver, loaded, toGui>>
    /\ Quiet
    /\ UNCHANGED <<installed, disabled>>

\* The command takes effect on the phone the call resolved to.  Uninstalling an
\* application of the system removes its updates only: it stays.
TakesEffect(action, p, s) ==
    /\ installed' = IF action = "uninstall" /\ p \notin SystemApps[s]
                    THEN [installed EXCEPT ![s] = @ \ {p}] ELSE installed
    /\ disabled' = CASE action = "disable" -> [disabled EXCEPT ![s] = @ \cup {p}]
                     [] action \in {"enable", "uninstall"} -> [disabled EXCEPT ![s] = @ \ {p}]
                     [] OTHER -> disabled

RunCommand ==
    LET request == Head(queue)
    IN  /\ WorkerTurn("request")
        /\ request.action # "open_app" \/ launching
        /\ \E r \in Shell :
             \/ /\ Failed(r)
                /\ Complete("unreachable")
                /\ Quiet /\ UNCHANGED <<installed, disabled>>
             \/ /\ ~Failed(r)
                /\ \E outcome \in OutcomeOn(r.serial) :
                     /\ Complete(outcome)
                     /\ IF outcome = "ok"
                        THEN TakesEffect(request.action, request.package, r.serial)
                        ELSE UNCHANGED <<installed, disabled>>
                /\ ran' = [action |-> request.action, package |-> request.package,
                           panel |-> request.panel, category |-> request.category,
                           source |-> request.source, confirmed |-> request.confirmed,
                           serial |-> r.serial]

ActionWorker == ReloadPackages \/ ResolveLauncher \/ RunCommand

-----------------------------------------------------------------------------
(* The apps worker. *)

AppsTurn(op) ==
    /\ appsQueue # <<>>
    /\ Head(appsQueue).op = op
    /\ Quiet
    /\ UNCHANGED <<phoneVars, bound, workerVars, windowVars, panelVars, userVars>>

Enabled(p, s) == IF p \in disabled[s] THEN "no" ELSE "yes"

\* The category an application has on phone s.
CategoryOn(p, s) ==
    CASE p \notin installed[s] -> "unknown"
      [] p \in SystemApps[s]   -> "system"
      [] OTHER                 -> "user"

\* collect: the names first, the companion lists by later commands.
ReadNames ==
    /\ AppsTurn("inventory") /\ named = Nothing
    /\ \E r \in Shell :
         IF Failed(r)
         THEN /\ Post([signal |-> "inventory", rows |-> {}])
              /\ appsQueue' = Tail(appsQueue)
              /\ UNCHANGED named
         ELSE /\ named' = [serial |-> r.serial, packages |-> installed[r.serial]]
              /\ UNCHANGED <<appsQueue, toGui>>

\* The rows of the inventory of a read that went through.
Rows(s) ==
    {[package |-> p, category |-> CategoryOn(p, s), enabled |-> Enabled(p, s),
      source |-> {named.serial, s}] : p \in named.packages}

ReadCategories ==
    /\ AppsTurn("inventory") /\ named # Nothing
    /\ named' = Nothing
    /\ appsQueue' = Tail(appsQueue)
    /\ \E r \in Shell :
         Post([signal |-> "inventory",
               rows |-> IF Failed(r) THEN {} ELSE Rows(r.serial)])

\* request_details: a dump without the package's section or flags gives a
\* record of unknown category and state.
ReadPackage ==
    /\ AppsTurn("details")
    /\ appsQueue' = Tail(appsQueue)
    /\ \E r \in Shell, dump \in Dumps :
         LET p    == Head(appsQueue).package
             read == ~Failed(r) /\ p \in installed[r.serial] /\ dump = "complete"
         IN  IF Failed(r)
             THEN Post([signal |-> "details_failed", package |-> p])
             ELSE Post([signal |-> "details",
                        row |-> [package |-> p,
                                 category |-> IF read THEN CategoryOn(p, r.serial) ELSE "unknown",
                                 enabled |-> IF read THEN Enabled(p, r.serial) ELSE "unknown",
                                 source |-> {r.serial}]])
    /\ UNCHANGED named

AppsWorker == ReadNames \/ ReadCategories \/ ReadPackage

-----------------------------------------------------------------------------
(* The window's slots, one queued signal at a time, also inside a dialog. *)

Delivered(name) ==
    /\ toGui # <<>>
    /\ Head(toGui).signal = name
    /\ toGui' = Tail(toGui)
    /\ Quiet
    /\ UNCHANGED <<phoneVars, bound, launching, resolver, loaded, named, userVars>>

\* update_connection on device loss.  The inspector keeps its process.
OnLost ==
    /\ Delivered("lost")
    /\ serial' = NoSerial /\ inventory' = {} /\ verified' = {}
    /\ ShowRow("apps", Nothing)
    /\ selected' = [x \in DetailsPanel |-> NoPackage]
    /\ pending' = NoPackage
    /\ UNCHANGED <<queue, appsQueue, process, packages>>

OnConnected ==
    /\ Delivered("connected")
    /\ serial' = Head(toGui).serial
    /\ UNCHANGED <<queue, appsQueue, inventory, verified, panelVars>>

OnInspection ==
    /\ \/ Delivered("inspection") /\ process' = Head(toGui).process
       \/ Delivered("gone") /\ process' = Nothing
    /\ UNCHANGED <<queue, appsQueue, windowVars, packages, shown, selected, pending, busy>>

OnPackages ==
    /\ Delivered("packages")
    /\ packages' = Head(toGui).packages
    /\ verified' = Head(toGui).packages
    /\ UNCHANGED <<queue, appsQueue, serial, inventory, process, shown, selected,
                   pending, busy>>

OnInventory ==
    /\ Delivered("inventory")
    /\ inventory' = Head(toGui).rows
    /\ verified' = {row.package : row \in Head(toGui).rows}
    /\ \/ pending # NoPackage /\ ResolvePending(pending, Head(toGui).rows)
       \/ pending = NoPackage /\ UNCHANGED <<appsQueue, shown, selected, pending, busy>>
    /\ UNCHANGED <<queue, serial, process, packages>>

\* on_apps_details_ready: the apps panel shows every record, the background
\* panel the one of its selection.
OnDetails ==
    LET row   == Head(toGui).row
        shows == {"apps"} \cup {x \in {"background"} : selected[x] = row.package}
    IN  /\ Delivered("details")
        /\ shown' = [x \in DetailsPanel |-> IF x \in shows THEN row ELSE shown[x]]
        /\ busy' = [x \in Panel |-> busy[x] /\ x \notin shows]
        /\ selected' = [selected EXCEPT !["apps"] = row.package]
        /\ UNCHANGED <<queue, appsQueue, windowVars, process, packages, pending>>

OnDetailsFailed ==
    /\ Delivered("details_failed")
    /\ IF Head(toGui).package = selected["apps"]
       THEN ShowRow("apps", Nothing)
       ELSE UNCHANGED <<shown, busy>>
    /\ UNCHANGED <<queue, appsQueue, windowVars, process, packages, selected, pending>>

\* Mutant: an uninstalled application does not refresh the lists.
OnResultKeepsLists ==
    LET result  == Head(toGui)
        follows == result.outcome = "ok" /\ result.action \in {"force_stop", "enable", "disable"}
    IN  /\ Delivered("result")
        /\ busy' = [x \in Panel |-> FALSE]
        /\ appsQueue' = appsQueue \o (IF follows THEN <<ReadInventory>> ELSE <<>>)
        /\ queue' = IF follows THEN Append(queue, Reload) ELSE queue
        /\ UNCHANGED <<windowVars, process, packages, shown, selected, pending>>

\* on_action_result: every panel is unlocked whoever asked; a change that took
\* effect is read back.
OnResult ==
    LET result  == Head(toGui)
        follows == result.outcome = "ok" /\ result.action \in Destructive \cup {"enable"}
        reread  == follows /\ result.action \in {"enable", "disable"}
    IN  /\ Delivered("result")
        /\ busy' = [x \in Panel |-> FALSE]
        /\ appsQueue' = appsQueue \o (IF reread THEN <<ReadDetails(result.package)>> ELSE <<>>)
                                  \o (IF follows THEN <<ReadInventory>> ELSE <<>>)
        /\ queue' = IF follows THEN Append(queue, Reload) ELSE queue
        /\ UNCHANGED <<windowVars, process, packages, shown, selected, pending>>

Window == OnLost \/ OnConnected \/ OnInspection \/ OnPackages \/ OnInventory
              \/ OnDetails \/ OnDetailsFailed \/ OnResult

User ==
    \/ \E p \in Package :
         InspectProcess(p) \/ (\E panel \in DetailsPanel : SelectApp(panel, p))
    \/ RefreshApps \/ Manage \/ ClickAction \/ Answer

Monitor == MonitorLoses \/ MonitorConnects \/ MonitorSamples

ActionNext == Replug \/ Monitor \/ User
                  \/ ActionWorker \/ AppsWorker \/ Window

ActionSpec == ActionInit /\ [][ActionNext]_vars

-----------------------------------------------------------------------------
(* Properties. *)

InFlight ==
    \/ \E i \in DOMAIN queue : queue[i].op = "request"
    \/ \E i \in DOMAIN toGui : toGui[i].signal = "result"

\* A panel is locked only while an action that will unlock it is on its way: no
\* order of losses, selections, dialogs and results leaves a dead panel behind
\* (set_actions_busy: while an action is in flight).
LockHasAction == (\E x \in Panel : busy[x]) => InFlight

\* Once no package list is on its way to it, the inspector verifies identities
\* against what the worker knows: a package the phone disowned is gone from
\* both (_drop_package, reload_packages).
IdentityInStep ==
    (\A i \in DOMAIN toGui : toGui[i].signal # "packages") => packages = resolver

\* No path from a button to a phone (three panels and the recommendations, each
\* with its own list of actions to confirm) runs a destructive command that the
\* user was not asked about.
DestructionConfirmed ==
    ran # Nothing /\ ran.action \in Destructive => ran.confirmed

\* On the word of a phone's own lists and records no application of its system is
\* disabled, and none is uninstalled but by the button of a record that was read
\* from a partial dump and so states no category (supported_actions takes the
\* application for a user's): the button, its gate, the dialog and the worker's
\* queue keep to what one record said, whatever is read in between.
SystemAppsSparedByOwnData ==
    /\ ran # Nothing /\ ran.action \in {"disable", "uninstall"}
    /\ ran.source = {ran.serial} /\ ran.package \in SystemApps[ran.serial]
    => ran.action = "uninstall" /\ ran.panel = "apps" /\ ran.category = "unknown"

\* A system application never receives a disable or uninstall, even if its
\* button state was computed from stale details (_on_apps_action_clicked).
SystemAppsSpared ==
    ran # Nothing /\ ran.action \in {"disable", "uninstall"} =>
        ran.package \notin SystemApps[ran.serial]

\* When nothing is on its way any more and the phone shown is the one on the
\* cable, the lists are that phone's: what was removed is not listed, by
\* whichever action, and nothing of an earlier phone is (wire_apps: a
\* successful uninstall is reflected in the identity checks).
SettledListsAreTrue ==
    /\ toGui = <<>> /\ queue = <<>> /\ appsQueue = <<>>
    /\ serial # NoSerial /\ serial = bound /\ bound = attached
    => /\ packages \subseteq installed[serial]
       /\ \A row \in inventory :
            /\ row.source = {serial}
            /\ row.package \in installed[serial]
            /\ row.category = CategoryOn(row.package, serial)
            /\ row.enabled = Enabled(row.package, serial)
=============================================================================
