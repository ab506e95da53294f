------------------------ MODULE ActionPipelineProofs ------------------------
(***************************************************************************)
(* Proofs about ActionPipeline for any phones, packages, wanted actions    *)
(* and any number of clicks and of exchanges of the phone and samples: the *)
(* commands that run, the panels' locks, the identities, and the lists     *)
(* that come to rest.                                                      *)
(***************************************************************************)
EXTENDS ActionPipeline, TLAPS

Devices == [s \in Serial |-> IF s = attached THEN "device" ELSE "absent"]

(***************************************************************************)
(* A worker's shell call that answers answers from a phone.                *)
(***************************************************************************)
LEMMA ShellReachesAPhone ==
    ASSUME bound \in MaybeSerial, NEW r \in Shell, ~Failed(r)
    PROVE  r.serial \in Serial
<1> r \in ShellResults(Devices, Health, bound)
  BY DEF Shell, Devices
<1>1. CASE r \in RequireResults(Devices, Health, bound)
  <2>1. CASE ExecuteErrors(Health) # {}
    <3>1. PICK e \in ExecuteErrors(Health) : r = Raised(e)
      BY <1>1, <2>1 DEF RequireResults
    <3>2. QED
      BY <3>1 DEF ExecuteErrors, Raised, Failed
  <2>2. CASE ExecuteErrors(Health) = {} /\ bound # NoSerial
    <3>1. r = BoundResult(Devices, Health, bound)
      BY <1>1, <2>2 DEF RequireResults
    <3>2. QED
      BY <2>2, <3>1 DEF BoundResult, Ran, Raised, Failed, ErrorOfState, MaybeSerial
  <2>3. CASE ExecuteErrors(Health) = {} /\ bound = NoSerial
    <3>1. r \in UnboundResults(Devices, Health)
      BY <1>1, <2>3 DEF RequireResults
    <3>2. QED
      BY <3>1 DEF UnboundResults, Authorized, Listed, Ran, Raised, Failed, ErrorOfState
  <2>4. QED
    BY <2>1, <2>2, <2>3
<1>2. CASE r \notin RequireResults(Devices, Health, bound)
  <2>1. PICK e \in RemoteErrors(Health) : r = Raised(e)
    BY <1>2 DEF ShellResults
  <2>2. QED
    BY <2>1 DEF RemoteErrors, Raised, Failed
<1>3. QED
  BY <1>1, <1>2

-----------------------------------------------------------------------------
(***************************************************************************)
(* The strengthening.  A listed row that was read from one phone only      *)
(* calls that phone's system applications the system's; a details record   *)
(* does so as well, or knows neither category nor state.  A request is     *)
(* asked by the rules when it spares them but for what such a record       *)
(* offers, and sanctioned when what is destructive in it was confirmed.    *)
(* Everything in the queues, the panels and the dialog is of these kinds.  *)
(* Without the rule for the queues the properties of the command that runs *)
(* next would not be inductive.                                            *)
(***************************************************************************)
Categorized(row) ==
    /\ row.source # {}
    /\ \A s \in Serial : row.source = {s} /\ row.package \in SystemApps[s]
                           => row.category = "system"
ListedRow == {row \in Row : Categorized(row)}

Honest(row) ==
    /\ row.source # {}
    /\ \A s \in Serial : row.source = {s} /\ row.package \in SystemApps[s]
         => row.category = "system" \/ (row.category = "unknown" /\ row.enabled = "unknown")
HonestRow == {row \in Row : Honest(row)}

OfPartialDump(request) ==
    request.action = "uninstall" /\ request.panel = "apps" /\ request.category = "unknown"
Spares(request) ==
    request.action \in {"disable", "uninstall"} /\ ~OfPartialDump(request) =>
        \A s \in Serial : request.source = {s} => request.package \notin SystemApps[s]
Asked == {request \in Request : Spares(request)}
Sanctioned == {request \in Asked : request.action \in Destructive => request.confirmed}

Slot == Sanctioned \cup {Reload}
AppsSlot == {ReadInventory} \cup {ReadDetails(p) : p \in Package}
HonestSignal ==
    {m \in Signal : /\ m.signal = "inventory" => m.rows \subseteq ListedRow
                    /\ m.signal = "details" => m.row \in HonestRow}
CleanRun ==
    {run \in Run : /\ run.action \in Destructive => run.confirmed
                   /\ run.action \in {"disable", "uninstall"} /\ ~OfPartialDump(run)
                        /\ run.source = {run.serial}
                      => run.package \notin SystemApps[run.serial]}

PhonesInv ==
    /\ attached \in MaybeSerial /\ bound \in MaybeSerial
    /\ events \in 0 .. MaxEvents
    /\ installed \in [Serial -> SUBSET Package]
    /\ disabled \in [Serial -> SUBSET Package]
    /\ \A s \in Serial : SystemApps[s] \subseteq installed[s]
ActionWorkerInv ==
    /\ queue \in Seq(Slot)
    /\ launching \in BOOLEAN /\ loaded \in BOOLEAN
    /\ resolver \in SUBSET Package
AppsWorkerInv ==
    /\ appsQueue \in Seq(AppsSlot)
    /\ named \in Names \cup {Nothing}
WindowInv ==
    /\ serial \in MaybeSerial /\ verified \in SUBSET Package
    /\ inventory \in SUBSET ListedRow
PanelInv ==
    /\ process \in Process \cup {Nothing} /\ packages \in SUBSET Package
    /\ shown \in [DetailsPanel -> HonestRow \cup {Nothing}]
    /\ selected \in [DetailsPanel -> MaybePackage]
    /\ pending \in MaybePackage
    /\ busy \in [Panel -> BOOLEAN]
UserInv == clicks \in 0 .. MaxClicks /\ dialog \in Asked \cup {Nothing}

IInv ==
    /\ PhonesInv /\ ActionWorkerInv /\ AppsWorkerInv /\ WindowInv /\ PanelInv /\ UserInv
    /\ toGui \in Seq(HonestSignal)
    /\ ran \in CleanRun \cup {Nothing}

USE DEF phoneVars, workerVars, appsVars, panelVars, windowVars, userVars, Quiet,
        Monitor, RereadLists

(***************************************************************************)
(* Sequences over a set stay over it.                                      *)
(***************************************************************************)
LEMMA Queues ==
    ASSUME NEW S, NEW s \in Seq(S)
    PROVE  /\ \A e \in S : Append(s, e) \in Seq(S)
           /\ s # <<>> => Head(s) \in S /\ Tail(s) \in Seq(S)
           /\ \A t \in Seq(S) : s \o t \in Seq(S)
           /\ <<>> \in Seq(S)
           /\ \A e \in S : <<e>> \in Seq(S)
OBVIOUS

\* The empty queue holds whatever a queue may hold.
LEMMA EmptyQueue == \A S : <<>> \in Seq(S)
OBVIOUS

\* A sequence over a set is one over every larger set.
LEMMA SeqOver ==
    ASSUME NEW S, NEW T, S \subseteq T, NEW s \in Seq(S)
    PROVE  s \in Seq(T)
<1>1. s \in [1 .. Len(s) -> T] /\ Len(s) \in Nat
  OBVIOUS
<1>2. QED
  BY <1>1

(***************************************************************************)
(* The strengthening implies what the properties say.                      *)
(***************************************************************************)
LEMMA InvImpliesType == ASSUME IInv PROVE ActionTypeOK
<1>1. Slot \subseteq Request \cup {Reload} /\ HonestSignal \subseteq Signal
      /\ HonestRow \subseteq Row /\ ListedRow \subseteq Row /\ Asked \subseteq Request /\ CleanRun \subseteq Run
  BY DEF Slot, Sanctioned, Asked, HonestSignal, HonestRow, ListedRow, CleanRun
<1>2. queue \in Seq(Request \cup {Reload})
  BY <1>1, SeqOver DEF IInv, ActionWorkerInv
<1>3. toGui \in Seq(Signal)
  BY <1>1, SeqOver DEF IInv
<1>4. shown \in [DetailsPanel -> Row \cup {Nothing}]
  BY <1>1 DEF IInv, PanelInv
<1>5. QED
  BY <1>1, <1>2, <1>3, <1>4 DEF IInv, PhonesInv, ActionWorkerInv, AppsWorkerInv,
     WindowInv, PanelInv, UserInv, ActionTypeOK, AppsSlot

\* What the runs check follows from the invariant.
LEMMA InvImpliesRuns ==
    ASSUME IInv
    PROVE  DestructionConfirmed /\ SystemAppsSparedByOwnData
BY DEF IInv, CleanRun, OfPartialDump, DestructionConfirmed, SystemAppsSparedByOwnData

\* Nothing is wrong before the first signal.
LEMMA InitInvariant == ASSUME ActionInit PROVE IInv
<1>1. PhonesInv
  BY ActionAssumption DEF ActionInit, PhonesInv, MaybeSerial
<1>2. ActionWorkerInv /\ AppsWorkerInv /\ toGui \in Seq(HonestSignal)
  BY EmptyQueue DEF ActionInit, ActionWorkerInv, AppsWorkerInv
<1>3. WindowInv /\ PanelInv /\ UserInv
  BY ActionAssumption DEF ActionInit, WindowInv, PanelInv, UserInv, MaybeSerial,
     MaybePackage
<1>4. QED
  BY <1>1, <1>2, <1>3 DEF IInv, ActionInit

-----------------------------------------------------------------------------
(***************************************************************************)
(* The phones and the monitor.                                             *)
(***************************************************************************)
LEMMA SignalsAreHonest ==
    /\ [signal |-> "lost"] \in HonestSignal
    /\ [signal |-> "gone"] \in HonestSignal
    /\ \A s \in Serial : [signal |-> "connected", serial |-> s] \in HonestSignal
    /\ \A x \in Process : [signal |-> "inspection", process |-> x] \in HonestSignal
    /\ \A rows \in SUBSET ListedRow :
         [signal |-> "inventory", rows |-> rows] \in HonestSignal
    /\ \A row \in HonestRow : [signal |-> "details", row |-> row] \in HonestSignal
    /\ \A p \in Package : [signal |-> "details_failed", package |-> p] \in HonestSignal
    /\ \A known \in SUBSET Package : PackagesSignal(known) \in HonestSignal
    /\ \A request \in Request, outcome \in Outcome :
         ResultSignal(request, outcome) \in HonestSignal
<1>1. \A rows \in SUBSET ListedRow :
        [signal |-> "inventory", rows |-> rows] \in HonestSignal
  BY DEF HonestSignal, Signal, ListedRow
<1>2. \A row \in HonestRow : [signal |-> "details", row |-> row] \in HonestSignal
  BY DEF HonestSignal, Signal, HonestRow
<1>3. QED
  BY <1>1, <1>2 DEF HonestSignal, Signal, PackagesSignal, ResultSignal, Request

\* What is posted to the workers is what their queues hold.
LEMMA SlotTypes ==
    /\ Reload \in Slot
    /\ ReadInventory \in AppsSlot
    /\ \A p \in Package : ReadDetails(p) \in AppsSlot
BY DEF Slot, AppsSlot

\* A replug, and what the monitor posts, keep the invariant.
LEMMA PhonesAndMonitor ==
    ASSUME IInv, Replug \/ Monitor
    PROVE  IInv'
<1>1. PhonesInv'
  BY ActionAssumption DEF IInv, PhonesInv, Replug, MonitorLoses, MonitorConnects,
     MonitorSamples, MaybeSerial
<1>2. toGui' \in Seq(HonestSignal)
  BY SignalsAreHonest, Queues DEF IInv, PhonesInv, Replug, MonitorLoses,
     MonitorConnects, MonitorSamples, MaybeSerial, Post
<1>3. ActionWorkerInv' /\ AppsWorkerInv'
  BY SlotTypes, Queues DEF IInv, ActionWorkerInv, AppsWorkerInv, Replug, MonitorLoses,
     MonitorConnects, MonitorSamples
<1>4. WindowInv' /\ PanelInv' /\ UserInv'
  BY DEF IInv, WindowInv, PanelInv, UserInv, Replug, MonitorLoses, MonitorConnects,
     MonitorSamples
<1>5. QED
  BY <1>1, <1>2, <1>3, <1>4 DEF IInv, Replug, MonitorLoses, MonitorConnects,
     MonitorSamples

-----------------------------------------------------------------------------
(***************************************************************************)
(* The user: what is inspected, selected and refreshed.                    *)
(***************************************************************************)
LEMMA InspectInvariant ==
    ASSUME IInv, NEW p \in Package, InspectProcess(p)
    PROVE  IInv'
<1>1. PICK r \in Shell :
        IF Failed(r) \/ p \notin installed[r.serial]
        THEN Post([signal |-> "gone"])
        ELSE Post([signal |-> "inspection",
                   process |-> [package |-> p, source |-> {r.serial}]])
  BY DEF InspectProcess
<1>2. ~Failed(r) => [package |-> p, source |-> {r.serial}] \in Process
  BY ShellReachesAPhone DEF IInv, PhonesInv, Process
<1>3. toGui' \in Seq(HonestSignal)
  BY <1>1, <1>2, SignalsAreHonest, Queues DEF IInv, Post
<1>4. clicks' \in 0 .. MaxClicks
  BY ActionAssumption DEF IInv, UserInv, InspectProcess, UserActs
<1>5. QED
  BY <1>3, <1>4 DEF IInv, InspectProcess, UserActs, PhonesInv, ActionWorkerInv,
     AppsWorkerInv, WindowInv, PanelInv, UserInv

\* So does choosing an application on a panel.
LEMMA SelectInvariant ==
    ASSUME IInv, NEW panel \in DetailsPanel, NEW p \in Package, SelectApp(panel, p)
    PROVE  IInv'
<1>1. appsQueue' \in Seq(AppsSlot)
  BY SlotTypes, Queues DEF IInv, AppsWorkerInv, SelectApp
<1>2. clicks' \in 0 .. MaxClicks
  BY ActionAssumption DEF IInv, UserInv, SelectApp, UserActs
<1>3. selected' \in [DetailsPanel -> MaybePackage] /\ pending' \in MaybePackage
  BY DEF IInv, PanelInv, SelectApp, MaybePackage
<1>4. QED
  BY <1>1, <1>2, <1>3 DEF IInv, SelectApp, UserActs, PhonesInv, ActionWorkerInv,
     AppsWorkerInv, WindowInv, PanelInv, UserInv

\* So does the refresh button.
LEMMA RefreshInvariant == ASSUME IInv, RefreshApps PROVE IInv'
<1>1. appsQueue' \in Seq(AppsSlot) /\ queue' \in Seq(Slot)
  BY SlotTypes, Queues DEF IInv, ActionWorkerInv, AppsWorkerInv, RefreshApps
<1>2. clicks' \in 0 .. MaxClicks
  BY ActionAssumption DEF IInv, UserInv, RefreshApps, UserActs
<1>3. QED
  BY <1>1, <1>2 DEF IInv, RefreshApps, UserActs, PhonesInv, ActionWorkerInv,
     AppsWorkerInv, WindowInv, PanelInv, UserInv

\* What a list makes of the application a panel was waiting for.
LEMMA ResolvePendingInvariant ==
    ASSUME IInv, NEW p \in Package, NEW rows, ResolvePending(p, rows),
           UNCHANGED <<process, packages>>
    PROVE  PanelInv' /\ appsQueue' \in Seq(AppsSlot)
<1>1. appsQueue' \in Seq(AppsSlot)
  BY SlotTypes, Queues DEF IInv, AppsWorkerInv, ResolvePending
<1>2. pending' \in MaybePackage /\ selected' \in [DetailsPanel -> MaybePackage]
  BY DEF IInv, PanelInv, ResolvePending, MaybePackage
<1>3. shown' \in [DetailsPanel -> HonestRow \cup {Nothing}] /\ busy' \in [Panel -> BOOLEAN]
  BY DEF IInv, PanelInv, ResolvePending, ShowRow
<1>4. QED
  BY <1>1, <1>2, <1>3 DEF IInv, PanelInv

\* So does opening an application in the manager.
LEMMA ManageInvariant == ASSUME IInv, Manage PROVE IInv'
<1>1. Resolved \in Package
  BY DEF Manage, Resolved, IInv, PanelInv
<1>2. PanelInv' /\ appsQueue' \in Seq(AppsSlot)
  BY <1>1, ResolvePendingInvariant DEF Manage
<1>3. clicks' \in 0 .. MaxClicks
  BY ActionAssumption DEF IInv, UserInv, Manage, UserActs
<1>4. QED
  BY <1>2, <1>3 DEF IInv, Manage, UserActs, PhonesInv, ActionWorkerInv, AppsWorkerInv,
     WindowInv, UserInv

(***************************************************************************)
(* The user: what is clicked and answered.  A request that spares system   *)
(* applications goes to the dialog when it is destructive and to the queue *)
(* when it is not; the dialog sanctions it.                                *)
(***************************************************************************)
LEMMA ClickedInvariant ==
    ASSUME IInv, NEW request \in Asked, Clicked(request)
    PROVE  IInv'
<1>1. clicks' \in 0 .. MaxClicks
  BY ActionAssumption DEF IInv, UserInv, Clicked, UserActs
<1>2. dialog' \in Asked \cup {Nothing}
  BY DEF IInv, UserInv, Clicked, ConfirmOrDispatch
<1>3. queue' \in Seq(Slot)
  <2>1. CASE request.action \in Destructive
    BY <2>1 DEF IInv, ActionWorkerInv, Clicked, ConfirmOrDispatch
  <2>2. CASE request.action \notin Destructive
    <3>1. request \in Slot
      BY <2>2 DEF Slot, Sanctioned
    <3>2. QED
      BY <2>2, <3>1, Queues DEF IInv, ActionWorkerInv, Clicked, ConfirmOrDispatch,
         Dispatch
  <2>3. QED
    BY <2>1, <2>2
<1>4. busy' \in [Panel -> BOOLEAN]
  BY DEF IInv, PanelInv, Clicked, ConfirmOrDispatch, Dispatch
<1>5. QED
  BY <1>1, <1>2, <1>3, <1>4 DEF IInv, Clicked, UserActs, PhonesInv, ActionWorkerInv,
     AppsWorkerInv, WindowInv, PanelInv, UserInv

\* A request says what it was asked for.
LEMMA AskTypes ==
    ASSUME NEW action \in Action, NEW package \in Package,
           NEW panel \in Panel \cup {"recommendation"}, NEW category \in Category,
           NEW source \in SUBSET Serial,
           NEW request, request = Ask(action, package, panel, category, source)
    PROVE  /\ request \in Request
           /\ request.action = action /\ request.package = package
           /\ request.panel = panel /\ request.category = category
           /\ request.source = source
BY DEF Ask, Request

\* What a record offers to take away is no system application, unless it knows no
\* category; what a listed row offers is none.
LEMMA SupportedSpares ==
    ASSUME NEW row \in HonestRow, NEW action \in Supported(row),
           action \in {"disable", "uninstall"}, NEW s \in Serial, row.source = {s},
           row.package \in SystemApps[s]
    PROVE  action = "uninstall" /\ row.category = "unknown"
BY DEF HonestRow, Honest, Supported

\* What a listed row offers to take away is no system application.
LEMMA ListedSpares ==
    ASSUME NEW row \in ListedRow, NEW action \in Supported(row),
           action \in {"disable", "uninstall"}, NEW s \in Serial, row.source = {s}
    PROVE  row.package \notin SystemApps[s]
BY DEF ListedRow, Categorized, Supported

\* So does a click on an action.
LEMMA ClickInvariant == ASSUME IInv, ClickAction PROVE IInv'
<1>1. ASSUME NEW action \in Wanted, ClickInspector(action)
      PROVE  IInv'
  <2>1. process \in Process
    BY <1>1, ActionAssumption DEF ClickInspector, Resolved, IInv, PanelInv, Nothing
  <2>2. PICK request : request = Ask(action, process.package, "inspector", "unknown",
                                     process.source)
    OBVIOUS
  <2>3. request \in Request /\ request.action = action
    BY <1>1, <2>1, <2>2, AskTypes, ActionAssumption DEF Process, Panel, Category
  <2>4. request \in Asked
    BY <1>1, <2>3 DEF ClickInspector, Asked, Spares
  <2>5. Clicked(request)
    BY <1>1, <2>2 DEF ClickInspector
  <2>6. QED
    BY <2>4, <2>5, ClickedInvariant
<1>2. ASSUME NEW action \in Wanted, ClickApps(action)
      PROVE  IInv'
  <2> DEFINE row == shown["apps"]
  <2>1. row \in HonestRow /\ action \in Supported(row)
    BY <1>2 DEF ClickApps, IInv, PanelInv, DetailsPanel
  <2>2. PICK request : request = Ask(action, row.package, "apps", row.category, row.source)
    OBVIOUS
  <2>3. /\ request \in Request /\ request.action = action /\ request.package = row.package
        /\ request.panel = "apps" /\ request.category = row.category
        /\ request.source = row.source
    BY <2>1, <2>2, AskTypes, ActionAssumption DEF HonestRow, Row, Panel
  <2>4. Spares(request)
    BY <2>1, <2>3, SupportedSpares DEF Spares, OfPartialDump
  <2>5. Clicked(request)
    BY <1>2, <2>2 DEF ClickApps
  <2>6. QED
    BY <2>3, <2>4, <2>5, ClickedInvariant DEF Asked
<1>3. ASSUME NEW action \in Wanted, ClickBackground(action)
      PROVE  IInv'
  <2> DEFINE record == shown["background"]
  <2>1. record \in HonestRow /\ action \in Supported(record)
    BY <1>3 DEF ClickBackground, IInv, PanelInv, DetailsPanel
  <2>2. PICK row \in inventory :
          /\ row.package = record.package
          /\ action \in Supported(row)
          /\ Clicked(Ask(action, row.package, "background", row.category,
                         row.source \cup record.source))
    BY <1>3 DEF ClickBackground
  <2>3. row \in ListedRow
    BY <2>2 DEF IInv, WindowInv
  <2>4. PICK request : request = Ask(action, row.package, "background", row.category,
                                     row.source \cup record.source)
    OBVIOUS
  <2>5. /\ request \in Request /\ request.action = action
        /\ request.package = row.package /\ request.source = row.source \cup record.source
    BY <2>1, <2>3, <2>4, AskTypes, ActionAssumption DEF HonestRow, ListedRow, Row, Panel
  <2>6. Spares(request)
    <3> SUFFICES ASSUME action \in {"disable", "uninstall"},
                        NEW s \in Serial, row.source \cup record.source = {s}
                 PROVE  row.package \notin SystemApps[s]
      BY <2>5 DEF Spares
    <3>1. row.source = {s}
      BY <2>3 DEF ListedRow, Categorized
    <3>2. QED
      BY <2>2, <2>3, <3>1, ListedSpares
  <2>7. QED
    BY <2>2, <2>4, <2>5, <2>6, ClickedInvariant DEF Asked
<1>4. ASSUME ClickRecommendation
      PROVE  IInv'
  <2>1. PICK row \in inventory :
          Clicked(Ask("force_stop", row.package, "recommendation", row.category, row.source))
    BY <1>4 DEF ClickRecommendation
  <2>2. row \in Row
    BY <2>1 DEF IInv, WindowInv, ListedRow
  <2>3. PICK request : request = Ask("force_stop", row.package, "recommendation",
                                     row.category, row.source)
    OBVIOUS
  <2>4. request \in Request /\ request.action = "force_stop"
    BY <2>2, <2>3, AskTypes DEF Row, Action, Destructive
  <2>5. request \in Asked
    BY <2>4 DEF Asked, Spares
  <2>6. QED
    BY <2>1, <2>3, <2>5, ClickedInvariant
<1>5. QED
  BY <1>1, <1>2, <1>3, <1>4 DEF ClickAction

\* So does the answer to a dialog.
LEMMA AnswerInvariant == ASSUME IInv, Answer PROVE IInv'
<1> DEFINE request == [dialog EXCEPT !.confirmed = TRUE]
<1>1. dialog \in Asked
  BY DEF IInv, UserInv, Answer
<1>2. /\ request \in Request /\ request.confirmed /\ request.action = dialog.action
      /\ request.package = dialog.package /\ request.source = dialog.source
      /\ request.panel = dialog.panel /\ request.category = dialog.category
  BY <1>1 DEF Asked, Request
<1>3. request \in Slot
  BY <1>1, <1>2 DEF Slot, Sanctioned, Asked, Spares, OfPartialDump
<1>4. queue' \in Seq(Slot)
  <2>1. queue \in Seq(Slot)
    BY DEF IInv, ActionWorkerInv
  <2>2. queue' = Append(queue, request) \/ queue' = queue
    BY DEF Answer, Dispatch
  <2>3. QED
    BY <1>3, <2>1, <2>2, Queues
<1>5. busy' \in [Panel -> BOOLEAN]
  BY DEF IInv, PanelInv, Answer, Dispatch
<1>6. QED
  BY <1>4, <1>5 DEF IInv, Answer, PhonesInv, ActionWorkerInv, AppsWorkerInv, WindowInv,
     PanelInv, UserInv

-----------------------------------------------------------------------------
(***************************************************************************)
(* The action worker.  Completing a request keeps its queue and posts a    *)
(* typed result; the command that runs is the sanctioned request's.        *)
(***************************************************************************)
LEMMA ReloadInvariant == ASSUME IInv, ReloadPackages PROVE IInv'
<1>1. PICK r \in Shell :
        LET known == IF Failed(r) THEN {} ELSE installed[r.serial]
        IN  resolver' = known /\ loaded' = ~Failed(r) /\ Post(PackagesSignal(known))
  BY DEF ReloadPackages
<1> DEFINE known == IF Failed(r) THEN {} ELSE installed[r.serial]
<1>2. known \in SUBSET Package
  BY ShellReachesAPhone DEF IInv, PhonesInv
<1>3. toGui' \in Seq(HonestSignal)
  BY <1>1, <1>2, SignalsAreHonest, Queues DEF IInv, Post
<1>4. queue' \in Seq(Slot)
  BY Queues DEF IInv, ActionWorkerInv, ReloadPackages, WorkerTurn
<1>5. loaded' \in BOOLEAN
  BY <1>1 DEF Failed
<1>6. resolver' \in SUBSET Package
  BY <1>1, <1>2
<1>7. QED
  BY <1>3, <1>4, <1>5, <1>6 DEF IInv, ReloadPackages, WorkerTurn, PhonesInv,
     ActionWorkerInv, AppsWorkerInv, WindowInv, PanelInv, UserInv

\* What the worker takes up was asked for, and confirmed if it had to be.
LEMMA RequestAtHead ==
    ASSUME IInv, WorkerTurn("request")
    PROVE  Head(queue) \in Sanctioned /\ Head(queue) \in Request
<1>1. Head(queue) \in Slot
  BY Queues DEF IInv, ActionWorkerInv, WorkerTurn
<1>2. QED
  BY <1>1 DEF Slot, Reload, WorkerTurn, Sanctioned, Asked

\* What a phone answers is an outcome.
LEMMA OutcomeTypes == \A s \in Serial : OutcomeOn(s) \subseteq Outcome
BY DEF OutcomeOn, Outcome

\* An outcome, and what follows it, keep the queues in order.
LEMMA CompleteInvariant ==
    ASSUME IInv, WorkerTurn("request"), NEW outcome \in Outcome, Complete(outcome)
    PROVE  ActionWorkerInv' /\ toGui' \in Seq(HonestSignal)
<1> DEFINE request == Head(queue)
           known == IF outcome = "missing" THEN resolver \ {request.package} ELSE resolver
           told == IF outcome = "missing" /\ loaded THEN <<PackagesSignal(known)>> ELSE <<>>
<1>1. request \in Request
  BY RequestAtHead
<1>2. known \in SUBSET Package
  BY DEF IInv, ActionWorkerInv
<1>3. told \in Seq(HonestSignal)
  BY <1>2, SignalsAreHonest, Queues DEF IInv
<1>4. <<ResultSignal(request, outcome)>> \in Seq(HonestSignal)
  BY <1>1, SignalsAreHonest, Queues DEF IInv
<1>5. toGui' = toGui \o told \o <<ResultSignal(request, outcome)>>
  BY DEF Complete
<1> HIDE DEF told
<1>6. toGui \o told \in Seq(HonestSignal)
  BY <1>3, Queues DEF IInv
<1>7. toGui' \in Seq(HonestSignal)
  BY <1>4, <1>5, <1>6, Queues
<1>8. queue' \in Seq(Slot)
  BY Queues DEF IInv, ActionWorkerInv, WorkerTurn, Complete
<1>9. QED
  BY <1>2, <1>7, <1>8 DEF IInv, ActionWorkerInv, Complete

\* Resolving a launcher keeps the invariant.
LEMMA LauncherInvariant == ASSUME IInv, ResolveLauncher PROVE IInv'
<1>1. PICK r \in Shell :
        \/ Failed(r) /\ Complete("unreachable")
        \/ ~Failed(r) /\ \E outcome \in OutcomeOn(r.serial) \ {"ok"} : Complete(outcome)
        \/ launching' = TRUE /\ UNCHANGED <<queue, resolver, loaded, toGui>>
  BY DEF ResolveLauncher
<1>2. WorkerTurn("request")
  BY DEF ResolveLauncher
<1>3. ActionWorkerInv' /\ toGui' \in Seq(HonestSignal)
  <2>1. CASE Failed(r) /\ Complete("unreachable")
    BY <1>2, <2>1, CompleteInvariant DEF Outcome
  <2>2. CASE ~Failed(r) /\ \E outcome \in OutcomeOn(r.serial) \ {"ok"} : Complete(outcome)
    BY <1>2, <2>2, CompleteInvariant, OutcomeTypes, ShellReachesAPhone DEF IInv, PhonesInv
  <2>3. CASE launching' = TRUE /\ UNCHANGED <<queue, resolver, loaded, toGui>>
    BY <2>3 DEF IInv, ActionWorkerInv
  <2>4. QED
    BY <1>1, <2>1, <2>2, <2>3
<1>4. QED
  BY <1>3 DEF IInv, ResolveLauncher, WorkerTurn, PhonesInv, AppsWorkerInv, WindowInv,
     PanelInv, UserInv

\* A phone that did what it was told is still a phone.
LEMMA EffectInvariant ==
    ASSUME PhonesInv, NEW action, NEW p \in Package, NEW s \in Serial,
           TakesEffect(action, p, s), UNCHANGED <<attached, events, bound>>
    PROVE  PhonesInv'
<1>1. installed' \in [Serial -> SUBSET Package]
  BY DEF PhonesInv, TakesEffect
<1>2. disabled' \in [Serial -> SUBSET Package]
  BY DEF PhonesInv, TakesEffect
<1>3. \A t \in Serial : SystemApps[t] \subseteq installed'[t]
  BY DEF PhonesInv, TakesEffect
<1>4. QED
  BY <1>1, <1>2, <1>3 DEF PhonesInv

\* So does running the command.
LEMMA CommandInvariant == ASSUME IInv, RunCommand PROVE IInv'
<1> DEFINE request == Head(queue)
<1>1. WorkerTurn("request")
  BY DEF RunCommand
<1>2. request \in Sanctioned /\ request \in Request
  BY <1>1, RequestAtHead
<1>3. PICK r \in Shell :
        \/ /\ Failed(r)
           /\ Complete("unreachable")
           /\ Quiet /\ UNCHANGED <<installed, disabled>>
        \/ /\ ~Failed(r)
           /\ \E outcome \in OutcomeOn(r.serial) :
                /\ Complete(outcome)
                /\ IF outcome = "ok"
                   THEN TakesEffect(request.action, request.package, r.serial)
                   ELSE UNCHANGED <<installed, disabled>>
           /\ ran' = [action |-> request.action, package |-> request.package,
                      panel |-> request.panel, category |-> request.category,
                      source |-> request.source, confirmed |-> request.confirmed,
                      serial |-> r.serial]
  BY DEF RunCommand
<1>4. CASE Failed(r)
  <2>1. ActionWorkerInv' /\ toGui' \in Seq(HonestSignal)
    BY <1>1, <1>3, <1>4, CompleteInvariant DEF Outcome
  <2>2. QED
    BY <1>3, <1>4, <2>1 DEF IInv, RunCommand, WorkerTurn, PhonesInv, AppsWorkerInv,
       WindowInv, PanelInv, UserInv
<1>5. CASE ~Failed(r)
  <2>1. r.serial \in Serial
    BY <1>5, ShellReachesAPhone DEF IInv, PhonesInv
  <2>2. PICK outcome \in OutcomeOn(r.serial) :
          /\ Complete(outcome)
          /\ IF outcome = "ok"
             THEN TakesEffect(request.action, request.package, r.serial)
             ELSE UNCHANGED <<installed, disabled>>
    BY <1>3, <1>5
  <2>3. outcome \in Outcome
    BY <2>1, <2>2, OutcomeTypes
  <2>4. ActionWorkerInv' /\ toGui' \in Seq(HonestSignal)
    BY <1>1, <2>2, <2>3, CompleteInvariant
  <2>5. PhonesInv'
    <3>1. UNCHANGED <<attached, events, bound>>
      BY <1>1 DEF WorkerTurn
    <3>2. CASE outcome = "ok"
      BY <1>2, <2>1, <2>2, <3>1, <3>2, EffectInvariant DEF IInv, Request
    <3>3. CASE outcome # "ok"
      BY <2>2, <3>1, <3>3 DEF IInv, PhonesInv
    <3>4. QED
      BY <3>2, <3>3
  <2>6. ran' \in CleanRun
    BY <1>2, <1>3, <1>5, <2>1 DEF CleanRun, Run, Sanctioned, Asked, Spares, OfPartialDump, Request
  <2>7. QED
    BY <1>1, <2>4, <2>5, <2>6 DEF IInv, WorkerTurn, AppsWorkerInv, WindowInv, PanelInv,
       UserInv
<1>6. QED
  BY <1>4, <1>5

-----------------------------------------------------------------------------
(***************************************************************************)
(* The apps worker.  What it lists of one phone calls the system by its    *)
(* name; a record of a partial dump knows neither category nor state.      *)
(***************************************************************************)
LEMMA AppsFrame ==
    ASSUME IInv, NEW op, AppsTurn(op), appsQueue' \in Seq(AppsSlot),
           named' \in Names \cup {Nothing}, toGui' \in Seq(HonestSignal)
    PROVE  IInv'
BY DEF IInv, AppsTurn, PhonesInv, ActionWorkerInv, AppsWorkerInv, WindowInv, PanelInv,
   UserInv

\* So does reading the names of the packages.
LEMMA NamesInvariant == ASSUME IInv, ReadNames PROVE IInv'
<1>1. appsQueue \in Seq(AppsSlot) /\ Tail(appsQueue) \in Seq(AppsSlot)
  BY Queues DEF IInv, AppsWorkerInv, ReadNames, AppsTurn
<1>2. PICK r \in Shell :
        IF Failed(r)
        THEN /\ Post([signal |-> "inventory", rows |-> {}])
             /\ appsQueue' = Tail(appsQueue)
             /\ UNCHANGED named
        ELSE /\ named' = [serial |-> r.serial, packages |-> installed[r.serial]]
             /\ UNCHANGED <<appsQueue, toGui>>
  BY DEF ReadNames
<1>3. appsQueue' \in Seq(AppsSlot)
  BY <1>1, <1>2
<1>4. named' \in Names \cup {Nothing}
  BY <1>2, ShellReachesAPhone DEF IInv, PhonesInv, AppsWorkerInv, Names
<1>5. toGui' \in Seq(HonestSignal)
  BY <1>2, SignalsAreHonest, Queues DEF IInv, Post
<1>6. QED
  BY <1>3, <1>4, <1>5, AppsFrame DEF ReadNames

\* The rows made of two dumps of one phone say where they come from.
LEMMA RowsAreHonest ==
    ASSUME IInv, named # Nothing, NEW s \in Serial
    PROVE  Rows(s) \in SUBSET ListedRow
<1> SUFFICES ASSUME NEW p \in named.packages
             PROVE  [package |-> p, category |-> CategoryOn(p, s), enabled |-> Enabled(p, s),
                     source |-> {named.serial, s}] \in ListedRow
  BY DEF Rows
<1>1. named.serial \in Serial /\ p \in Package
  BY DEF IInv, AppsWorkerInv, Names
<1>2. CategoryOn(p, s) \in {"system", "user", "unknown"} /\ Enabled(p, s) \in {"yes", "no"}
  BY DEF CategoryOn, Enabled
<1>3. \A t \in Serial : {named.serial, s} = {t} /\ p \in SystemApps[t]
        => CategoryOn(p, s) = "system"
  BY DEF IInv, PhonesInv, CategoryOn
<1>4. QED
  BY <1>1, <1>2, <1>3 DEF ListedRow, Categorized, Row, Category

\* So does reading the categories.
LEMMA CategoriesInvariant == ASSUME IInv, ReadCategories PROVE IInv'
<1>1. appsQueue' \in Seq(AppsSlot)
  BY Queues DEF IInv, AppsWorkerInv, ReadCategories, AppsTurn
<1>2. PICK r \in Shell :
        Post([signal |-> "inventory", rows |-> IF Failed(r) THEN {} ELSE Rows(r.serial)])
  BY DEF ReadCategories
<1>3. (IF Failed(r) THEN {} ELSE Rows(r.serial)) \in SUBSET ListedRow
  BY RowsAreHonest, ShellReachesAPhone DEF IInv, PhonesInv, ReadCategories
<1>4. toGui' \in Seq(HonestSignal)
  BY <1>2, <1>3, SignalsAreHonest, Queues DEF IInv, Post
<1>5. QED
  BY <1>1, <1>4, AppsFrame DEF ReadCategories

\* So does reading one package.
LEMMA PackageInvariant == ASSUME IInv, ReadPackage PROVE IInv'
<1> DEFINE p == Head(appsQueue).package
           read(r, dump) == ~Failed(r) /\ p \in installed[r.serial] /\ dump = "complete"
           record(r, dump) ==
             [package |-> p,
              category |-> IF read(r, dump) THEN CategoryOn(p, r.serial) ELSE "unknown",
              enabled |-> IF read(r, dump) THEN Enabled(p, r.serial) ELSE "unknown",
              source |-> {r.serial}]
<1>1. appsQueue' \in Seq(AppsSlot) /\ p \in Package
  <2>1. Head(appsQueue) \in AppsSlot /\ Tail(appsQueue) \in Seq(AppsSlot)
    BY Queues DEF IInv, AppsWorkerInv, ReadPackage, AppsTurn
  <2>2. QED
    BY <2>1 DEF ReadPackage, AppsTurn, AppsSlot, ReadInventory, ReadDetails
<1>2. PICK r \in Shell, dump \in Dumps :
        IF Failed(r)
        THEN Post([signal |-> "details_failed", package |-> p])
        ELSE Post([signal |-> "details", row |-> record(r, dump)])
  BY DEF ReadPackage
<1>3. ~Failed(r) => record(r, dump) \in HonestRow
  <2> SUFFICES ASSUME ~Failed(r) PROVE record(r, dump) \in HonestRow
    OBVIOUS
  <2>1. r.serial \in Serial
    BY ShellReachesAPhone DEF IInv, PhonesInv
  <2>2. /\ CategoryOn(p, r.serial) \in {"system", "user", "unknown"}
        /\ Enabled(p, r.serial) \in {"yes", "no"}
    BY DEF CategoryOn, Enabled
  <2>3. record(r, dump) \in Row
    BY <1>1, <2>1, <2>2 DEF Row, Category
  <2>4. p \in SystemApps[r.serial] => CategoryOn(p, r.serial) = "system"
    BY <2>1 DEF IInv, PhonesInv, CategoryOn
  <2>5. Honest(record(r, dump))
    BY <2>4 DEF Honest
  <2>6. QED
    BY <2>3, <2>5 DEF HonestRow
<1>4. toGui' \in Seq(HonestSignal)
  <2> HIDE DEF record
  <2>1. QED
    BY <1>1, <1>2, <1>3, SignalsAreHonest, Queues DEF IInv, Post
<1>5. named' \in Names \cup {Nothing}
  BY DEF IInv, AppsWorkerInv, ReadPackage
<1>6. QED
  BY <1>1, <1>4, <1>5, AppsFrame DEF ReadPackage

-----------------------------------------------------------------------------
(***************************************************************************)
(* The window's slots.                                                     *)
(***************************************************************************)
LEMMA DeliveredFrame ==
    ASSUME IInv, NEW name, Delivered(name), queue' \in Seq(Slot), appsQueue' \in Seq(AppsSlot),
           WindowInv', PanelInv'
    PROVE  IInv'
<1>1. toGui' \in Seq(HonestSignal)
  BY Queues DEF IInv, Delivered
<1>2. QED
  BY <1>1 DEF IInv, Delivered, PhonesInv, ActionWorkerInv, AppsWorkerInv, UserInv

\* The signal that is delivered comes from where it says.
LEMMA HeadIsHonest ==
    ASSUME IInv, NEW name, Delivered(name)
    PROVE  /\ Head(toGui) \in HonestSignal /\ Head(toGui) \in Signal
           /\ Head(toGui).signal = name
<1>1. Head(toGui) \in HonestSignal
  BY Queues DEF IInv, Delivered
<1>2. QED
  BY <1>1 DEF HonestSignal, Delivered

\* So do the handlers of a lost and of a new connection.
LEMMA LostAndConnected == ASSUME IInv, OnLost \/ OnConnected PROVE IInv'
<1>1. CASE OnLost
  <2>1. WindowInv' /\ PanelInv'
    BY <1>1 DEF IInv, WindowInv, PanelInv, OnLost, ShowRow, MaybeSerial, MaybePackage
  <2>2. QED
    BY <1>1, <2>1, DeliveredFrame DEF IInv, OnLost, ActionWorkerInv, AppsWorkerInv
<1>2. CASE OnConnected
  <2>1. Head(toGui).serial \in Serial
    BY <1>2, HeadIsHonest DEF OnConnected, Signal
  <2>2. WindowInv' /\ PanelInv'
    BY <1>2, <2>1 DEF IInv, WindowInv, PanelInv, OnConnected, MaybeSerial
  <2>3. QED
    BY <1>2, <2>2, DeliveredFrame DEF IInv, OnConnected, ActionWorkerInv, AppsWorkerInv
<1>3. QED
  BY <1>1, <1>2

\* So does the handler of the inspection.
LEMMA InspectionInvariant == ASSUME IInv, OnInspection PROVE IInv'
<1>1. process' \in Process \cup {Nothing}
  <2>1. CASE Delivered("inspection") /\ process' = Head(toGui).process
    BY <2>1, HeadIsHonest DEF Signal
  <2>2. QED
    BY <2>1 DEF OnInspection
<1>2. WindowInv' /\ PanelInv'
  BY <1>1 DEF IInv, WindowInv, PanelInv, OnInspection
<1>3. QED
  BY <1>2, DeliveredFrame DEF IInv, OnInspection, ActionWorkerInv, AppsWorkerInv

\* So does the handler of the packages.
LEMMA PackagesInvariant == ASSUME IInv, OnPackages PROVE IInv'
<1>1. Head(toGui).packages \in SUBSET Package
  BY HeadIsHonest DEF OnPackages, Signal
<1>2. WindowInv' /\ PanelInv'
  BY <1>1 DEF IInv, WindowInv, PanelInv, OnPackages
<1>3. QED
  BY <1>2, DeliveredFrame DEF IInv, OnPackages, ActionWorkerInv, AppsWorkerInv

\* So does the handler of the inventory.
LEMMA InventoryInvariant == ASSUME IInv, OnInventory PROVE IInv'
<1>1. Head(toGui).rows \in SUBSET ListedRow
  BY HeadIsHonest DEF OnInventory, HonestSignal
<1>2. {row.package : row \in Head(toGui).rows} \in SUBSET Package
  BY <1>1 DEF ListedRow, Row
<1>3. WindowInv'
  BY <1>1, <1>2 DEF IInv, WindowInv, OnInventory
<1>4. PanelInv' /\ appsQueue' \in Seq(AppsSlot)
  <2>1. CASE pending # NoPackage /\ ResolvePending(pending, Head(toGui).rows)
    BY <2>1, ResolvePendingInvariant DEF OnInventory, IInv, PanelInv, MaybePackage
  <2>2. CASE UNCHANGED <<appsQueue, shown, selected, pending, busy>>
    BY <2>2 DEF OnInventory, IInv, PanelInv, AppsWorkerInv
  <2>3. QED
    BY <2>1, <2>2 DEF OnInventory
<1>5. QED
  BY <1>3, <1>4, DeliveredFrame DEF IInv, OnInventory, ActionWorkerInv

\* So do the handlers of the details.
LEMMA DetailsInvariant == ASSUME IInv, OnDetails \/ OnDetailsFailed PROVE IInv'
<1>1. CASE OnDetails
  <2>1. Head(toGui).row \in HonestRow
    BY <1>1, HeadIsHonest DEF OnDetails, HonestSignal
  <2>2. shown' \in [DetailsPanel -> HonestRow \cup {Nothing}]
    BY <1>1, <2>1 DEF IInv, PanelInv, OnDetails
  <2>3. selected' \in [DetailsPanel -> MaybePackage]
    BY <1>1, <2>1 DEF IInv, PanelInv, OnDetails, HonestRow, Row, MaybePackage
  <2>4. busy' \in [Panel -> BOOLEAN]
    BY <1>1 DEF IInv, PanelInv, OnDetails
  <2>5. WindowInv' /\ PanelInv'
    BY <1>1, <2>2, <2>3, <2>4 DEF IInv, WindowInv, PanelInv, OnDetails
  <2>6. QED
    BY <1>1, <2>5, DeliveredFrame DEF IInv, OnDetails, ActionWorkerInv, AppsWorkerInv
<1>2. CASE OnDetailsFailed
  <2>1. WindowInv' /\ PanelInv'
    BY <1>2 DEF IInv, WindowInv, PanelInv, OnDetailsFailed, ShowRow
  <2>2. QED
    BY <1>2, <2>1, DeliveredFrame DEF IInv, OnDetailsFailed, ActionWorkerInv,
       AppsWorkerInv
<1>3. QED
  BY <1>1, <1>2

\* So does the handler of a result.
LEMMA ResultInvariant == ASSUME IInv, OnResult PROVE IInv'
<1> DEFINE result == Head(toGui)
           follows == result.outcome = "ok" /\ result.action \in Destructive \cup {"enable"}
           reread == follows /\ result.action \in {"enable", "disable"}
           details == IF reread THEN <<ReadDetails(result.package)>> ELSE <<>>
           lists == IF follows THEN <<ReadInventory>> ELSE <<>>
<1>1. result.package \in Package
  BY HeadIsHonest DEF OnResult, Signal
<1>2. details \in Seq(AppsSlot) /\ lists \in Seq(AppsSlot)
  BY <1>1, SlotTypes, Queues, EmptyQueue DEF IInv, AppsWorkerInv
<1>3. appsQueue' = appsQueue \o details \o lists
  BY DEF OnResult
<1> HIDE DEF details, lists
<1>4. appsQueue \o details \in Seq(AppsSlot)
  BY <1>2, Queues DEF IInv, AppsWorkerInv
<1>5. appsQueue' \in Seq(AppsSlot)
  BY <1>2, <1>3, <1>4, Queues
<1>6. queue' \in Seq(Slot)
  BY SlotTypes, Queues DEF IInv, ActionWorkerInv, OnResult
<1>7. WindowInv' /\ PanelInv'
  BY DEF IInv, WindowInv, PanelInv, OnResult
<1>8. QED
  BY <1>5, <1>6, <1>7, DeliveredFrame DEF OnResult

-----------------------------------------------------------------------------
\* Every step keeps the invariant.
LEMMA NextInvariant == ASSUME IInv, [ActionNext]_vars PROVE IInv'
<1>1. CASE UNCHANGED vars
  BY <1>1 DEF vars, IInv, PhonesInv, ActionWorkerInv, AppsWorkerInv, WindowInv, PanelInv,
     UserInv
<1>2. CASE Replug \/ Monitor
  BY <1>2, PhonesAndMonitor
<1>3. CASE User
  BY <1>3, InspectInvariant, SelectInvariant, RefreshInvariant, ManageInvariant,
     ClickInvariant, AnswerInvariant DEF User
<1>4. CASE ActionWorker
  BY <1>4, ReloadInvariant, LauncherInvariant, CommandInvariant DEF ActionWorker
<1>5. CASE AppsWorker
  BY <1>5, NamesInvariant, CategoriesInvariant, PackageInvariant DEF AppsWorker
<1>6. CASE Window
  BY <1>6, LostAndConnected, InspectionInvariant, PackagesInvariant, InventoryInvariant,
     DetailsInvariant, ResultInvariant DEF Window
<1>7. QED
  BY <1>1, <1>2, <1>3, <1>4, <1>5, <1>6 DEF ActionNext

\* The strengthening holds in every behaviour of the action pipeline.
THEOREM InvariantHolds == ActionSpec => []IInv
<1>1. ActionInit => IInv
  BY InitInvariant
<1>2. IInv /\ [ActionNext]_vars => IInv'
  BY NextInvariant
<1>3. QED
  BY <1>1, <1>2, PTL DEF ActionSpec

\* The state of the workers, the panels and the queues stays well formed
\* whatever the monitor, the phones and the user do (window, workers, panels).
THEOREM TypesHold == ActionSpec => []ActionTypeOK
<1>1. IInv => ActionTypeOK
  BY InvImpliesType
<1>2. QED
  BY <1>1, InvariantHolds, PTL

\* No destructive command runs on a phone without the user having been asked,
\* from whichever panel it came (the window's confirmation dialogs).
THEOREM DestructionIsConfirmed == ActionSpec => []DestructionConfirmed
<1>1. IInv => DestructionConfirmed
  BY InvImpliesRuns
<1>2. QED
  BY <1>1, InvariantHolds, PTL

\* No phone loses an application of its system on the word of its own lists and
\* records, but for what a record without a category lets through
\* (supported_actions): whatever was read or clicked in between.
THEOREM SystemAppsAreSpared == ActionSpec => []SystemAppsSparedByOwnData
<1>1. IInv => SystemAppsSparedByOwnData
  BY InvImpliesRuns
<1>2. QED
  BY <1>1, InvariantHolds, PTL

-----------------------------------------------------------------------------
(***************************************************************************)
(* A lock has an action.  What is in a queue stays in it when something is *)
(* appended and when something else is taken from its head.                *)
(***************************************************************************)
LEMMA AppendKeeps ==
    ASSUME NEW S, NEW s \in Seq(S), NEW e, NEW i \in DOMAIN s
    PROVE  i \in DOMAIN Append(s, e) /\ Append(s, e)[i] = s[i]
OBVIOUS

\* Taking the head of a queue leaves everything else in it.
LEMMA TailKeeps ==
    ASSUME NEW S, NEW s \in Seq(S), NEW i \in DOMAIN s, s[i] # Head(s)
    PROVE  s # <<>> /\ \E j \in DOMAIN Tail(s) : Tail(s)[j] = s[i]
<1>1. i \in 1 .. Len(s) /\ i # 1 /\ Len(s) \in Nat
  OBVIOUS
<1>2. s # <<>> /\ i - 1 \in DOMAIN Tail(s) /\ Tail(s)[i - 1] = s[i]
  BY <1>1
<1>3. QED
  BY <1>2

RequestQueued == \E i \in DOMAIN queue : queue[i].op = "request"
ResultQueued == \E i \in DOMAIN toGui : toGui[i].signal = "result"

\* A request leaves the queue only when the worker takes it up.
LEMMA RequestStays ==
    ASSUME IInv, RequestQueued,
           \/ queue' = queue
           \/ \E slot : queue' = Append(queue, slot)
           \/ queue' = Tail(queue) /\ Head(queue).op # "request"
    PROVE  RequestQueued'
<1>1. PICK i \in DOMAIN queue : queue[i].op = "request"
  BY DEF RequestQueued
<1>2. queue \in Seq(Slot)
  BY DEF IInv, ActionWorkerInv
<1>3. CASE queue' = queue
  BY <1>1, <1>3 DEF RequestQueued
<1>4. CASE \E slot : queue' = Append(queue, slot)
  BY <1>1, <1>2, <1>4, AppendKeeps DEF RequestQueued
<1>5. CASE queue' = Tail(queue) /\ Head(queue).op # "request"
  <2>1. PICK j \in DOMAIN Tail(queue) : Tail(queue)[j] = queue[i]
    BY <1>1, <1>2, <1>5, TailKeeps
  <2>2. QED
    BY <1>1, <1>5, <2>1 DEF RequestQueued
<1>6. QED
  BY <1>3, <1>4, <1>5

\* A result leaves the queue only when it is handled.
LEMMA ResultStays ==
    ASSUME IInv, ResultQueued,
           \/ toGui' = toGui
           \/ \E m : toGui' = Append(toGui, m)
           \/ toGui' = Tail(toGui) /\ Head(toGui).signal # "result"
    PROVE  ResultQueued'
<1>1. PICK i \in DOMAIN toGui : toGui[i].signal = "result"
  BY DEF ResultQueued
<1>2. toGui \in Seq(HonestSignal)
  BY DEF IInv
<1>3. CASE toGui' = toGui
  BY <1>1, <1>3 DEF ResultQueued
<1>4. CASE \E m : toGui' = Append(toGui, m)
  BY <1>1, <1>2, <1>4, AppendKeeps DEF ResultQueued
<1>5. CASE toGui' = Tail(toGui) /\ Head(toGui).signal # "result"
  <2>1. PICK j \in DOMAIN Tail(toGui) : Tail(toGui)[j] = toGui[i]
    BY <1>1, <1>2, <1>5, TailKeeps
  <2>2. QED
    BY <1>1, <1>5, <2>1 DEF ResultQueued
<1>6. QED
  BY <1>3, <1>4, <1>5

\* What is appended to a queue is in it.
LEMMA AppendedIsThere ==
    ASSUME NEW S, NEW s \in Seq(S), NEW e
    PROVE  \E i \in DOMAIN Append(s, e) : Append(s, e)[i] = e
<1>1. Len(s) + 1 \in DOMAIN Append(s, e) /\ Append(s, e)[Len(s) + 1] = e
  OBVIOUS
<1>2. QED
  BY <1>1

\* A step that sets no lock and takes neither a request nor a result away.
LEMMA LockKept ==
    ASSUME IInv, LockHasAction, \A x \in Panel : busy'[x] => busy[x],
           \/ queue' = queue
           \/ \E slot : queue' = Append(queue, slot)
           \/ queue' = Tail(queue) /\ Head(queue).op # "request",
           \/ toGui' = toGui
           \/ \E m : toGui' = Append(toGui, m)
           \/ toGui' = Tail(toGui) /\ Head(toGui).signal # "result"
    PROVE  LockHasAction'
<1> SUFFICES ASSUME \E x \in Panel : busy'[x] PROVE RequestQueued' \/ ResultQueued'
  BY DEF LockHasAction, InFlight, RequestQueued, ResultQueued
<1>1. RequestQueued \/ ResultQueued
  BY DEF LockHasAction, InFlight, RequestQueued, ResultQueued
<1>2. QED
  BY <1>1, RequestStays, ResultStays

\* Dispatching a request and completing one leave it, or its result, queued.
LEMMA DispatchLock ==
    ASSUME IInv, NEW request \in Request, Dispatch(request)
    PROVE  LockHasAction'
<1>1. queue' = Append(queue, request) /\ request.op = "request"
  BY DEF Dispatch, Request
<1>2. PICK i \in DOMAIN queue' : queue'[i] = request
  BY <1>1, AppendedIsThere DEF IInv, ActionWorkerInv
<1>3. QED
  BY <1>1, <1>2 DEF LockHasAction, InFlight

\* An outcome posts the result that unlocks the window.
LEMMA CompleteLock ==
    ASSUME IInv, WorkerTurn("request"), NEW outcome \in Outcome, Complete(outcome)
    PROVE  LockHasAction'
<1> DEFINE request == Head(queue)
           known == IF outcome = "missing" THEN resolver \ {request.package} ELSE resolver
           told == IF outcome = "missing" /\ loaded THEN <<PackagesSignal(known)>> ELSE <<>>
           result == ResultSignal(request, outcome)
<1>1. told \in Seq(HonestSignal)
  BY RequestAtHead, SignalsAreHonest, Queues DEF IInv, ActionWorkerInv
<1>2. toGui' = toGui \o told \o <<result>>
  BY DEF Complete
<1> HIDE DEF told
<1>3. toGui \o told \in Seq(HonestSignal)
  BY <1>1, Queues DEF IInv
<1>4. PICK i \in DOMAIN toGui' : toGui'[i] = result
  <2>1. toGui' = Append(toGui \o told, result)
    BY <1>2, <1>3
  <2>2. QED
    BY <1>3, <2>1, AppendedIsThere
<1>5. result.signal = "result"
  BY DEF ResultSignal
<1>6. QED
  BY <1>4, <1>5 DEF LockHasAction, InFlight

\* What the user does locks the window only with a request.
LEMMA UserLock == ASSUME IInv, LockHasAction, User PROVE LockHasAction'
<1>1. CASE \E p \in Package : InspectProcess(p)
  BY <1>1, LockKept DEF InspectProcess, UserActs, Post
<1>2. CASE \E p \in Package, panel \in DetailsPanel : SelectApp(panel, p)
  BY <1>2, LockKept DEF SelectApp, UserActs
<1>3. CASE RefreshApps
  BY <1>3, LockKept DEF RefreshApps, UserActs
<1>4. ASSUME NEW request, request.op = "request", Clicked(request)
      PROVE  LockHasAction'
  <2>1. CASE request.action \in Destructive
    BY <1>4, <2>1, LockKept DEF Clicked, ConfirmOrDispatch
  <2>2. CASE request.action \notin Destructive
    <3>1. queue' = Append(queue, request)
      BY <1>4, <2>2 DEF Clicked, ConfirmOrDispatch, Dispatch
    <3>2. PICK i \in DOMAIN queue' : queue'[i] = request
      BY <3>1, AppendedIsThere DEF IInv, ActionWorkerInv
    <3>3. QED
      BY <1>4, <3>2 DEF LockHasAction, InFlight
  <2>3. QED
    BY <2>1, <2>2
<1>5. CASE ClickAction
  <2>1. \A action, package, panel, category, source :
          Ask(action, package, panel, category, source).op = "request"
    BY DEF Ask
  <2>2. \E action, package, panel, category, source :
          Clicked(Ask(action, package, panel, category, source))
    BY <1>5 DEF ClickAction, ClickInspector, ClickApps, ClickBackground,
       ClickRecommendation
  <2>3. QED
    BY <1>4, <2>1, <2>2
<1>6. CASE Answer
  <2>1. CASE Dispatch([dialog EXCEPT !.confirmed = TRUE])
    <3>1. [dialog EXCEPT !.confirmed = TRUE] \in Request
      BY <1>6 DEF Answer, IInv, UserInv, Asked, Request
    <3>2. QED
      BY <2>1, <3>1, DispatchLock
  <2>2. CASE UNCHANGED <<queue, busy>>
    BY <1>6, <2>2, LockKept DEF Answer
  <2>3. QED
    BY <1>6, <2>1, <2>2 DEF Answer
<1>7. CASE Manage
  BY <1>7, LockKept DEF Manage, UserActs, ResolvePending, ShowRow, IInv, PanelInv
<1>8. QED
  BY <1>1, <1>2, <1>3, <1>5, <1>6, <1>7 DEF User

\* The worker never drops what the window is locked for.
LEMMA WorkerLock == ASSUME IInv, LockHasAction, ActionWorker PROVE LockHasAction'
<1>1. CASE ReloadPackages
  BY <1>1, LockKept DEF ReloadPackages, WorkerTurn, Post
<1>2. CASE ResolveLauncher
  <2>1. WorkerTurn("request")
    BY <1>2 DEF ResolveLauncher
  <2>2. CASE \E outcome \in Outcome : Complete(outcome)
    BY <2>1, <2>2, CompleteLock
  <2>3. CASE UNCHANGED <<queue, toGui>>
    BY <2>1, <2>3, LockKept DEF WorkerTurn
  <2>4. QED
    BY <1>2, <2>2, <2>3, OutcomeTypes, ShellReachesAPhone
       DEF ResolveLauncher, Outcome, IInv, PhonesInv
<1>3. CASE RunCommand
  <2>1. WorkerTurn("request")
    BY <1>3 DEF RunCommand
  <2>2. \E outcome \in Outcome : Complete(outcome)
    BY <1>3, OutcomeTypes, ShellReachesAPhone DEF RunCommand, Outcome, IInv, PhonesInv
  <2>3. QED
    BY <2>1, <2>2, CompleteLock
<1>4. QED
  BY <1>1, <1>2, <1>3 DEF ActionWorker

\* The window unlocks when the result is handled.
LEMMA WindowLock == ASSUME IInv, LockHasAction, Window PROVE LockHasAction'
<1>1. CASE OnResult
  BY <1>1 DEF OnResult, LockHasAction
<1>2. CASE Window /\ ~OnResult
  <2>1. toGui' = Tail(toGui) /\ Head(toGui).signal # "result"
    BY <1>2 DEF Window, OnLost, OnConnected, OnInspection, OnPackages, OnInventory,
       OnDetails, OnDetailsFailed, Delivered
  <2>2. queue' = queue
    BY <1>2 DEF Window, OnLost, OnConnected, OnInspection, OnPackages, OnInventory,
       OnDetails, OnDetailsFailed
  <2>3. \A x \in Panel : busy'[x] => busy[x]
    BY <1>2 DEF Window, OnLost, OnConnected, OnInspection, OnPackages, OnInventory,
       OnDetails, OnDetailsFailed, ResolvePending, ShowRow, IInv, PanelInv
  <2>4. QED
    BY <2>1, <2>2, <2>3, LockKept
<1>3. QED
  BY <1>1, <1>2

\* No order of losses, selections, dialogs and results leaves a panel locked
\* without an action on its way that will unlock it (set_actions_busy).
THEOREM LocksHaveActions == ActionSpec => []LockHasAction
<1>1. ActionInit => LockHasAction
  BY DEF ActionInit, LockHasAction
<1>2. IInv /\ LockHasAction /\ [ActionNext]_vars => LockHasAction'
  <2> SUFFICES ASSUME IInv, LockHasAction, [ActionNext]_vars PROVE LockHasAction'
    OBVIOUS
  <2>1. CASE UNCHANGED vars
    BY <2>1 DEF vars, LockHasAction, InFlight
  <2>2. CASE Replug \/ Monitor
    BY <2>2, LockKept DEF Replug, MonitorLoses, MonitorConnects, MonitorSamples, Post
  <2>3. CASE AppsWorker
    BY <2>3, LockKept DEF AppsWorker, ReadNames, ReadCategories, ReadPackage, AppsTurn,
       Post
  <2>4. QED
    BY <2>1, <2>2, <2>3, UserLock, WorkerLock, WindowLock DEF ActionNext
<1>3. QED
  BY <1>1, <1>2, InvariantHolds, PTL DEF ActionSpec

-----------------------------------------------------------------------------
(***************************************************************************)
(* What the window will hold once it has heard every signal on its way:    *)
(* the last of a name that is queued, or, with none queued, what it holds. *)
(* It is told right when that is one of the signals that are good, or one  *)
(* of the values that are right to hold.                                   *)
(***************************************************************************)
Told(q, name, held, right, good) ==
    /\ (\A i \in DOMAIN q : q[i].signal # name) => held \in right
    /\ \A i \in DOMAIN q :
         /\ q[i].signal = name
         /\ \A j \in DOMAIN q : j > i => q[j].signal # name
         => q[i] \in good

\* A signal of another name leaves what is told as it was.
LEMMA ToldAppendOther ==
    ASSUME NEW S, NEW q \in Seq(S), NEW name, NEW m, m.signal # name, NEW held, NEW right,
           NEW good, Told(q, name, held, right, good)
    PROVE  Told(Append(q, m), name, held, right, good)
<1> DEFINE t == Append(q, m)
<1>1. /\ DOMAIN t = 1 .. Len(q) + 1 /\ DOMAIN q = 1 .. Len(q) /\ Len(q) \in Nat
      /\ t[Len(q) + 1] = m /\ \A i \in DOMAIN q : t[i] = q[i]
  OBVIOUS
<1> HIDE DEF t
<1>2. \A i \in DOMAIN t : t[i].signal = name => i \in DOMAIN q
  BY <1>1
<1>3. QED
  BY <1>1, <1>2 DEF Told

\* A good signal at the end makes what will be told last good.
LEMMA ToldAppendGood ==
    ASSUME NEW S, NEW q \in Seq(S), NEW name, NEW m, m.signal = name, NEW held, NEW right,
           NEW good, m \in good
    PROVE  Told(Append(q, m), name, held, right, good)
<1> DEFINE t == Append(q, m)
<1>1. DOMAIN t = 1 .. Len(q) + 1 /\ Len(q) \in Nat /\ t[Len(q) + 1] = m
  OBVIOUS
<1> HIDE DEF t
<1>2. \A i \in DOMAIN t : i = Len(q) + 1 \/ Len(q) + 1 > i
  BY <1>1
<1>3. Len(q) + 1 \in DOMAIN t
  BY <1>1
<1>4. QED
  BY <1>1, <1>2, <1>3 DEF Told

\* The places of a queue without its head.
LEMMA TailIndices ==
    ASSUME NEW S, NEW q \in Seq(S), q # <<>>
    PROVE  /\ DOMAIN q = 1 .. Len(q) /\ Len(q) \in Nat /\ Len(q) > 0 /\ q[1] = Head(q)
           /\ DOMAIN Tail(q) = 1 .. Len(q) - 1
           /\ \A i \in DOMAIN Tail(q) : Tail(q)[i] = q[i + 1]
OBVIOUS

\* Whatever the window holds after the head was taken is right, if the head was
\* of another name and what it held stays, or if the head was good.
LEMMA ToldTail ==
    ASSUME NEW S, NEW q \in Seq(S), q # <<>>, NEW name, NEW held, NEW right, NEW good,
           Told(q, name, held, right, good), NEW now,
           Head(q).signal # name => now = held \/ now \in right,
           Head(q).signal = name /\ Head(q) \in good => now \in right
    PROVE  Told(Tail(q), name, now, right, good)
<1> DEFINE t == Tail(q)
<1>1. /\ DOMAIN q = 1 .. Len(q) /\ Len(q) \in Nat /\ Len(q) > 0 /\ q[1] = Head(q)
      /\ DOMAIN t = 1 .. Len(q) - 1
      /\ \A i \in DOMAIN t : t[i] = q[i + 1]
  BY TailIndices
<1> HIDE DEF t
<1>2. 1 \in DOMAIN q /\ \A i \in DOMAIN q : i = 1 \/ (i > 1 /\ i - 1 \in DOMAIN t /\ q[i] = t[i - 1])
  BY <1>1
<1>3. ASSUME \A i \in DOMAIN t : t[i].signal # name
      PROVE  now \in right
  <2>1. \A i \in DOMAIN q : i = 1 \/ q[i].signal # name
    BY <1>2, <1>3
  <2>2. CASE Head(q).signal = name
    BY <1>1, <1>2, <2>1, <2>2 DEF Told
  <2>3. CASE Head(q).signal # name
    BY <1>1, <2>1, <2>3 DEF Told
  <2>4. QED
    BY <2>2, <2>3
<1>4. ASSUME NEW i \in DOMAIN t, t[i].signal = name,
             \A j \in DOMAIN t : j > i => t[j].signal # name
      PROVE  t[i] \in good
  <2>1. i + 1 \in DOMAIN q /\ q[i + 1] = t[i]
    BY <1>1
  <2>2. \A j \in DOMAIN q : j > i + 1 => q[j].signal # name
    BY <1>1, <1>2, <1>4
  <2>3. QED
    BY <1>4, <2>1, <2>2 DEF Told
<1>5. QED
  BY <1>3, <1>4 DEF Told, t

\* The signals that leave one of the window's lists alone.
LEMMA ToldKept ==
    ASSUME IInv, NEW name, NEW held, NEW right, NEW good,
           Told(toGui, name, held, right, good),
           \/ toGui' = toGui
           \/ \E m : m.signal # name /\ toGui' = Append(toGui, m)
           \/ toGui # <<>> /\ toGui' = Tail(toGui) /\ Head(toGui).signal # name
    PROVE  Told(toGui', name, held, right, good)
BY ToldAppendOther, ToldTail DEF IInv

\* One signal more, written as a concatenation.
LEMMA ConcatIsAppend ==
    ASSUME NEW S, NEW q \in Seq(S), NEW m
    PROVE  q \o <<m>> = Append(q, m)
OBVIOUS

\* Completing a request posts its result, after a list of packages or none.
LEMMA CompletePosts ==
    ASSUME IInv, WorkerTurn("request"), NEW outcome \in Outcome, Complete(outcome)
    PROVE  \E q \in Seq(HonestSignal) :
             /\ \/ q = toGui /\ resolver' = resolver
                \/ q = toGui /\ ~loaded /\ resolver' = resolver \ {Head(queue).package}
                \/ q = Append(toGui, PackagesSignal(resolver'))
             /\ toGui' = Append(q, ResultSignal(Head(queue), outcome))
<1> DEFINE request == Head(queue)
           known == IF outcome = "missing" THEN resolver \ {request.package} ELSE resolver
           result == ResultSignal(request, outcome)
           q == Append(toGui, PackagesSignal(known))
<1>1. toGui \in Seq(HonestSignal) /\ PackagesSignal(known) \in HonestSignal
  BY SignalsAreHonest DEF IInv, ActionWorkerInv
<1>2. resolver' = known
  BY DEF Complete
<1>3. CASE outcome = "missing" /\ loaded
  <2>1. toGui' = toGui \o <<PackagesSignal(known)>> \o <<result>>
    BY <1>3 DEF Complete
  <2>2. q \in Seq(HonestSignal)
    BY <1>1, Queues
  <2>3. toGui \o <<PackagesSignal(known)>> = q
    BY <1>1, ConcatIsAppend
  <2>4. toGui' = q \o <<result>>
    BY <2>1, <2>3
  <2> HIDE DEF q
  <2>5. toGui' = Append(q, result)
    BY <2>2, <2>4, ConcatIsAppend
  <2>6. QED
    BY <1>2, <2>2, <2>5 DEF q
<1>4. CASE ~(outcome = "missing" /\ loaded)
  <2>1. toGui' = toGui \o <<>> \o <<result>>
    BY <1>4 DEF Complete
  <2>2. toGui' = Append(toGui, result)
    BY <1>1, <2>1
  <2>3. QED
    BY <1>1, <1>2, <1>4, <2>2
<1>5. QED
  BY <1>3, <1>4

-----------------------------------------------------------------------------
(***************************************************************************)
(* Identities in step.  The packages the inspector will know once it has   *)
(* heard every signal on its way are the ones the worker knows.  A worker  *)
(* that has not loaded its packages knows none, so a package it drops      *)
(* without saying so was not known to anybody.                             *)
(***************************************************************************)
PackagesTold(q, known) == Told(q, "packages", packages, {known}, {PackagesSignal(known)})
InStep == PackagesTold(toGui, resolver) /\ (~loaded => resolver = {})

\* A step that leaves the worker's and the inspector's knowledge alone.
LEMMA InStepKept ==
    ASSUME IInv, InStep, UNCHANGED <<packages, resolver, loaded>>,
           \/ toGui' = toGui
           \/ \E m : m.signal # "packages" /\ toGui' = Append(toGui, m)
           \/ toGui # <<>> /\ toGui' = Tail(toGui) /\ Head(toGui).signal # "packages"
    PROVE  InStep'
<1>1. PackagesTold(toGui', resolver)
  BY ToldKept DEF InStep, PackagesTold
<1>2. QED
  BY <1>1 DEF InStep, PackagesTold, Told

\* An outcome keeps the workers in step.
LEMMA CompleteInStep ==
    ASSUME IInv, InStep, WorkerTurn("request"), NEW outcome \in Outcome, Complete(outcome)
    PROVE  InStep'
<1>1. UNCHANGED <<packages, loaded>>
  BY DEF WorkerTurn, Complete
<1>2. PICK q \in Seq(HonestSignal) :
         /\ \/ q = toGui /\ resolver' = resolver
            \/ q = toGui /\ ~loaded /\ resolver' = resolver \ {Head(queue).package}
            \/ q = Append(toGui, PackagesSignal(resolver'))
         /\ toGui' = Append(q, ResultSignal(Head(queue), outcome))
  BY CompletePosts
<1>3. PICK known : known = resolver'
  OBVIOUS
<1>4. PackagesTold(q, known) /\ (~loaded => known = {})
  <2>1. CASE q = toGui /\ known = resolver
    BY <2>1 DEF InStep
  <2>2. CASE q = toGui /\ ~loaded /\ known = resolver \ {Head(queue).package}
    BY <2>2 DEF InStep
  <2>3. CASE q = Append(toGui, PackagesSignal(known))
    <3>1. PackagesSignal(known).signal = "packages"
      BY DEF PackagesSignal
    <3>2. PackagesTold(q, known)
      BY <2>3, <3>1, ToldAppendGood DEF IInv, PackagesTold
    <3>3. ~loaded => known = {}
      BY <1>3 DEF InStep, Complete
    <3>4. QED
      BY <3>2, <3>3
  <2>4. QED
    BY <1>2, <1>3, <2>1, <2>2, <2>3
<1>5. ResultSignal(Head(queue), outcome).signal # "packages"
  BY DEF ResultSignal
<1>6. Told(Append(q, ResultSignal(Head(queue), outcome)), "packages", packages, {known},
           {PackagesSignal(known)})
  BY <1>4, <1>5, ToldAppendOther DEF PackagesTold
<1>7. QED
  BY <1>1, <1>2, <1>3, <1>4, <1>6 DEF InStep, PackagesTold, Told

\* So does every step of the worker of actions.
LEMMA WorkerInStep == ASSUME IInv, InStep, ActionWorker PROVE InStep'
<1>1. CASE ReloadPackages
  <2>1. PICK r \in Shell :
          LET known == IF Failed(r) THEN {} ELSE installed[r.serial]
          IN  resolver' = known /\ loaded' = ~Failed(r) /\ Post(PackagesSignal(known))
    BY <1>1 DEF ReloadPackages
  <2> DEFINE known == IF Failed(r) THEN {} ELSE installed[r.serial]
  <2>2. PackagesSignal(known).signal = "packages"
    BY DEF PackagesSignal
  <2>3. toGui' = Append(toGui, PackagesSignal(known)) /\ resolver' = known
        /\ (~loaded' => known = {})
    BY <2>1 DEF Post
  <2> HIDE DEF known
  <2>4. Told(toGui', "packages", packages', {known}, {PackagesSignal(known)})
    BY <2>2, <2>3, ToldAppendGood DEF IInv
  <2>5. QED
    BY <2>3, <2>4 DEF InStep, PackagesTold, Told
<1>2. CASE ResolveLauncher
  <2>1. WorkerTurn("request")
    BY <1>2 DEF ResolveLauncher
  <2>2. CASE \E outcome \in Outcome : Complete(outcome)
    BY <2>1, <2>2, CompleteInStep
  <2>3. CASE UNCHANGED <<resolver, loaded, toGui>>
    BY <2>1, <2>3, InStepKept DEF WorkerTurn
  <2>4. QED
    BY <1>2, <2>2, <2>3, OutcomeTypes, ShellReachesAPhone
       DEF ResolveLauncher, Outcome, IInv, PhonesInv
<1>3. CASE RunCommand
  <2>1. WorkerTurn("request")
    BY <1>3 DEF RunCommand
  <2>2. \E outcome \in Outcome : Complete(outcome)
    BY <1>3, OutcomeTypes, ShellReachesAPhone DEF RunCommand, Outcome, IInv, PhonesInv
  <2>3. QED
    BY <2>1, <2>2, CompleteInStep
<1>4. QED
  BY <1>1, <1>2, <1>3 DEF ActionWorker

\* So does what the user does.
LEMMA UserInStep == ASSUME IInv, InStep, User PROVE InStep'
<1>1. CASE \E p \in Package : InspectProcess(p)
  <2>1. PICK p \in Package : InspectProcess(p)
    BY <1>1
  <2>2. \E m : m.signal # "packages" /\ toGui' = Append(toGui, m)
    BY <2>1 DEF InspectProcess, Post
  <2>3. QED
    BY <2>1, <2>2, InStepKept DEF InspectProcess
<1>2. CASE User /\ ~\E p \in Package : InspectProcess(p)
  BY <1>2, InStepKept DEF User, SelectApp, RefreshApps, Manage, ClickAction,
     ClickInspector, ClickApps, ClickBackground, ClickRecommendation, Clicked, Answer
<1>3. QED
  BY <1>1, <1>2

\* So does every step of the worker of applications.
LEMMA AppsInStep == ASSUME IInv, InStep, AppsWorker PROVE InStep'
<1>1. UNCHANGED <<packages, resolver, loaded>>
  BY DEF AppsWorker, ReadNames, ReadCategories, ReadPackage, AppsTurn
<1>2. toGui' = toGui \/ \E m : m.signal # "packages" /\ toGui' = Append(toGui, m)
  <2>1. CASE ReadNames
    BY <2>1 DEF ReadNames, Post
  <2>2. CASE ReadCategories
    BY <2>2 DEF ReadCategories, Post
  <2>3. CASE ReadPackage
    BY <2>3 DEF ReadPackage, Post
  <2>4. QED
    BY <2>1, <2>2, <2>3 DEF AppsWorker
<1>3. QED
  BY <1>1, <1>2, InStepKept

\* So does every handler of the window.
LEMMA WindowInStep == ASSUME IInv, InStep, Window PROVE InStep'
<1>1. CASE OnPackages
  <2>1. Head(toGui) = PackagesSignal(resolver) => Head(toGui).packages = resolver
    BY DEF PackagesSignal
  <2>2. Told(Tail(toGui), "packages", Head(toGui).packages, {resolver},
             {PackagesSignal(resolver)})
    BY <1>1, <2>1, ToldTail DEF OnPackages, Delivered, InStep, PackagesTold, IInv
  <2>3. QED
    BY <1>1, <2>2 DEF OnPackages, Delivered, InStep, PackagesTold, Told
<1>2. CASE Window /\ ~OnPackages
  <2>1. toGui # <<>> /\ toGui' = Tail(toGui) /\ Head(toGui).signal # "packages"
    BY <1>2 DEF Window, OnLost, OnConnected, OnInspection, OnInventory, OnDetails,
       OnDetailsFailed, OnResult, Delivered
  <2>2. UNCHANGED <<packages, resolver, loaded>>
    BY <1>2 DEF Window, OnLost, OnConnected, OnInspection, OnInventory, OnDetails,
       OnDetailsFailed, OnResult, Delivered
  <2>3. QED
    BY <2>1, <2>2, InStepKept
<1>3. QED
  BY <1>1, <1>2

\* Every step keeps the workers in step.
LEMMA InStepStep == IInv /\ InStep /\ [ActionNext]_vars => InStep'
<1> SUFFICES ASSUME IInv, InStep, [ActionNext]_vars PROVE InStep'
  OBVIOUS
<1>1. CASE UNCHANGED vars
  BY <1>1 DEF vars, InStep, PackagesTold, Told
<1>2. CASE Replug \/ Monitor
  <2>1. toGui' = toGui \/ \E m : m.signal # "packages" /\ toGui' = Append(toGui, m)
    BY <1>2 DEF Replug, MonitorLoses, MonitorConnects, MonitorSamples, Post
  <2>2. QED
    BY <1>2, <2>1, InStepKept DEF Replug, MonitorLoses, MonitorConnects, MonitorSamples
<1>3. QED
  BY <1>1, <1>2, UserInStep, WorkerInStep, AppsInStep, WindowInStep DEF ActionNext

\* Once no list is on its way to it, the inspector verifies identities against
\* exactly what the worker knows (_drop_package, reload_packages).
THEOREM IdentitiesAreInStep == ActionSpec => []IdentityInStep
<1>1. ActionInit => InStep
  BY DEF ActionInit, InStep, PackagesTold, Told
<1>2. InStep => IdentityInStep
  BY DEF InStep, PackagesTold, Told, IdentityInStep
<1>3. QED
  BY <1>1, <1>2, InStepStep, InvariantHolds, PTL DEF ActionSpec

-----------------------------------------------------------------------------
(***************************************************************************)
(* The lists that come to rest are true.  While a phone is bound, every    *)
(* command reaches it or fails, so what a worker read of it stays true     *)
(* until a command of the user's takes effect; and such a command          *)
(* announces itself, and its result queues both lists again.  So what the  *)
(* window will hold of the bound phone is right, or a change was announced, *)
(* or a read that will put it right is queued, or under way with names     *)
(* that the phone still has.  A phone is bound with both reads queued.     *)
(***************************************************************************)
Truths(s) ==
    {rows \in SUBSET Row : \A row \in rows :
        /\ row.source = {s}
        /\ row.package \in installed[s]
        /\ row.category = CategoryOn(row.package, s)
        /\ row.enabled = Enabled(row.package, s)}
RowsSignal(rows) == [signal |-> "inventory", rows |-> rows]

ChangeAnnounced ==
    \E i \in DOMAIN toGui : /\ toGui[i].signal = "result" /\ toGui[i].outcome = "ok"
                            /\ toGui[i].action \in Destructive \cup {"enable"}
ReloadQueued == \E i \in DOMAIN queue : queue[i].op = "reload"

\* An inventory read that is still to come, or has read the names of the phone.
UpToDate == named = Nothing \/ (named.serial = bound /\ named.packages \subseteq installed[bound])
ReadAhead ==
    \E i \in DOMAIN appsQueue : appsQueue[i] = ReadInventory /\ (i > 1 \/ UpToDate)

RowsTold == Told(toGui, "inventory", inventory, Truths(bound),
                 {RowsSignal(rows) : rows \in Truths(bound)})
ReadUnderWay == named # Nothing => appsQueue # <<>> /\ Head(appsQueue) = ReadInventory

ListsInv ==
    /\ ReadUnderWay
    /\ bound # NoSerial =>
         /\ ChangeAnnounced \/ ReloadQueued \/ resolver \subseteq installed[bound]
         /\ ChangeAnnounced \/ ReadAhead \/ (RowsTold /\ named = Nothing)

(***************************************************************************)
(* Over a bound connection a command reaches the bound phone or none.      *)
(***************************************************************************)
LEMMA ShellReachesTheBound ==
    ASSUME bound # NoSerial, NEW r \in Shell, ~Failed(r)
    PROVE  r.serial = bound
<1> r \in ShellResults(Devices, Health, bound)
  BY DEF Shell, Devices
<1>1. CASE r \in RequireResults(Devices, Health, bound)
  <2>1. CASE ExecuteErrors(Health) # {}
    <3>1. PICK e \in ExecuteErrors(Health) : r = Raised(e)
      BY <1>1, <2>1 DEF RequireResults
    <3>2. QED
      BY <3>1 DEF ExecuteErrors, Raised, Failed
  <2>2. CASE ExecuteErrors(Health) = {}
    <3>1. r = BoundResult(Devices, Health, bound)
      BY <1>1, <2>2 DEF RequireResults
    <3>2. QED
      BY <3>1 DEF BoundResult, Ran, Raised, Failed, ErrorOfState
  <2>3. QED
    BY <2>1, <2>2
<1>2. CASE r \notin RequireResults(Devices, Health, bound)
  <2>1. PICK e \in RemoteErrors(Health) : r = Raised(e)
    BY <1>2 DEF ShellResults
  <2>2. QED
    BY <2>1 DEF RemoteErrors, Raised, Failed
<1>3. QED
  BY <1>1, <1>2

(***************************************************************************)
(* What is announced or queued stays until its slot runs.                  *)
(***************************************************************************)
LEMMA AnnouncedStays ==
    ASSUME IInv, ChangeAnnounced,
           \/ toGui' = toGui
           \/ \E m : toGui' = Append(toGui, m)
           \/ toGui' = Tail(toGui) /\ Head(toGui).signal # "result"
    PROVE  ChangeAnnounced'
<1>1. PICK i \in DOMAIN toGui : /\ toGui[i].signal = "result" /\ toGui[i].outcome = "ok"
                                /\ toGui[i].action \in Destructive \cup {"enable"}
  BY DEF ChangeAnnounced
<1>2. toGui \in Seq(HonestSignal)
  BY DEF IInv
<1>3. CASE toGui' = toGui
  BY <1>1, <1>3 DEF ChangeAnnounced
<1>4. CASE \E m : toGui' = Append(toGui, m)
  BY <1>1, <1>2, <1>4, AppendKeeps DEF ChangeAnnounced
<1>5. CASE toGui' = Tail(toGui) /\ Head(toGui).signal # "result"
  <2>1. PICK j \in DOMAIN Tail(toGui) : Tail(toGui)[j] = toGui[i]
    BY <1>1, <1>2, <1>5, TailKeeps
  <2>2. QED
    BY <1>1, <1>5, <2>1 DEF ChangeAnnounced
<1>6. QED
  BY <1>3, <1>4, <1>5

\* A reload leaves the queue only when the worker takes it up.
LEMMA ReloadStays ==
    ASSUME IInv, ReloadQueued,
           \/ queue' = queue
           \/ \E slot : queue' = Append(queue, slot)
           \/ queue' = Tail(queue) /\ Head(queue).op # "reload"
    PROVE  ReloadQueued'
<1>1. PICK i \in DOMAIN queue : queue[i].op = "reload"
  BY DEF ReloadQueued
<1>2. queue \in Seq(Slot)
  BY DEF IInv, ActionWorkerInv
<1>3. CASE queue' = queue
  BY <1>1, <1>3 DEF ReloadQueued
<1>4. CASE \E slot : queue' = Append(queue, slot)
  BY <1>1, <1>2, <1>4, AppendKeeps DEF ReloadQueued
<1>5. CASE queue' = Tail(queue) /\ Head(queue).op # "reload"
  <2>1. PICK j \in DOMAIN Tail(queue) : Tail(queue)[j] = queue[i]
    BY <1>1, <1>2, <1>5, TailKeeps
  <2>2. QED
    BY <1>1, <1>5, <2>1 DEF ReloadQueued
<1>6. QED
  BY <1>3, <1>4, <1>5

\* A reload that was posted is queued.
LEMMA ReloadAppended ==
    ASSUME IInv, queue' = Append(queue, Reload)
    PROVE  ReloadQueued'
<1>1. PICK i \in DOMAIN queue' : queue'[i] = Reload
  BY AppendedIsThere DEF IInv, ActionWorkerInv
<1>2. QED
  BY <1>1 DEF ReloadQueued, Reload

\* Slots are queued behind the one that runs, and a read among them is ahead.
LEMMA AppsQueueGrows ==
    ASSUME IInv, ReadUnderWay, NEW t \in Seq(AppsSlot), appsQueue' = appsQueue \o t,
           UNCHANGED named
    PROVE  /\ ReadUnderWay'
           /\ ReadAhead /\ UNCHANGED <<bound, installed>> => ReadAhead'
           /\ (\E j \in DOMAIN t : t[j] = ReadInventory) => ReadAhead'
<1>1. appsQueue \in Seq(AppsSlot)
  BY DEF IInv, AppsWorkerInv
<1>2. /\ Len(appsQueue) \in Nat /\ Len(t) \in Nat
      /\ DOMAIN appsQueue' = 1 .. Len(appsQueue) + Len(t)
      /\ \A i \in DOMAIN appsQueue : i \in DOMAIN appsQueue' /\ appsQueue'[i] = appsQueue[i]
      /\ \A j \in DOMAIN t : /\ Len(appsQueue) + j \in DOMAIN appsQueue'
                             /\ appsQueue'[Len(appsQueue) + j] = t[j]
  BY <1>1
<1>3. ReadUnderWay'
  BY <1>1 DEF ReadUnderWay
<1>4. ASSUME ReadAhead, UNCHANGED <<bound, installed>> PROVE ReadAhead'
  BY <1>2, <1>4 DEF ReadAhead, UpToDate
<1>5. ASSUME NEW j \in DOMAIN t, t[j] = ReadInventory PROVE ReadAhead'
  <2>1. Len(appsQueue) = 0 => appsQueue = <<>>
    BY <1>1
  <2>2. Len(appsQueue) + j > 1 \/ named' = Nothing
    BY <1>2, <2>1 DEF ReadUnderWay
  <2>3. QED
    BY <1>2, <1>5, <2>2 DEF ReadAhead, UpToDate
<1>6. QED
  BY <1>3, <1>4, <1>5

\* When the slot at the head has run, a read behind it is ahead.
LEMMA AppsQueueShrinks ==
    ASSUME IInv, ReadAhead, appsQueue # <<>>, appsQueue' = Tail(appsQueue), named' = Nothing,
           Head(appsQueue) # ReadInventory \/ ~UpToDate
    PROVE  ReadAhead'
<1>1. appsQueue \in Seq(AppsSlot)
  BY DEF IInv, AppsWorkerInv
<1>2. PICK i \in DOMAIN appsQueue : appsQueue[i] = ReadInventory /\ (i > 1 \/ UpToDate)
  BY DEF ReadAhead
<1>3. i # 1
  BY <1>1, <1>2, TailIndices
<1>4. i - 1 \in DOMAIN Tail(appsQueue) /\ Tail(appsQueue)[i - 1] = appsQueue[i]
  BY <1>1, <1>2, <1>3, TailIndices
<1>5. QED
  BY <1>2, <1>4 DEF ReadAhead, UpToDate

(***************************************************************************)
(* The steps that change neither a phone nor a list.                       *)
(***************************************************************************)
LEMMA RowsTruthStays ==
    ASSUME UNCHANGED <<installed, disabled>>, NEW s
    PROVE  Truths(s)' = Truths(s)
BY DEF Truths, CategoryOn, Enabled

\* An empty list is true of every phone: it tells nothing.
LEMMA NothingIsTrue == ASSUME NEW s PROVE {} \in Truths(s)
BY DEF Truths

\* The rows are right when the last signal to come makes them so.
LEMMA RowsToldLast ==
    ASSUME bound' = bound, UNCHANGED <<installed, disabled>>, NEW q, toGui' = q,
           NEW rows, inventory' = rows,
           Told(q, "inventory", rows, Truths(bound), {RowsSignal(r) : r \in Truths(bound)})
    PROVE  RowsTold'
<1>1. PICK s : s = bound
  OBVIOUS
<1>2. PICK T : T = Truths(s)
  OBVIOUS
<1>3. Truths(bound)' = T
  BY <1>1, <1>2, RowsTruthStays
<1>4. Told(q, "inventory", rows, T, {RowsSignal(r) : r \in T})
  BY <1>1, <1>2
<1>5. QED
  BY <1>3, <1>4 DEF RowsTold, Told

\* A step that reads no list, and changes no phone, keeps what is owed.
LEMMA ListsKept ==
    ASSUME IInv, ListsInv,
           UNCHANGED <<installed, disabled, bound, named, resolver, inventory>>,
           \/ queue' = queue
           \/ \E slot : queue' = Append(queue, slot),
           \E t \in Seq(AppsSlot) : appsQueue' = appsQueue \o t,
           \/ toGui' = toGui
           \/ \E m : m.signal # "inventory" /\ toGui' = Append(toGui, m)
           \/ /\ toGui # <<>> /\ toGui' = Tail(toGui)
              /\ Head(toGui).signal \notin {"inventory", "result"}
    PROVE  ListsInv'
<1>1. ReadUnderWay'
  BY AppsQueueGrows DEF ListsInv
<1>2. ChangeAnnounced => ChangeAnnounced'
  BY AnnouncedStays
<1>3. ReloadQueued => ReloadQueued'
  BY ReloadStays
<1>4. ReadAhead => ReadAhead'
  BY AppsQueueGrows DEF ListsInv
<1>5. RowsTold => RowsTold'
  <2> SUFFICES ASSUME RowsTold PROVE RowsTold'
    OBVIOUS
  <2>1. PICK q : q = toGui'
    OBVIOUS
  <2>2. Told(q, "inventory", inventory, Truths(bound),
             {RowsSignal(r) : r \in Truths(bound)})
    BY <2>1, ToldKept DEF RowsTold
  <2>3. QED
    BY <2>1, <2>2, RowsToldLast
<1>6. QED
  BY <1>1, <1>2, <1>3, <1>4, <1>5 DEF ListsInv

\* Nothing put behind the apps queue, or one slot.
LEMMA AppsQueueKeptOrOne ==
    ASSUME IInv, \/ appsQueue' = appsQueue
                 \/ \E slot \in AppsSlot : appsQueue' = Append(appsQueue, slot)
    PROVE  \E t \in Seq(AppsSlot) : appsQueue' = appsQueue \o t
<1>1. appsQueue \in Seq(AppsSlot)
  BY DEF IInv, AppsWorkerInv
<1>2. CASE appsQueue' = appsQueue
  <2>1. appsQueue \o <<>> = appsQueue
    BY <1>1
  <2>2. QED
    BY <1>2, <2>1, EmptyQueue
<1>3. CASE \E slot \in AppsSlot : appsQueue' = Append(appsQueue, slot)
  <2>1. PICK slot \in AppsSlot : appsQueue' = Append(appsQueue, slot)
    BY <1>3
  <2>2. <<slot>> \in Seq(AppsSlot) /\ appsQueue \o <<slot>> = Append(appsQueue, slot)
    BY <1>1, ConcatIsAppend
  <2>3. QED
    BY <2>1, <2>2
<1>4. QED
  BY <1>2, <1>3

\* So do a replug and the monitor.
LEMMA MonitorLists == ASSUME IInv, ListsInv, Replug \/ Monitor PROVE ListsInv'
<1>1. CASE Replug
  BY <1>1, ListsKept, AppsQueueKeptOrOne DEF Replug
<1>2. CASE MonitorLoses
  BY <1>2 DEF MonitorLoses, ListsInv, ReadUnderWay
<1>3. CASE MonitorConnects
  <2>1. ReloadQueued'
    BY <1>3, ReloadAppended DEF MonitorConnects
  <2>2. ReadUnderWay' /\ ReadAhead'
    <3>1. <<ReadInventory>> \in Seq(AppsSlot) /\ 1 \in DOMAIN <<ReadInventory>>
          /\ <<ReadInventory>>[1] = ReadInventory
      BY SlotTypes
    <3>2. appsQueue' = appsQueue \o <<ReadInventory>>
      BY <1>3, ConcatIsAppend DEF MonitorConnects, IInv, AppsWorkerInv
    <3> DEFINE t == <<ReadInventory>>
    <3> HIDE DEF t
    <3>3. t \in Seq(AppsSlot) /\ appsQueue' = appsQueue \o t
          /\ \E j \in DOMAIN t : t[j] = ReadInventory
      BY <3>1, <3>2 DEF t
    <3>4. QED
      BY <1>3, <3>3, AppsQueueGrows DEF MonitorConnects, ListsInv
  <2>3. QED
    BY <2>1, <2>2 DEF ListsInv
<1>4. CASE MonitorSamples
  BY <1>4, SlotTypes, ListsKept, AppsQueueKeptOrOne DEF MonitorSamples
<1>5. QED
  BY <1>1, <1>2, <1>3, <1>4

\* So does what the user does.
LEMMA UserLists == ASSUME IInv, ListsInv, User PROVE ListsInv'
<1>1. UNCHANGED <<installed, disabled, bound, named, resolver, inventory>>
  BY DEF User, InspectProcess, SelectApp, RefreshApps, Manage, ClickAction, ClickInspector,
         ClickApps, ClickBackground, ClickRecommendation, Clicked, Answer, UserActs
<1>2. queue' = queue \/ \E slot : queue' = Append(queue, slot)
  BY DEF User, InspectProcess, SelectApp, RefreshApps, Manage, ClickAction, ClickInspector,
         ClickApps, ClickBackground, ClickRecommendation, Clicked, Answer, ConfirmOrDispatch,
         Dispatch
<1>3. appsQueue' = appsQueue \/ \E slot \in AppsSlot : appsQueue' = Append(appsQueue, slot)
  <2>1. Resolved \in Package \cup {NoPackage}
    BY DEF Resolved, IInv, PanelInv
  <2>2. QED
    BY <2>1, SlotTypes
       DEF User, InspectProcess, SelectApp, RefreshApps, Manage, ResolvePending, ClickAction,
           ClickInspector, ClickApps, ClickBackground, ClickRecommendation, Clicked, Answer
<1>4. toGui' = toGui \/ \E m : m.signal # "inventory" /\ toGui' = Append(toGui, m)
  <2>1. CASE \E p \in Package : InspectProcess(p)
    BY <2>1 DEF InspectProcess, Post
  <2>2. CASE User /\ ~\E p \in Package : InspectProcess(p)
    BY <2>2 DEF User, SelectApp, RefreshApps, Manage, ClickAction, ClickInspector, ClickApps,
                ClickBackground, ClickRecommendation, Clicked, Answer
  <2>3. QED
    BY <2>1, <2>2
<1>5. \E t \in Seq(AppsSlot) : appsQueue' = appsQueue \o t
  BY <1>3, AppsQueueKeptOrOne
<1>6. QED
  BY <1>1, <1>2, <1>4, <1>5, ListsKept

(***************************************************************************)
(* The action worker.  A reload tells what the bound phone has.  A request *)
(* that leaves the phones alone keeps the lists told; one that does not is *)
(* announced.                                                              *)
(***************************************************************************)
LEMMA ReloadLists == ASSUME IInv, ListsInv, ReloadPackages PROVE ListsInv'
<1>1. PICK r \in Shell :
        LET known == IF Failed(r) THEN {} ELSE installed[r.serial]
        IN  resolver' = known /\ Post(PackagesSignal(known))
  BY DEF ReloadPackages
<1>2. \E m : m.signal # "inventory" /\ toGui' = Append(toGui, m)
  BY <1>1 DEF Post, PackagesSignal
<1>3. UNCHANGED <<installed, disabled, bound, named, inventory, appsQueue>>
  BY DEF ReloadPackages, WorkerTurn
<1>4. bound # NoSerial => resolver' \subseteq installed'[bound']
  BY <1>1, <1>3, ShellReachesTheBound
<1>5. ReadUnderWay' /\ (ReadAhead => ReadAhead')
  BY <1>3 DEF ListsInv, ReadUnderWay, ReadAhead, UpToDate
<1>6. ChangeAnnounced => ChangeAnnounced'
  BY <1>2, AnnouncedStays
<1>7. RowsTold => RowsTold'
  <2> SUFFICES ASSUME RowsTold PROVE RowsTold'
    OBVIOUS
  <2>1. PICK q : q = toGui'
    OBVIOUS
  <2>2. Told(q, "inventory", inventory, Truths(bound), {RowsSignal(x) : x \in Truths(bound)})
    BY <1>2, <2>1, ToldKept DEF RowsTold
  <2>3. QED
    BY <1>3, <2>1, <2>2, RowsToldLast
<1>8. QED
  BY <1>3, <1>4, <1>5, <1>6, <1>7 DEF ListsInv

\* After a change of the phone a reload is owed, by the result or by the queue.
LEMMA CompleteLists ==
    ASSUME IInv, ListsInv, WorkerTurn("request"), NEW outcome \in Outcome, Complete(outcome),
           \/ UNCHANGED <<installed, disabled>>
           \/ outcome = "ok" /\ Head(queue).action \in Destructive \cup {"enable"}
    PROVE  ListsInv'
<1> DEFINE result == ResultSignal(Head(queue), outcome)
<1>1. PICK q \in Seq(HonestSignal) :
         /\ \/ q = toGui
            \/ \E known : q = Append(toGui, PackagesSignal(known))
         /\ toGui' = Append(q, result)
  BY CompletePosts
<1>2. /\ result.signal = "result" /\ result.outcome = outcome
      /\ result.action = Head(queue).action
      /\ \A known : PackagesSignal(known).signal = "packages"
  BY DEF ResultSignal, PackagesSignal
<1> HIDE DEF result
<1>3. UNCHANGED <<bound, named, inventory, appsQueue>> /\ resolver' \subseteq resolver
  BY DEF WorkerTurn, Complete
<1>4. ReadUnderWay'
  BY <1>3 DEF ListsInv, ReadUnderWay
<1>5. CASE outcome = "ok" /\ Head(queue).action \in Destructive \cup {"enable"}
  <2>1. PICK i \in DOMAIN toGui' : toGui'[i] = result
    BY <1>1, AppendedIsThere
  <2>2. ChangeAnnounced'
    BY <1>2, <1>5, <2>1 DEF ChangeAnnounced
  <2>3. QED
    BY <1>4, <2>2 DEF ListsInv
<1>6. CASE UNCHANGED <<installed, disabled>>
  <2>1. ReadAhead => ReadAhead'
    BY <1>3, <1>6 DEF ReadAhead, UpToDate
  <2>2. ReloadQueued => ReloadQueued'
    BY ReloadStays DEF Complete, WorkerTurn
  <2>3. ChangeAnnounced => ChangeAnnounced'
    <3> SUFFICES ASSUME ChangeAnnounced PROVE ChangeAnnounced'
      OBVIOUS
    <3>1. PICK i \in DOMAIN toGui : /\ toGui[i].signal = "result" /\ toGui[i].outcome = "ok"
                                    /\ toGui[i].action \in Destructive \cup {"enable"}
      BY DEF ChangeAnnounced
    <3>2. i \in DOMAIN q /\ q[i] = toGui[i]
      BY <1>1, AppendKeeps DEF IInv
    <3>3. i \in DOMAIN toGui' /\ toGui'[i] = toGui[i]
      BY <1>1, <3>2, AppendKeeps
    <3>4. QED
      BY <3>1, <3>3 DEF ChangeAnnounced
  <2>4. RowsTold => RowsTold'
    <3> SUFFICES ASSUME RowsTold PROVE RowsTold'
      OBVIOUS
    <3> DEFINE good == {RowsSignal(x) : x \in Truths(bound)}
    <3>1. Told(toGui, "inventory", inventory, Truths(bound), good)
      BY DEF RowsTold
    <3> HIDE DEF good
    <3>2. Told(q, "inventory", inventory, Truths(bound), good)
      BY <1>1, <1>2, <3>1, ToldAppendOther DEF IInv
    <3>3. Told(Append(q, result), "inventory", inventory, Truths(bound), good)
      BY <1>2, <3>2, ToldAppendOther
    <3>4. PICK p : p = Append(q, result)
      OBVIOUS
    <3>5. QED
      BY <1>1, <1>3, <1>6, <3>3, <3>4, RowsToldLast DEF good
  <2>5. bound # NoSerial /\ resolver \subseteq installed[bound]
           => resolver' \subseteq installed'[bound']
    BY <1>3, <1>6
  <2>6. QED
    BY <1>3, <1>4, <2>1, <2>2, <2>3, <2>4, <2>5 DEF ListsInv
<1>7. QED
  BY <1>5, <1>6

\* So is it after every step of the worker of actions.
LEMMA WorkerLists == ASSUME IInv, ListsInv, ActionWorker PROVE ListsInv'
<1>1. CASE ReloadPackages
  BY <1>1, ReloadLists
<1>2. CASE ResolveLauncher
  <2>1. WorkerTurn("request") /\ UNCHANGED <<installed, disabled>>
    BY <1>2 DEF ResolveLauncher
  <2>2. CASE \E outcome \in Outcome : Complete(outcome)
    BY <2>1, <2>2, CompleteLists
  <2>3. CASE UNCHANGED <<queue, resolver, loaded, toGui>>
    BY <2>1, <2>3, ListsKept, AppsQueueKeptOrOne DEF WorkerTurn
  <2>4. QED
    BY <1>2, <2>2, <2>3, OutcomeTypes, ShellReachesAPhone
       DEF ResolveLauncher, Outcome, IInv, PhonesInv
<1>3. CASE RunCommand
  <2>1. WorkerTurn("request")
    BY <1>3 DEF RunCommand
  <2>2. PICK r \in Shell :
          \/ Complete("unreachable") /\ UNCHANGED <<installed, disabled>>
          \/ /\ ~Failed(r)
             /\ \E outcome \in OutcomeOn(r.serial) :
                  /\ Complete(outcome)
                  /\ IF outcome = "ok"
                     THEN TakesEffect(Head(queue).action, Head(queue).package, r.serial)
                     ELSE UNCHANGED <<installed, disabled>>
    BY <1>3 DEF RunCommand
  <2>3. CASE Complete("unreachable") /\ UNCHANGED <<installed, disabled>>
    BY <2>1, <2>3, CompleteLists DEF Outcome
  <2>4. ASSUME ~Failed(r), NEW outcome \in OutcomeOn(r.serial), Complete(outcome),
               IF outcome = "ok"
               THEN TakesEffect(Head(queue).action, Head(queue).package, r.serial)
               ELSE UNCHANGED <<installed, disabled>>
        PROVE  ListsInv'
    <3>1. outcome \in Outcome
      BY <2>4, OutcomeTypes, ShellReachesAPhone DEF IInv, PhonesInv
    <3>2. Head(queue).action \notin Destructive \cup {"enable"} /\ outcome = "ok"
             => UNCHANGED <<installed, disabled>>
      BY <2>4 DEF TakesEffect, Destructive
    <3>3. QED
      BY <2>1, <2>4, <3>1, <3>2, CompleteLists
  <2>5. QED
    BY <2>2, <2>3, <2>4
<1>4. QED
  BY <1>1, <1>2, <1>3 DEF ActionWorker

(***************************************************************************)
(* The apps worker.  Names read from the bound phone are up to date, and   *)
(* what is read with them is true; a read that fails lists nothing.        *)
(***************************************************************************)
LEMMA AppsKept ==
    ASSUME IInv, ListsInv, AppsTurn("inventory") \/ AppsTurn("details")
    PROVE  /\ UNCHANGED <<installed, disabled, bound, resolver, inventory, queue>>
           /\ ReloadQueued => ReloadQueued'
           /\ bound # NoSerial /\ resolver \subseteq installed[bound]
                => resolver' \subseteq installed'[bound']
<1>1. UNCHANGED <<installed, disabled, bound, resolver, inventory, queue>>
  BY DEF AppsTurn
<1>2. QED
  BY <1>1, ReloadStays

\* True rows on their way are the last to be told.
LEMMA TruePosted ==
    ASSUME IInv, UNCHANGED <<installed, disabled, bound, inventory>>,
           NEW rows \in Truths(bound), Post(RowsSignal(rows))
    PROVE  RowsTold'
<1> DEFINE good == {RowsSignal(r) : r \in Truths(bound)}
           q == Append(toGui, RowsSignal(rows))
<1>1. RowsSignal(rows).signal = "inventory" /\ RowsSignal(rows) \in good
  BY DEF RowsSignal
<1> HIDE DEF good
<1>2. Told(q, "inventory", inventory, Truths(bound), good)
  BY <1>1, ToldAppendGood DEF IInv
<1>3. toGui' = q
  BY DEF Post
<1> HIDE DEF q
<1>4. QED
  BY <1>2, <1>3, RowsToldLast DEF good

\* The names that were read are true until the phone changes.
LEMMA NamesLists == ASSUME IInv, ListsInv, ReadNames PROVE ListsInv'
<1>1. AppsTurn("inventory") /\ named = Nothing
  BY DEF ReadNames
<1>2. PICK r \in Shell :
        IF Failed(r)
        THEN /\ Post([signal |-> "inventory", rows |-> {}])
             /\ appsQueue' = Tail(appsQueue)
             /\ UNCHANGED named
        ELSE /\ named' = [serial |-> r.serial, packages |-> installed[r.serial]]
             /\ UNCHANGED <<appsQueue, toGui>>
  BY DEF ReadNames
<1>3. UNCHANGED <<installed, disabled, bound, resolver, inventory, queue>>
  BY <1>1, AppsKept
<1>4. ChangeAnnounced => ChangeAnnounced'
  BY <1>2, AnnouncedStays DEF Post
<1>5. CASE Failed(r)
  <2>1. RowsTold'
    BY <1>2, <1>3, <1>5, NothingIsTrue, TruePosted DEF RowsSignal
  <2>2. named' = Nothing /\ ReadUnderWay'
    BY <1>1, <1>2, <1>5 DEF ReadUnderWay
  <2>3. QED
    BY <1>1, <1>3, <1>4, <2>1, <2>2, AppsKept DEF ListsInv
<1>6. CASE ~Failed(r)
  <2>1. appsQueue # <<>> /\ Head(appsQueue) = ReadInventory
    <3>1. appsQueue # <<>> /\ Head(appsQueue).op = "inventory" /\ Head(appsQueue) \in AppsSlot
      BY <1>1, Queues DEF AppsTurn, IInv, AppsWorkerInv
    <3>2. QED
      BY <3>1 DEF AppsSlot, ReadDetails
  <2>2. ReadUnderWay'
    BY <1>2, <1>6, <2>1 DEF ReadUnderWay
  <2>3. bound # NoSerial => ReadAhead'
    <3> SUFFICES ASSUME bound # NoSerial PROVE ReadAhead'
      OBVIOUS
    <3>1. r.serial = bound
      BY <1>6, ShellReachesTheBound
    <3>2. UpToDate'
      BY <1>2, <1>3, <1>6, <3>1 DEF UpToDate
    <3>3. 1 \in DOMAIN appsQueue /\ appsQueue[1] = ReadInventory
      BY <2>1, TailIndices DEF IInv, AppsWorkerInv
    <3>4. QED
      BY <1>2, <1>6, <3>2, <3>3 DEF ReadAhead
  <2>4. QED
    BY <1>1, <1>3, <1>4, <2>2, <2>3, AppsKept DEF ListsInv
<1>7. QED
  BY <1>5, <1>6

\* Rows made of names and categories that are up to date are true.
LEMMA RowsAreTrue ==
    ASSUME IInv, named # Nothing, bound # NoSerial, UpToDate
    PROVE  Rows(bound) \in Truths(bound)
<1>1. named.serial = bound /\ named.packages \subseteq installed[bound]
      /\ named \in Names /\ bound \in Serial
  BY DEF UpToDate, IInv, AppsWorkerInv, PhonesInv, MaybeSerial
<1>2. ASSUME NEW p \in named.packages
      PROVE  [package |-> p, category |-> CategoryOn(p, bound),
              enabled |-> Enabled(p, bound), source |-> {named.serial, bound}] \in Row
  BY <1>1 DEF Names, Row, Category, CategoryOn, Enabled
<1>3. QED
  BY <1>1, <1>2 DEF Rows, Truths

\* Reading the categories posts rows that are true, or owes a reload.
LEMMA CategoriesLists == ASSUME IInv, ListsInv, ReadCategories PROVE ListsInv'
<1>1. /\ AppsTurn("inventory") /\ named # Nothing /\ named' = Nothing
      /\ appsQueue # <<>> /\ appsQueue' = Tail(appsQueue)
  BY DEF ReadCategories, AppsTurn
<1>2. PICK r \in Shell :
        Post([signal |-> "inventory", rows |-> IF Failed(r) THEN {} ELSE Rows(r.serial)])
  BY DEF ReadCategories
<1>3. UNCHANGED <<installed, disabled, bound, resolver, inventory, queue>>
  BY <1>1, AppsKept
<1>4. ChangeAnnounced => ChangeAnnounced'
  BY <1>2, AnnouncedStays DEF Post
<1>5. ReadUnderWay'
  BY <1>1 DEF ReadUnderWay
<1>6. bound # NoSerial /\ UpToDate => RowsTold'
  <2> SUFFICES ASSUME bound # NoSerial, UpToDate PROVE RowsTold'
    OBVIOUS
  <2> DEFINE rows == IF Failed(r) THEN {} ELSE Rows(r.serial)
  <2>1. rows \in Truths(bound)
    BY <1>1, NothingIsTrue, RowsAreTrue, ShellReachesTheBound
  <2>2. Post(RowsSignal(rows))
    BY <1>2 DEF RowsSignal
  <2> HIDE DEF rows
  <2>3. QED
    BY <1>3, <2>1, <2>2, TruePosted
<1>7. bound # NoSerial /\ ~UpToDate /\ ReadAhead => ReadAhead'
  BY <1>1, AppsQueueShrinks
<1>8. QED
  BY <1>1, <1>3, <1>4, <1>5, <1>6, <1>7, AppsKept DEF ListsInv

\* Reading one package leaves the lists alone.
LEMMA DetailsLists == ASSUME IInv, ListsInv, ReadPackage PROVE ListsInv'
<1>1. AppsTurn("details") /\ appsQueue # <<>> /\ Head(appsQueue).op = "details"
      /\ appsQueue' = Tail(appsQueue) /\ UNCHANGED named
  BY DEF ReadPackage, AppsTurn
<1>2. Head(appsQueue) # ReadInventory
  BY <1>1 DEF ReadInventory
<1>3. named = Nothing /\ named' = Nothing
  BY <1>1, <1>2 DEF ListsInv, ReadUnderWay
<1>4. \E m : m.signal # "inventory" /\ toGui' = Append(toGui, m)
  BY DEF ReadPackage, Post
<1>5. UNCHANGED <<installed, disabled, bound, resolver, inventory, queue>>
  BY <1>1, AppsKept
<1>6. ChangeAnnounced => ChangeAnnounced'
  BY <1>4, AnnouncedStays
<1>7. ReadAhead => ReadAhead'
  BY <1>1, <1>2, <1>3, AppsQueueShrinks
<1>8. RowsTold => RowsTold'
  <2> SUFFICES ASSUME RowsTold PROVE RowsTold'
    OBVIOUS
  <2>1. PICK q : q = toGui'
    OBVIOUS
  <2>2. Told(q, "inventory", inventory, Truths(bound), {RowsSignal(x) : x \in Truths(bound)})
    BY <1>4, <2>1, ToldKept DEF RowsTold
  <2>3. QED
    BY <1>5, <2>1, <2>2, RowsToldLast
<1>9. QED
  BY <1>1, <1>3, <1>5, <1>6, <1>7, <1>8, AppsKept DEF ListsInv, ReadUnderWay

(***************************************************************************)
(* The window.  It holds what it was told, and a change that is announced  *)
(* to it queues both reads (on_action_result).                             *)
(***************************************************************************)
LEMMA HeardLists ==
    ASSUME IInv, ListsInv, toGui # <<>>, toGui' = Tail(toGui), Head(toGui).signal # "result",
           UNCHANGED <<installed, disabled, bound, named, resolver, queue>>,
           \E t \in Seq(AppsSlot) : appsQueue' = appsQueue \o t,
           Head(toGui).signal # "inventory" => inventory' \in {inventory, {}},
           Head(toGui).signal = "inventory" => inventory' = Head(toGui).rows
    PROVE  ListsInv'
<1>1. ReadUnderWay' /\ (ReadAhead => ReadAhead')
  BY AppsQueueGrows DEF ListsInv
<1>2. ChangeAnnounced => ChangeAnnounced'
  BY AnnouncedStays
<1>3. ReloadQueued => ReloadQueued'
  BY ReloadStays
<1>4. RowsTold => RowsTold'
  <2> SUFFICES ASSUME RowsTold PROVE RowsTold'
    OBVIOUS
  <2> DEFINE good == {RowsSignal(x) : x \in Truths(bound)}
  <2>1. PICK rows : rows = inventory'
    OBVIOUS
  <2>2. Head(toGui) \in good => Head(toGui).rows \in Truths(bound)
    <3>1. \A x : RowsSignal(x).rows = x
      BY DEF RowsSignal
    <3>2. QED
      BY <3>1
  <2>3. Told(toGui, "inventory", inventory, Truths(bound), good)
    BY DEF RowsTold
  <2>4. /\ Head(toGui).signal # "inventory" => rows = inventory \/ rows \in Truths(bound)
        /\ Head(toGui).signal = "inventory" /\ Head(toGui) \in good => rows \in Truths(bound)
    BY <2>1, <2>2, NothingIsTrue
  <2> HIDE DEF good
  <2>5. Told(Tail(toGui), "inventory", rows, Truths(bound), good)
    BY <2>3, <2>4, ToldTail DEF IInv
  <2>6. PICK q : q = Tail(toGui)
    OBVIOUS
  <2>7. QED
    BY <2>1, <2>5, <2>6, RowsToldLast DEF good
<1>5. QED
  BY <1>1, <1>2, <1>3, <1>4 DEF ListsInv

\* A result of a change posts the reload it owed.
LEMMA ResultLists == ASSUME IInv, ListsInv, OnResult PROVE ListsInv'
<1> DEFINE result == Head(toGui)
           follows == result.outcome = "ok" /\ result.action \in Destructive \cup {"enable"}
           details == IF follows /\ result.action \in {"enable", "disable"}
                      THEN <<ReadDetails(result.package)>> ELSE <<>>
           read == IF follows THEN <<ReadInventory>> ELSE <<>>
<1>1. /\ toGui # <<>> /\ result.signal = "result" /\ toGui' = Tail(toGui)
      /\ UNCHANGED <<installed, disabled, bound, named, resolver, inventory>>
      /\ queue' = IF follows THEN Append(queue, Reload) ELSE queue
      /\ appsQueue' = appsQueue \o details \o read
  BY DEF OnResult, Delivered
<1>2. result.package \in Package
  <2>1. Head(toGui) \in Signal
    BY HeadIsHonest DEF OnResult
  <2>2. QED
    BY <1>1, <2>1 DEF Signal
<1>3. details \in Seq(AppsSlot) /\ read \in Seq(AppsSlot)
  <2>1. /\ <<ReadDetails(result.package)>> \in Seq(AppsSlot)
        /\ <<ReadInventory>> \in Seq(AppsSlot) /\ <<>> \in Seq(AppsSlot)
    BY <1>2, SlotTypes
  <2>2. QED
    BY <2>1
<1>4. follows => \E i \in DOMAIN read : read[i] = ReadInventory
  <2>1. 1 \in DOMAIN <<ReadInventory>> /\ <<ReadInventory>>[1] = ReadInventory
    OBVIOUS
  <2>2. QED
    BY <2>1
<1>5. appsQueue \in Seq(AppsSlot)
  BY DEF IInv, AppsWorkerInv
<1> HIDE DEF details, read
<1> DEFINE t == details \o read
<1>6. /\ t \in Seq(AppsSlot) /\ appsQueue' = appsQueue \o t
      /\ follows => \E i \in DOMAIN t : t[i] = ReadInventory
  <2>1. t \in Seq(AppsSlot) /\ appsQueue \o details \o read = appsQueue \o t
    BY <1>3, <1>5
  <2>2. \A i \in DOMAIN read : Len(details) + i \in DOMAIN t /\ t[Len(details) + i] = read[i]
    BY <1>3
  <2>3. QED
    BY <1>1, <1>4, <2>1, <2>2
<1> HIDE DEF t
<1>7. ReadUnderWay' /\ (ReadAhead => ReadAhead') /\ (follows => ReadAhead')
  BY <1>1, <1>6, AppsQueueGrows DEF ListsInv
<1>8. (ReloadQueued => ReloadQueued') /\ (follows => ReloadQueued')
  BY <1>1, ReloadStays, ReloadAppended
<1>9. ChangeAnnounced => ChangeAnnounced' \/ follows
  <2> SUFFICES ASSUME ChangeAnnounced, ~follows PROVE ChangeAnnounced'
    OBVIOUS
  <2>1. PICK i \in DOMAIN toGui : /\ toGui[i].signal = "result" /\ toGui[i].outcome = "ok"
                                  /\ toGui[i].action \in Destructive \cup {"enable"}
    BY DEF ChangeAnnounced
  <2>2. toGui[i] # Head(toGui)
    BY <2>1
  <2>3. PICK j \in DOMAIN Tail(toGui) : Tail(toGui)[j] = toGui[i]
    BY <2>1, <2>2, TailKeeps DEF IInv
  <2>4. QED
    BY <1>1, <2>1, <2>3 DEF ChangeAnnounced
<1>10. RowsTold => RowsTold'
  <2> SUFFICES ASSUME RowsTold PROVE RowsTold'
    OBVIOUS
  <2>1. PICK q : q = Tail(toGui)
    OBVIOUS
  <2>2. result.signal # "inventory"
    BY <1>1
  <2>3. Told(q, "inventory", inventory, Truths(bound), {RowsSignal(x) : x \in Truths(bound)})
    BY <1>1, <2>1, <2>2, ToldTail DEF RowsTold, IInv
  <2>4. QED
    BY <1>1, <2>1, <2>3, RowsToldLast
<1>11. QED
  BY <1>1, <1>7, <1>8, <1>9, <1>10 DEF ListsInv

\* Every handler of the window keeps what is owed.
LEMMA WindowLists == ASSUME IInv, ListsInv, Window PROVE ListsInv'
<1>1. CASE OnResult
  BY <1>1, ResultLists
<1>2. CASE Window /\ ~OnResult
  <2>1. /\ toGui # <<>> /\ toGui' = Tail(toGui) /\ Head(toGui).signal # "result"
        /\ UNCHANGED <<installed, disabled, bound, named, resolver, queue>>
    BY <1>2 DEF Window, OnLost, OnConnected, OnInspection, OnPackages, OnInventory,
       OnDetails, OnDetailsFailed, Delivered
  <2>2. appsQueue' = appsQueue \/ \E slot \in AppsSlot : appsQueue' = Append(appsQueue, slot)
    <3>1. pending \in Package \cup {NoPackage}
      BY DEF IInv, PanelInv, MaybePackage
    <3>2. QED
      BY <1>2, <3>1, SlotTypes
         DEF Window, OnLost, OnConnected, OnInspection, OnPackages, OnInventory,
             OnDetails, OnDetailsFailed, ResolvePending
  <2>3. \E t \in Seq(AppsSlot) : appsQueue' = appsQueue \o t
    BY <2>2, AppsQueueKeptOrOne
  <2>4. /\ Head(toGui).signal # "inventory" => inventory' \in {inventory, {}}
        /\ Head(toGui).signal = "inventory" => inventory' = Head(toGui).rows
    BY <1>2 DEF Window, OnLost, OnConnected, OnInspection, OnPackages, OnInventory,
       OnDetails, OnDetailsFailed, Delivered
  <2>5. QED
    BY <2>1, <2>3, <2>4, HeardLists
<1>3. QED
  BY <1>1, <1>2

\* Once nothing is on its way and the phone shown is the one on the cable, the
\* lists are that phone's as it is now, whoever changed it and whichever phones
\* and failed reads came before (wire_apps, on_action_result).
THEOREM SettledListsHold == ActionSpec => []SettledListsAreTrue
<1>1. ActionInit => InStep /\ ListsInv
  BY DEF ActionInit, InStep, PackagesTold, Told, ListsInv, ReadUnderWay
<1>2. IInv /\ ListsInv /\ [ActionNext]_vars => ListsInv'
  <2> SUFFICES ASSUME IInv, ListsInv, [ActionNext]_vars PROVE ListsInv'
    OBVIOUS
  <2>1. CASE UNCHANGED vars
    BY <2>1, ListsKept, AppsQueueKeptOrOne DEF vars
  <2>2. CASE Replug \/ Monitor
    BY <2>2, MonitorLists
  <2>3. CASE AppsWorker
    BY <2>3, NamesLists, CategoriesLists, DetailsLists DEF AppsWorker
  <2>4. QED
    BY <2>1, <2>2, <2>3, UserLists, WorkerLists, WindowLists DEF ActionNext
<1>3. IInv /\ InStep /\ ListsInv => SettledListsAreTrue
  <2> SUFFICES ASSUME IInv, InStep, ListsInv, toGui = <<>>, queue = <<>>, appsQueue = <<>>,
                      serial # NoSerial, serial = bound
               PROVE  /\ packages \subseteq installed[serial]
                      /\ \A row \in inventory :
                           /\ row.source = {serial}
                           /\ row.package \in installed[serial]
                           /\ row.category = CategoryOn(row.package, serial)
                           /\ row.enabled = Enabled(row.package, serial)
    BY DEF SettledListsAreTrue
  <2>1. ~ChangeAnnounced /\ ~ReloadQueued /\ ~ReadAhead
    BY DEF ChangeAnnounced, ReloadQueued, ReadAhead
  <2>2. resolver \subseteq installed[bound] /\ RowsTold
    BY <2>1 DEF ListsInv
  <2>3. packages = resolver
    BY DEF InStep, PackagesTold, Told
  <2>4. inventory \in Truths(bound)
    BY <2>2 DEF RowsTold, Told
  <2>5. QED
    BY <2>2, <2>3, <2>4 DEF Truths
<1>4. IInv /\ InStep /\ [ActionNext]_vars => InStep'
  BY InStepStep
<1>5. QED
  BY <1>1, <1>2, <1>3, <1>4, InvariantHolds, PTL DEF ActionSpec
=============================================================================
