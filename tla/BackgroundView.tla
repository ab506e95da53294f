--------------------------- MODULE BackgroundView ---------------------------
(***************************************************************************)
(* The background applications as the window shows them: rebuilt from its  *)
(* mirrors whenever one of them changes (MainWindow._build_background_apps), *)
(* with labels that the apps worker reads from the APKs on the phone, one  *)
(* command at a time, and that it keeps by the path of the APK.  The       *)
(* monitor and the apps worker post to the window's queue, each in its own *)
(* order; the window and the monitor post to the worker's.                 *)
(***************************************************************************)
EXTENDS BackgroundApps

CONSTANTS
    Phone, NoPhone,
    Label,             \* what applications call themselves
    OutputsOf,         \* what ps and top may print on each phone: [ps, top]
    InventoryOf,       \* the applications installed on each phone
    ForegroundsOf,     \* the foreground dumps each phone may give
    ApkOf,             \* the APK under each path of each phone
    NoPath,            \* pm names no APK
    Capacity,          \* the memory of a phone, in KiB
    MaxChanges,        \* bound: phones exchanged by hand
    MaxTicks,          \* bound: ticks of the monitor
    MaxLag             \* bound: signals queued when the monitor emits

ASSUME BackgroundAssumption ==
    /\ NoPhone \notin Phone /\ NoLabel \notin Label
    /\ \A p \in Phone : \A print \in OutputsOf[p] :
          /\ HasHeader(print.top)
          /\ \A i \in DOMAIN print.ps : Readable(print.ps[i]) => print.ps[i].uid \in Nat
    /\ \A p \in Phone : \A a \in InventoryOf[p] : Place[a.package] \in Nat
    /\ Capacity \in Nat /\ MaxChanges \in Nat /\ MaxTicks \in Nat /\ MaxLag \in Nat

VARIABLES
    attached,      \* the phone on the cable
    bound,         \* the phone of the monitor's session
    changes,       \* how often it was exchanged
    ticks,         \* how often the monitor has sampled
    toGui,         \* signals queued on the GUI thread
    toApps,        \* slots queued on the apps worker
    read,          \* AppsWorker._inventory
    cache,         \* ApkLabelResolver._cache
    resolving,     \* the labels read so far, and the packages still to read
    state,         \* MainWindow._connection_state
    processes, inventory, foreground,    \* its mirrors
    labels,        \* _app_labels
    requested,     \* _label_requested
    seen,          \* LastSeenTracker._seen
    view           \* what the table shows

monitorVars == <<attached, changes, bound, ticks>>
workerVars == <<toApps, read, cache, resolving>>
mirrors == <<processes, inventory, foreground>>
noteVars == <<labels, requested, seen>>
windowVars == <<state, mirrors, noteVars, view>>
backgroundVars == <<monitorVars, workerVars, toGui, windowVars>>

Package == {a.package : a \in UNION {InventoryOf[p] : p \in Phone}}
NotLoaded == [loaded |-> FALSE, apps |-> {}]
Loaded(apps) == [loaded |-> TRUE, apps |-> apps]
NoLabels == [p \in {} |-> NoLabel]
NotResolving == [packages |-> <<>>, answer |-> NoLabels, busy |-> FALSE]

BackgroundInit ==
    /\ attached \in Phone /\ bound = NoPhone /\ ticks = 0 /\ changes = 0
    /\ toGui = <<>>
    /\ toApps = <<>> /\ read = NotLoaded /\ cache = NoLabels /\ resolving = NotResolving
    /\ state = "lost"
    /\ processes = NotLoaded /\ inventory = NotLoaded /\ foreground = NoPackage
    /\ labels = NoLabels /\ requested = {} /\ seen = [p \in {} |-> 0] /\ view = {}

-----------------------------------------------------------------------------
(* The phone and the monitor. *)

Exchange ==
    /\ changes < MaxChanges /\ changes' = changes + 1
    /\ attached' \in (Phone \cup {NoPhone}) \ {attached}
    /\ UNCHANGED <<bound, ticks, toGui, workerVars, windowVars>>

Connection(s) == [signal |-> "connection", state |-> s]
Refresh == [op |-> "refresh"]

\* The monitor emits a batch; connection_changed goes to the apps worker too,
\* which refreshes its inventory on every CONNECTED.
Emit(batch) ==
    /\ Len(toGui) <= MaxLag
    /\ toGui' = toGui \o batch
    /\ toApps' = IF Head(batch) = Connection("connected") THEN Append(toApps, Refresh) ELSE toApps
    /\ UNCHANGED <<attached, changes, read, cache, resolving, windowVars>>

\* _connect
Connect ==
    /\ bound = NoPhone /\ attached # NoPhone
    /\ bound' = attached
    /\ Emit(<<Connection("connected")>>)
    /\ UNCHANGED ticks

\* A tick in which every collector answers, or one of them is late: the
\* snapshots are emitted either way.
Tick ==
    /\ ticks < MaxTicks
    /\ bound # NoPhone /\ attached = bound
    /\ ticks' = ticks + 1
    /\ \E outcome \in {"connected", "transient"} :
       \E print \in OutputsOf[bound] : \E dump \in ForegroundsOf[bound] :
          Emit(<<Connection(outcome),
                 [signal |-> "snapshots",
                  processes |-> Loaded(SampleProcesses(print.ps, print.top))],
                 [signal |-> "foreground", package |-> ParseForeground(dump)]>>)
    /\ UNCHANGED bound

\* The bound phone is gone: the session is released and emptied.
LoseDevice ==
    /\ bound # NoPhone /\ attached # bound
    /\ bound' = NoPhone
    /\ Emit(<<Connection("lost"), [signal |-> "snapshots", processes |-> NotLoaded],
              [signal |-> "foreground", package |-> NoPackage]>>)
    /\ UNCHANGED ticks

-----------------------------------------------------------------------------
(* The apps worker.  A command reaches the phone the session is bound to, *)
(* or, between sessions, the one that is attached.                        *)

Reached == IF bound \in {NoPhone, attached} THEN attached ELSE NoPhone

\* AppsWorker.refresh_inventory; a failed read publishes an empty inventory.
RefreshInventory ==
    /\ toApps # <<>> /\ Head(toApps) = Refresh /\ ~resolving.busy
    /\ toApps' = Tail(toApps)
    /\ IF Reached = NoPhone
       THEN /\ toGui' = Append(toGui, [signal |-> "inventory", apps |-> {}])
            /\ UNCHANGED read
       ELSE /\ read' = Loaded(InventoryOf[Reached])
            /\ toGui' = Append(toGui, [signal |-> "inventory", apps |-> InventoryOf[Reached]])
    /\ UNCHANGED <<monitorVars, cache, resolving, windowVars>>

\* resolve_labels; with no inventory at all its answer is empty.
StartLabels ==
    /\ toApps # <<>> /\ Head(toApps).op = "labels" /\ ~resolving.busy
    /\ toApps' = Tail(toApps)
    /\ resolving' = [packages |-> IF read.loaded THEN Head(toApps).packages ELSE <<>>,
                     answer |-> NoLabels, busy |-> TRUE]
    /\ UNCHANGED <<monitorVars, toGui, read, cache, windowVars>>

\* _resolve_uncached and label_from_apk_parts: of an APK [manifest, resources,
\* label], the first two say whether the part could be read, the label is
\* "literal", "reference" or "none" and what it resolves to.
LabelFromApk(apk) ==
    CASE apk.manifest /\ apk.kind = "literal" -> apk.label
      [] apk.manifest /\ apk.kind = "reference" /\ apk.resources -> apk.label
      [] OTHER -> NoLabel

\* ApkLabelResolver.resolve: what it says of a path, and the new cache; the
\* failure of a command is no label, and is not remembered.
Resolved(path) ==
    CASE path = NoPath -> [label |-> NoLabel, cache |-> cache]
      [] path # NoPath /\ path \in DOMAIN cache -> [label |-> cache[path], cache |-> cache]
      [] path # NoPath /\ path \notin DOMAIN cache
            /\ (Reached = NoPhone \/ path \notin DOMAIN ApkOf[Reached]) ->
            [label |-> NoLabel, cache |-> cache]
      [] OTHER ->
            LET label == LabelFromApk(ApkOf[Reached][path])
            IN  [label |-> label,
                 cache |-> [q \in DOMAIN cache \cup {path} |->
                               IF q = path THEN label ELSE cache[q]]]

PathsOf(package) == {a.path : a \in {b \in read.apps : b.package = package}}
PathOf(package) ==
    IF PathsOf(package) = {} THEN NoPath ELSE CHOOSE path \in PathsOf(package) : TRUE

\* Mutant: a phone that does not answer ends the batch.
ResolveUntilFailure ==
    /\ resolving.busy /\ resolving.packages # <<>>
    /\ LET package == Head(resolving.packages)
           result == Resolved(PathOf(package))
       IN  /\ resolving' = IF Reached = NoPhone
                           THEN [resolving EXCEPT !.packages = <<>>]
                           ELSE [resolving EXCEPT
                                    !.packages = Tail(@),
                                    !.answer = [p \in DOMAIN @ \cup {package} |->
                                        IF p = package THEN result.label ELSE @[p]]]
           /\ cache' = result.cache
    /\ UNCHANGED <<monitorVars, toApps, toGui, read, windowVars>>

ResolveLabel ==
    /\ resolving.busy /\ resolving.packages # <<>>
    /\ LET package == Head(resolving.packages)
           result == Resolved(PathOf(package))
       IN  /\ resolving' = [resolving EXCEPT
                               !.packages = Tail(@),
                               !.answer = [p \in DOMAIN @ \cup {package} |->
                                              IF p = package THEN result.label ELSE @[p]]]
           /\ cache' = result.cache
    /\ UNCHANGED <<monitorVars, toApps, toGui, read, windowVars>>

AnswerLabels ==
    /\ resolving.busy /\ resolving.packages = <<>>
    /\ toGui' = Append(toGui, [signal |-> "labels", labels |-> resolving.answer])
    /\ resolving' = NotResolving
    /\ UNCHANGED <<monitorVars, toApps, read, cache, windowVars>>

AppsWorkerStep == RefreshInventory \/ StartLabels \/ ResolveLabel \/ AnswerLabels

-----------------------------------------------------------------------------
(* The window. *)

Forget == labels' = NoLabels /\ requested' = {} /\ seen' = [p \in {} |-> 0]

AsSequence(packages) ==
    CHOOSE s \in [1 .. Cardinality(packages) -> packages] :
        \A i, j \in DOMAIN s : i < j => Place[s[i]] < Place[s[j]]

\* _build_background_apps on the mirrors as they are now: without a connection
\* it forgets, without a mirror it shows nothing, and it asks for the labels it
\* neither has nor has asked for.
Build(known) ==
    IF state' # "connected" \/ ~processes'.loaded \/ ~inventory'.loaded
    THEN /\ view' = {}
         /\ IF state' # "connected" THEN Forget
            ELSE labels' = known /\ UNCHANGED <<requested, seen>>
         /\ UNCHANGED toApps
    ELSE /\ view' = BuildBackground(processes'.apps, inventory'.apps, foreground', Capacity, known)
         /\ labels' = known
         /\ seen' = Annotate(seen, {e.package : e \in view'}, ticks)
         /\ LET missing == {e.package : e \in view'} \ (DOMAIN known \cup requested)
            IN  /\ requested' = requested \cup missing
                /\ toApps' = IF missing = {} THEN toApps
                             ELSE Append(toApps,
                                         [op |-> "labels", packages |-> AsSequence(missing)])

Handling(signal) ==
    /\ toGui # <<>> /\ Head(toGui).signal = signal
    /\ toGui' = Tail(toGui)
    /\ UNCHANGED <<monitorVars, read, cache, resolving>>

\* update_connection: a loss clears the mirrors, a late collector nothing.
UpdateConnection ==
    /\ Handling("connection")
    /\ state' = Head(toGui).state
    /\ UNCHANGED toApps
    /\ IF state' = "lost"
       THEN /\ processes' = NotLoaded /\ inventory' = NotLoaded /\ foreground' = NoPackage
            /\ Forget /\ view' = {}
       ELSE UNCHANGED <<mirrors, noteVars, view>>

\* update_snapshots: an empty snapshot leaves the last table.
UpdateSnapshots ==
    /\ Handling("snapshots")
    /\ processes' = IF Head(toGui).processes.loaded THEN Head(toGui).processes ELSE processes
    /\ UNCHANGED <<state, inventory, foreground>>
    /\ Build(labels)

\* Mutant: the new foreground application is shown with the next snapshots.
UpdateForegroundLater ==
    /\ Handling("foreground")
    /\ foreground' = Head(toGui).package
    /\ UNCHANGED <<state, processes, inventory, toApps, noteVars, view>>

UpdateForeground ==
    /\ Handling("foreground")
    /\ foreground' = Head(toGui).package
    /\ UNCHANGED <<state, processes, inventory>>
    /\ Build(labels)

\* on_apps_inventory_ready
AdoptInventory ==
    /\ Handling("inventory")
    /\ inventory' = Loaded(Head(toGui).apps)
    /\ UNCHANGED <<state, processes, foreground>>
    /\ Build(labels)

\* Mutant: labels are kept whether or not a phone is connected.
AdoptLabelsAnyway ==
    /\ Handling("labels")
    /\ labels' = [p \in DOMAIN labels \cup DOMAIN Head(toGui).labels |->
                     IF p \in DOMAIN Head(toGui).labels
                     THEN Head(toGui).labels[p] ELSE labels[p]]
    /\ UNCHANGED <<state, mirrors, requested, seen, view, toApps>>

\* on_app_labels_ready
AdoptLabels ==
    /\ Handling("labels")
    /\ UNCHANGED <<state, mirrors>>
    /\ Build([p \in DOMAIN labels \cup DOMAIN Head(toGui).labels |->
                 IF p \in DOMAIN Head(toGui).labels
                 THEN Head(toGui).labels[p] ELSE labels[p]])

WindowStep ==
    UpdateConnection \/ UpdateSnapshots \/ UpdateForeground \/ AdoptInventory \/ AdoptLabels

-----------------------------------------------------------------------------
BackgroundNext ==
    \/ Exchange \/ Connect \/ Tick \/ LoseDevice
    \/ RefreshInventory \/ StartLabels \/ ResolveLabel \/ AnswerLabels
    \/ UpdateConnection \/ UpdateSnapshots \/ UpdateForeground \/ AdoptInventory \/ AdoptLabels

\* The two threads take what is queued for them; nothing makes the monitor
\* tick, or a phone stay.
BackgroundSpec ==
    /\ BackgroundInit /\ [][BackgroundNext]_backgroundVars
    /\ WF_backgroundVars(WindowStep) /\ WF_backgroundVars(AppsWorkerStep)

-----------------------------------------------------------------------------
\* Every application in the table is proven to run by the mirrors as they are
\* now, whatever was updated last: an installed application of the user's, not
\* the one in the foreground, with processes that carry its uid and no other
\* application's, and none of the system's.
EntriesAreProven ==
    \A e \in view :
        /\ e.package # foreground
        /\ e.pids # {}
        /\ \E a \in inventory.apps :
              /\ a.package = e.package /\ a.category = "user" /\ a.uid = e.uid
              /\ e.uid >= AidApp
        /\ \A pid \in e.pids :
              /\ \E p \in processes.apps : p.pid = pid /\ p.uid = e.uid /\ p.category = "user"
              /\ \A f \in view \ {e} : pid \notin f.pids

\* Once the window knows that the phone is lost nothing of it is left, neither
\* entries nor labels nor stamps, however many answers of the apps worker and
\* of the monitor arrive after that.
NothingOfALostPhone ==
    state = "lost" => view = {} /\ labels = NoLabels /\ requested = {} /\ DOMAIN seen = {}

\* A label is asked for once and the answer is never lost: whoever is listed has
\* one in the end, if only the answer that there is none, or is listed no more.
Listed(p) == \E e \in view : e.package = p
LabelsSettle ==
    \A p \in Package : (Listed(p) /\ p \notin DOMAIN labels) ~> (p \in DOMAIN labels \/ ~Listed(p))

=============================================================================
