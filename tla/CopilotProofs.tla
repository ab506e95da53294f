--------------------------- MODULE CopilotProofs ----------------------------
(***************************************************************************)
(* What is proved of Copilot, for every set of keys, and of CaseDesk, for  *)
(* every set of phones, bases and readings; they share no state.  The page *)
(* and the settings disagree with the file only in between the steps of a  *)
(* save; that they do not in any state rests on the panes being told by    *)
(* the slot that wrote the file, and only then.  At the desk of cases the  *)
(* buckets of a report hold each change of a check once, and the report on *)
(* the panel is of the baseline in force, because saving another drops it  *)
(* with the check it was made of (CaseIsOfBaseline).                       *)
(***************************************************************************)
EXTENDS Copilot, CaseDesk, FiniteSetTheorems, TLAPS

-----------------------------------------------------------------------------
(* Copilot: keys, panes and questions. *)

\* The page waits exactly while a chat is under way, and no dialog is open then.
PageWaitsForChat ==
    /\ loading <=> call # Idle /\ call.kind = "chat"
    /\ loading => dialog = Closed

KeysAreKeys == stored \in MaybeKey /\ (dialog # Closed => dialog \in Dialog)

CInv == KeysAreKeys /\ PanesTellTheTruth /\ PageWaitsForChat

\* What load_config makes of a key that is written down.
LEMMA LoadedKey ==
    ASSUME NEW key
    PROVE  /\ IsConfigured(key) => LoadedFrom(key) = key
           /\ EnvKey = NoKey => LoadedFrom(key) = key
BY DEF LoadedFrom, IsConfigured

\* A save that succeeds tells both panes what it wrote, one that fails nothing.
LEMMA SaveKeepsTruth ==
    ASSUME PanesTellTheTruth, NEW key, SaveConfig(key)
    PROVE  PanesTellTheTruth'
<1>1. CASE stored' = key /\ ShowConfiguration(key)
  <2>1. chatSays' = IsConfigured(key) /\ settingsSay' = IsConfigured(key) /\ stored' = key
    BY <1>1 DEF ShowConfiguration
  <2>2. LoadConfig' = LoadedFrom(key)
    BY <2>1 DEF LoadConfig, LoadedFrom
  <2> QED BY <2>1, <2>2, LoadedKey DEF PanesTellTheTruth, IsConfigured
<1>2. CASE UNCHANGED <<stored, panes>>
  BY <1>2 DEF PanesTellTheTruth, panes, LoadConfig, LoadedFrom
<1> QED BY <1>1, <1>2 DEF SaveConfig

\* The first panes show the stored key.
LEMMA CInvInit == CopilotInit => CInv
<1> SUFFICES ASSUME CopilotInit PROVE CInv
  OBVIOUS
<1>1. PanesTellTheTruth
  <2>1. EnvKey = NoKey => LoadConfig = stored
    BY LoadedKey DEF LoadConfig
  <2> QED BY <2>1 DEF CopilotInit, PanesTellTheTruth
<1>2. KeysAreKeys
  BY DEF CopilotInit, KeysAreKeys
<1>3. PageWaitsForChat
  BY DEF CopilotInit, PageWaitsForChat
<1> QED BY <1>1, <1>2, <1>3 DEF CInv

\* The steps that leave the file and the panes alone.
LEMMA Untouched ==
    ASSUME CInv, UNCHANGED <<stored, chatSays, settingsSay>>
    PROVE  PanesTellTheTruth' /\ LoadConfig' = LoadConfig
BY DEF CInv, PanesTellTheTruth, LoadConfig, LoadedFrom

\* What is asked with a configured key is a call.
LEMMA ChatIsACall ==
    ASSUME stored \in MaybeKey, IsConfigured(LoadConfig)
    PROVE  [kind |-> "chat", key |-> LoadConfig] # Idle
<1>1. LoadConfig \in Key
  BY CopilotAssumption DEF LoadConfig, LoadedFrom, IsConfigured, MaybeKey
<1>2. [kind |-> "chat", key |-> LoadConfig] \in Call
  BY <1>1 DEF Call
<1> QED BY <1>2, CopilotAssumption

\* Every step keeps the panes true and the page waiting in earnest.
LEMMA CInvStep == CInv /\ [CopilotNext]_copilotVars => CInv'
<1> SUFFICES ASSUME CInv, [CopilotNext]_copilotVars PROVE CInv'
  OBVIOUS
<1> USE DEF panes
<1>0. KeysAreKeys'
  <2>1. CASE OpenSettings
    <3>1. LoadConfig \in MaybeKey
      BY CopilotAssumption DEF CInv, KeysAreKeys, LoadConfig, LoadedFrom, MaybeKey
    <3> QED BY <2>1, <3>1 DEF OpenSettings, CInv, KeysAreKeys, Dialog
  <2>2. ASSUME NEW key \in MaybeKey, TypeKey(key) PROVE KeysAreKeys'
    BY <2>2 DEF TypeKey, CInv, KeysAreKeys, Dialog
  <2>3. CASE Save
    BY <2>3 DEF Save, SaveConfig, CInv, KeysAreKeys, Dialog
  <2>4. CASE ClearKey
    BY <2>4 DEF ClearKey, SaveConfig, CInv, KeysAreKeys, Dialog, MaybeKey
  <2>5. CASE TestFromDialog
    BY <2>5 DEF TestFromDialog, CInv, KeysAreKeys, Dialog
  <2>6. CASE CloseSettings
    BY <2>6 DEF CloseSettings, CInv, KeysAreKeys
  <2>7. CASE UNCHANGED <<stored, dialog>>
    BY <2>7 DEF CInv, KeysAreKeys
  <2> QED BY <2>1, <2>2, <2>3, <2>4, <2>5, <2>6, <2>7
          DEF CopilotNext, TestFromSettings, Ask, ChatEnds, TestEnds, copilotVars
<1>1. CASE OpenSettings \/ (\E key \in MaybeKey : TypeKey(key)) \/ CloseSettings
  <2>1. UNCHANGED <<stored, chatSays, settingsSay, call, loading>> /\ call = Idle
    BY <1>1 DEF OpenSettings, TypeKey, CloseSettings
  <2>2. PageWaitsForChat'
    BY <2>1 DEF CInv, PageWaitsForChat
  <2> QED BY <1>0, <2>1, <2>2, Untouched DEF CInv
<1>2. CASE Save \/ ClearKey
  <2>1. call = Idle /\ UNCHANGED <<call, loading>> /\ \E key : SaveConfig(key)
    BY <1>2 DEF Save, ClearKey
  <2>2. PanesTellTheTruth'
    BY <2>1, SaveKeepsTruth DEF CInv
  <2>3. PageWaitsForChat'
    BY <2>1 DEF CInv, PageWaitsForChat
  <2> QED BY <1>0, <2>2, <2>3 DEF CInv
<1>3. CASE TestFromDialog \/ TestFromSettings
  <2>1. /\ UNCHANGED <<stored, chatSays, settingsSay, loading>> /\ call = Idle
        /\ call' = Idle \/ call'.kind = "test"
    BY <1>3 DEF TestFromDialog, TestFromSettings
  <2>2. PageWaitsForChat'
    BY <2>1 DEF CInv, PageWaitsForChat
  <2> QED BY <1>0, <2>1, <2>2, Untouched DEF CInv
<1>4. CASE Ask
  <2>1. /\ UNCHANGED <<stored, dialog, chatSays, settingsSay>> /\ dialog = Closed
        /\ call = Idle /\ ~loading /\ AskWithStoredKey
    BY <1>4 DEF Ask
  <2>2. CASE IsConfigured(LoadConfig)
    <3>1. loading' = TRUE /\ call' = [kind |-> "chat", key |-> LoadConfig]
      BY <2>1, <2>2 DEF AskWithStoredKey
    <3>2. call'.kind = "chat"
      BY <3>1
    <3>3. call' # Idle
      BY <2>2, <3>1, ChatIsACall DEF CInv, KeysAreKeys
    <3>4. PageWaitsForChat'
      BY <2>1, <3>1, <3>2, <3>3, Untouched DEF PageWaitsForChat
    <3> QED BY <1>0, <2>1, <3>4, Untouched DEF CInv
  <2>3. CASE ~IsConfigured(LoadConfig)
    <3>1. UNCHANGED <<loading, call>>
      BY <2>1, <2>3 DEF AskWithStoredKey
    <3> QED BY <1>0, <2>1, <3>1, Untouched DEF CInv, PageWaitsForChat
  <2> QED BY <2>2, <2>3
<1>5. ASSUME NEW outcome \in Outcome, ChatEnds(outcome) PROVE CInv'
  <2>1. /\ UNCHANGED <<stored, dialog, chatSays, settingsSay>>
        /\ call' = Idle /\ loading' = FALSE
    BY <1>5 DEF ChatEnds, Respond
  <2> QED BY <1>0, <2>1, Untouched DEF CInv, PageWaitsForChat
<1>6. CASE TestEnds
  <2>1. /\ UNCHANGED <<stored, dialog, chatSays, settingsSay, loading>>
        /\ call # Idle /\ call.kind = "test" /\ call' = Idle
    BY <1>6 DEF TestEnds
  <2> QED BY <1>0, <2>1, Untouched DEF CInv, PageWaitsForChat
<1>7. CASE UNCHANGED copilotVars
  BY <1>0, <1>7, Untouched DEF copilotVars, CInv, PageWaitsForChat
<1> QED BY <1>1, <1>2, <1>3, <1>4, <1>5, <1>6, <1>7 DEF CopilotNext

\* So it is in every state.
LEMMA AlwaysCInv == CopilotSpec => []CInv
BY CInvInit, CInvStep, PTL DEF CopilotSpec

\* What the chat page and the settings say of the key is what the next question
\* finds in the file, whatever was saved, cleared or tested.
THEOREM PanesAreTruthful == CopilotSpec => []PanesTellTheTruth
<1>1. CInv => PanesTellTheTruth
  BY DEF CInv
<1> QED BY <1>1, AlwaysCInv, PTL

\* The page never waits for an answer that nothing is going to give, and no
\* settings dialog is open over a page that waits.
THEOREM PageNeverWaitsInVain == CopilotSpec => []PageWaitsForChat
<1>1. CInv => PageWaitsForChat
  BY DEF CInv
<1> QED BY <1>1, AlwaysCInv, PTL

-----------------------------------------------------------------------------
(* CaseDesk: baselines, checks and reports. *)

\* The values of a function on a finite set are finitely many.
LEMMA FiniteValues ==
    ASSUME NEW S, IsFiniteSet(S), NEW f, DOMAIN f = S, f = [x \in S |-> f[x]]
    PROVE  IsFiniteSet({f[x] : x \in S})
<1> DEFINE T == {f[x] : x \in S}
<1>1. f \in Surjection(S, T)
  BY DEF Surjection
<1>2. QED
  BY <1>1, FS_Surjection

\* A check of two finite snapshots finds finitely many changes
\* (diff_snapshot).
FiniteSnapshot(snapshot) ==
    /\ snapshot.verified \subseteq Category
    /\ \A k \in Category : IsFiniteSet(snapshot.items[k])

\* A read gives a snapshot of finitely many items, with the number it was given.
LEMMA ReadIsFinite ==
    ASSUME NEW read \in DeskReads, NEW serial, NEW id
    PROVE  FiniteSnapshot(Snapshot(serial, id, read)) /\ Snapshot(serial, id, read).id = id
<1> DEFINE named == {p \in read.processes : p.named}
           keyed == {s \in read.sockets : s.keyed}
<1>1. IsFiniteSet(named) /\ IsFiniteSet(read.packages) /\ IsFiniteSet(keyed)
  BY DeskAssumption, FS_Subset
<1>2. Snapshot(serial, id, read) =
         [serial |-> serial, id |-> id,
          items |-> [process |-> named, package |-> read.packages, socket |-> keyed],
          verified |-> IF read.socketsRead THEN Category ELSE Category \ {"socket"}]
  BY DEF Snapshot
<1> HIDE DEF named, keyed
<1>3. QED
  BY <1>1, <1>2 DEF FiniteSnapshot, Category

\* Within a category the items that came and went are finitely many.
LEMMA CategoryChanges ==
    ASSUME NEW k \in Category, NEW base, FiniteSnapshot(base),
           NEW now, FiniteSnapshot(now)
    PROVE  IsFiniteSet(CategoryEvents(k, base, now))
<1> DEFINE old == base.items[k]
           new == now.items[k]
           added == [i \in new \ old |-> Event(k, "new", i)]
           gone == [i \in old \ new |-> Event(k, "removed", i)]
           allAdded == {added[i] : i \in new \ old}
           allGone == {gone[i] : i \in old \ new}
<1>1. IsFiniteSet(new \ old) /\ IsFiniteSet(old \ new)
  BY FS_Difference DEF FiniteSnapshot
<1>2. IsFiniteSet(allAdded)
  BY <1>1, FiniteValues
<1>3. IsFiniteSet(allGone)
  BY <1>1, FiniteValues
<1>4. CategoryEvents(k, base, now) = allAdded \cup allGone
  BY DEF CategoryEvents
<1> HIDE DEF allAdded, allGone
<1>5. QED
  BY <1>2, <1>3, <1>4, FS_Union

\* A check of two finite snapshots finds finitely many changes.
LEMMA CheckIsFinite ==
    ASSUME NEW base, FiniteSnapshot(base), NEW now, FiniteSnapshot(now)
    PROVE  IsFiniteSet(DiffSnapshot(base, now).events)
<1> DEFINE E(k) == CategoryEvents(k, base, now)
           some == E("process") \cup E("package")
           all == some \cup E("socket")
<1>1. IsFiniteSet(all)
  <2>1. IsFiniteSet(E("process")) /\ IsFiniteSet(E("package")) /\ IsFiniteSet(E("socket"))
    BY CategoryChanges DEF Category
  <2> HIDE DEF E
  <2>2. IsFiniteSet(some)
    BY <2>1, FS_Union
  <2> HIDE DEF some
  <2>3. QED
    BY <2>1, <2>2, FS_Union
<1>2. DiffSnapshot(base, now).events = UNION {E(k) : k \in Comparable(base, now)}
  BY DEF DiffSnapshot
<1>3. Comparable(base, now) \subseteq Category
  BY DEF FiniteSnapshot, Comparable
<1>4. DiffSnapshot(base, now).events \subseteq all
  <2> HIDE DEF E
  <2>1. QED
    BY <1>2, <1>3 DEF Category
<1>5. QED
  BY <1>1, <1>4, FS_Subset

\* Each change of a check is in one bucket (stabilize_drift), and in the
\* report once: as a finding or on the timeline (build_incident_report).
Sorted(buckets, events) ==
    /\ IsFiniteSet(events)
    /\ buckets = [b \in {"meaningful", "transient", "uncertain"} |-> buckets[b]]
    /\ events = buckets["meaningful"] \cup buckets["transient"] \cup buckets["uncertain"]
    /\ buckets["meaningful"] \cap (buckets["transient"] \cup buckets["uncertain"]) = {}

\* The buckets of a check sort its changes, whatever was observed before.
LEMMA StabilizeSorts ==
    ASSUME NEW report, IsFiniteSet(report.events), NEW base, NEW now, NEW seriesOf
    PROVE  Sorted(StabilizeDrift(report, base, now, seriesOf), report.events)
<1> DEFINE bucket(e) == IF e.category \notin Observed THEN "meaningful"
                        ELSE Bucket(e, base, now,
                                    Append(seriesOf[e.category], Observation(now, e.category)))
           buckets == StabilizeDrift(report, base, now, seriesOf)
<1>1. buckets = [b \in {"meaningful", "transient", "uncertain"} |->
                    {e \in report.events : bucket(e) = b}]
  BY DEF StabilizeDrift
<1>2. \A e : bucket(e) \in {"meaningful", "transient", "uncertain"}
  BY DEF Bucket
<1> HIDE DEF bucket, buckets
<1>3. /\ buckets["meaningful"] = {e \in report.events : bucket(e) = "meaningful"}
      /\ buckets["transient"] = {e \in report.events : bucket(e) = "transient"}
      /\ buckets["uncertain"] = {e \in report.events : bucket(e) = "uncertain"}
  BY <1>1
<1>4. buckets = [b \in {"meaningful", "transient", "uncertain"} |-> buckets[b]]
  BY <1>1
<1>5. Sorted(buckets, report.events)
  BY <1>2, <1>3, <1>4 DEF Sorted
<1>6. QED
  BY <1>5 DEF buckets

ReportedOnce(report) ==
    LET found == {f.about : f \in {g \in report.findings : g.type = "DRIFT"}}
        aside == {t.about : t \in {u \in report.timeline :
                                      u.type \in {"TRANSIENT_CHANGE", "NOT_OBSERVED"}}}
    IN  /\ found \cap aside = {}
        /\ Cardinality(found) + Cardinality(aside) = report.changes
        /\ report.stability["meaningful"] = Cardinality(found)

\* The report made of sorted buckets holds each change once, and counts it.
LEMMA ReportHoldsEachOnce ==
    ASSUME NEW session, NEW buckets, Sorted(buckets, session.report.events),
           NEW raised, NEW audited, NEW rows, NEW sockets, NEW owners
    PROVE  ReportedOnce(BuildReport(session, buckets, raised, audited, rows, sockets, owners))
<1> DEFINE report == session.report
           built == BuildReport(session, buckets, raised, audited, rows, sockets, owners)
           found == {f.about : f \in {g \in built.findings : g.type = "DRIFT"}}
           aside == {t.about : t \in {u \in built.timeline :
                                         u.type \in {"TRANSIENT_CHANGE", "NOT_OBSERVED"}}}
           kept == buckets["meaningful"]
           others == buckets["transient"] \cup buckets["uncertain"]
<1>1. /\ built.findings = DriftFindings(report, buckets) \cup SignalFindings(raised, report)
                              \cup PermissionFindings(audited)
      /\ built.timeline = InvestigationTimeline(report, buckets, raised, audited)
      /\ built.changes = Cardinality(report.events)
      /\ built.stability["meaningful"] = Cardinality(kept)
  BY DEF BuildReport, Timeline
<1>2. \A e \in report.events : BucketOf(e, buckets) = "meaningful" <=> e \in kept
  BY DEF BucketOf, Sorted
<1>3. found = kept
  <2>1. {g \in built.findings : g.type = "DRIFT"} = DriftFindings(report, buckets)
    BY <1>1 DEF DriftFindings, SignalFindings, PermissionFindings, Finding
  <2>2. {f.about : f \in DriftFindings(report, buckets)} =
           {e \in report.events : BucketOf(e, buckets) = "meaningful"}
    <3> DEFINE chosen == {e \in report.events : BucketOf(e, buckets) = "meaningful"}
               finding(e) == Finding("DRIFT", "INFO", [name |-> e.identity.name], e, {e})
    <3>1. DriftFindings(report, buckets) = {finding(e) : e \in chosen}
      BY DEF DriftFindings
    <3>2. \A e : finding(e).about = e
      BY DEF Finding
    <3> HIDE DEF chosen, finding
    <3>3. {f.about : f \in {finding(e) : e \in chosen}} = chosen
      BY <3>2
    <3>4. QED
      BY <3>1, <3>3 DEF chosen
  <2>3. {e \in report.events : BucketOf(e, buckets) = "meaningful"} = kept
    BY <1>2 DEF Sorted
  <2>4. QED
    BY <2>1, <2>2, <2>3
<1>4. aside = others
  <2>1. {u \in built.timeline : u.type \in {"TRANSIENT_CHANGE", "NOT_OBSERVED"}} =
           {Entry(TypeOfBucket[BucketOf(e, buckets)], e) : e \in others}
    <3>1. \A e \in report.events :
             TypeOfBucket[BucketOf(e, buckets)] \in {"TRANSIENT_CHANGE", "NOT_OBSERVED"}
                <=> e \in others
      BY <1>2 DEF BucketOf, TypeOfBucket, Sorted
    <3>2. others \subseteq report.events
      BY DEF Sorted
    <3> HIDE DEF others
    <3>3. QED
      BY <1>1, <3>1, <3>2 DEF InvestigationTimeline, Entry
  <2>2. {t.about : t \in {Entry(TypeOfBucket[BucketOf(e, buckets)], e) : e \in others}} = others
    <3> DEFINE entry(e) == Entry(TypeOfBucket[BucketOf(e, buckets)], e)
    <3>1. \A e : entry(e).about = e
      BY DEF Entry
    <3> HIDE DEF entry, others
    <3>2. {t.about : t \in {entry(e) : e \in others}} = others
      BY <3>1
    <3>3. QED
      BY <3>2 DEF entry
  <2>3. QED
    BY <2>1, <2>2
<1>5. /\ kept \cap others = {}
      /\ Cardinality(kept) + Cardinality(others) = Cardinality(report.events)
  <2>1. /\ IsFiniteSet(report.events)
        /\ report.events = kept \cup others /\ kept \cap others = {}
    BY DEF Sorted
  <2> HIDE DEF kept, others
  <2>2. IsFiniteSet(kept) /\ IsFiniteSet(others)
    BY <2>1, FS_Subset
  <2>3. Cardinality(kept) \in Nat /\ Cardinality(others) \in Nat /\ Cardinality(kept \cap others) = 0
    BY <2>1, <2>2, FS_CardinalityType, FS_EmptySet
  <2>4. Cardinality(kept \cup others) =
           Cardinality(kept) + Cardinality(others) - Cardinality(kept \cap others)
    BY <2>2, FS_Union
  <2>5. QED
    BY <2>1, <2>3, <2>4
<1> HIDE DEF built, kept, others
<1>6. QED
  BY <1>1, <1>3, <1>4, <1>5 DEF ReportedOnce, built

\* The inductive invariant.  A report is about the baseline in force
\* because saving another drops the report with the check it was made of;
\* and it counts right because the buckets of the last check sort its
\* changes, whatever has been observed since.  The panel is unlocked by
\* the first answer, and every request is answered or still there.
CaseIsOfBaseline ==
    /\ baseline # None => FiniteSnapshot(baseline)
    /\ drift # None => baseline # None /\ Sorted(stability.buckets, drift.events)

DeskInv ==
    /\ CaseIsOfBaseline
    /\ ReportOfThisBaseline
    /\ EveryChangeReportedOnce
    /\ exports \in Seq({"request", "answer"})
    /\ ExportIsAnswered

\* An empty desk is in order.
LEMMA DeskStart == DeskInit => DeskInv
BY DEF DeskInit, DeskInv, CaseIsOfBaseline, ReportOfThisBaseline, EveryChangeReportedOnce,
       ExportIsAnswered

\* The steps that leave the case alone: what is sampled, audited or lost.
LEMMA CaseLeftAlone ==
    ASSUME DeskInv,
           UNCHANGED <<baseline, drift, stability, incident, exporting, exports>>
    PROVE  DeskInv'
BY DEF DeskInv, CaseIsOfBaseline, ReportOfThisBaseline, EveryChangeReportedOnce,
       ExportIsAnswered

\* A new baseline drops the check and the report made of the one before.
LEMMA BaselineSavedKeeps ==
    ASSUME DeskInv, NEW read \in DeskReads, OnBaselineSaved(read)
    PROVE  DeskInv'
<1>1. FiniteSnapshot(baseline')
  BY ReadIsFinite DEF OnBaselineSaved, Read
<1>2. drift' = None /\ incident' = None /\ ~exporting' /\ exports' = exports
  BY DEF OnBaselineSaved, ResetIncident
<1>3. QED
  BY <1>1, <1>2 DEF DeskInv, CaseIsOfBaseline, ReportOfThisBaseline, EveryChangeReportedOnce,
                    ExportIsAnswered

\* A check sorts the changes it finds into the buckets.
LEMMA DriftCheckedKeeps ==
    ASSUME DeskInv, NEW read \in DeskReads, OnDriftChecked(read)
    PROVE  DeskInv'
<1> DEFINE snapshot == Read(read)
           report == DiffSnapshot(baseline, snapshot)
<1>1. /\ baseline # None /\ baseline' = baseline /\ incident' = incident
      /\ drift' = report
      /\ stability'.buckets = StabilizeDrift(report, baseline, snapshot, series')
      /\ exports' = exports /\ exporting' = exporting
  BY DEF OnDriftChecked
<1>2. FiniteSnapshot(baseline) /\ FiniteSnapshot(snapshot)
  BY <1>1, ReadIsFinite DEF Read, DeskInv, CaseIsOfBaseline
<1>3. IsFiniteSet(report.events)
  BY <1>2, CheckIsFinite
<1> HIDE DEF report, snapshot
<1>4. PICK seriesNow : seriesNow = series'
  OBVIOUS
<1>5. Sorted(StabilizeDrift(report, baseline, snapshot, seriesNow), report.events)
  BY <1>3, StabilizeSorts
<1>6. CaseIsOfBaseline'
  BY <1>1, <1>2, <1>4, <1>5 DEF CaseIsOfBaseline
<1>7. QED
  BY <1>1, <1>6 DEF DeskInv, ReportOfThisBaseline, EveryChangeReportedOnce, ExportIsAnswered

\* A report is made of the baseline, the changes and the buckets of one check.
LEMMA GeneratedKeeps ==
    ASSUME DeskInv, GenerateReport
    PROVE  DeskInv'
<1> DEFINE session == [baseline |-> baseline, current |-> current, report |-> drift]
           built == BuildReport(session, stability.buckets, signals, AuditSet,
                                LiveRows, TableRows, UidPackages)
<1>1. /\ incident' = built /\ drift # None
      /\ UNCHANGED <<baseline, drift, stability, exporting, exports>>
  BY DEF GenerateReport, checkVars
<1>2. baseline # None /\ Sorted(stability.buckets, session.report.events)
  BY <1>1 DEF DeskInv, CaseIsOfBaseline
<1>3. ReportedOnce(built)
  <2> HIDE DEF session
  <2>1. QED
    BY <1>2, ReportHoldsEachOnce
<1>4. built.baseline = baseline.id
  BY DEF BuildReport
<1> HIDE DEF built
<1>5. EveryChangeReportedOnce'
  BY <1>1, <1>3 DEF EveryChangeReportedOnce, ReportedOnce
<1>6. QED
  BY <1>1, <1>2, <1>4, <1>5 DEF DeskInv, CaseIsOfBaseline, ReportOfThisBaseline, ExportIsAnswered

\* A write of the report, and its answer, leave the case alone.
LEMMA ExportKeeps ==
    ASSUME DeskInv, ExportReport \/ WorkerWrites \/ OnExportCompleted
    PROVE  DeskInv'
<1>1. UNCHANGED <<baseline, drift, stability, incident>>
  BY DEF ExportReport, WorkerWrites, OnExportCompleted, checkVars
<1>2. CaseIsOfBaseline' /\ ReportOfThisBaseline' /\ EveryChangeReportedOnce'
  BY <1>1 DEF DeskInv, CaseIsOfBaseline, ReportOfThisBaseline, EveryChangeReportedOnce
<1>3. exports' \in Seq({"request", "answer"}) /\ ExportIsAnswered'
  <2>1. CASE ExportReport
    BY <2>1 DEF ExportReport, DeskInv, ExportIsAnswered
  <2>2. CASE WorkerWrites
    <3>1. PICK i \in DOMAIN exports : exports' = [exports EXCEPT ![i] = "answer"]
      BY <2>2 DEF WorkerWrites, Write
    <3>2. exports' \in Seq({"request", "answer"}) /\ exports' # <<>>
      BY <3>1 DEF DeskInv
    <3>3. QED
      BY <3>2 DEF ExportIsAnswered
  <2>3. CASE OnExportCompleted
    BY <2>3 DEF OnExportCompleted, DeskInv, ExportIsAnswered
  <2>4. QED
    BY <2>1, <2>2, <2>3
<1>4. QED
  BY <1>2, <1>3 DEF DeskInv

\* Every step of the desk keeps it in order.
LEMMA DeskStep == DeskInv /\ [DeskNext]_deskVars => DeskInv'
<1> SUFFICES ASSUME DeskInv, [DeskNext]_deskVars PROVE DeskInv'
  OBVIOUS
<1>1. ASSUME NEW read \in DeskReads, OnFreshProcesses(read) \/ OnSocketTables(read)
      PROVE  DeskInv'
  BY <1>1, CaseLeftAlone DEF OnFreshProcesses, OnSocketTables, OnProcesses, checkVars
<1>2. CASE OnCachedProcesses \/ OnDeviceLost
  BY <1>2, CaseLeftAlone DEF OnCachedProcesses, OnProcesses, OnDeviceLost, checkVars
<1>3. ASSUME NEW audit \in Audits, OnPermissionAudit(audit)
      PROVE  DeskInv'
  BY <1>3, CaseLeftAlone DEF OnPermissionAudit, checkVars
<1>4. CASE UNCHANGED deskVars
  BY <1>4, CaseLeftAlone DEF deskVars, checkVars
<1>5. QED
  BY <1>1, <1>2, <1>3, <1>4, BaselineSavedKeeps, DriftCheckedKeeps, GeneratedKeeps, ExportKeeps
     DEF DeskNext

\* In every state the case is of the baseline in force, and its buckets sort
\* the changes of the last check.
THEOREM DeskInvariant == DeskSpec => []DeskInv
BY DeskStart, DeskStep, PTL DEF DeskSpec

\* The report on the panel was made of the baseline in force.
THEOREM ReportIsOfBaseline == DeskSpec => []ReportOfThisBaseline
<1>1. DeskInv => ReportOfThisBaseline
  BY DEF DeskInv
<1>2. QED
  BY <1>1, DeskInvariant, PTL

\* Every change is in the report once, and counted once.
THEOREM ChangesAreReportedOnce == DeskSpec => []EveryChangeReportedOnce
<1>1. DeskInv => EveryChangeReportedOnce
  BY DEF DeskInv
<1>2. QED
  BY <1>1, DeskInvariant, PTL

\* The panel is never locked without an answer to wait for.
THEOREM LockedPanelIsAnswered == DeskSpec => []ExportIsAnswered
<1>1. DeskInv => ExportIsAnswered
  BY DEF DeskInv
<1>2. QED
  BY <1>1, DeskInvariant, PTL

=============================================================================
