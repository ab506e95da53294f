------------------------- MODULE PerfSessionProofs -------------------------
(***************************************************************************)
(* What PerfSession promises for every value of its constants, and what    *)
(* PerfView renders of it.  The page's lists and scores are computed       *)
(* beside the trackers, from what a step changed: EpisodeStory and Tells   *)
(* say how far they have followed.                                         *)
(***************************************************************************)
EXTENDS PerfView, SequenceTheorems, FiniteSetTheorems, TLAPS

USE PerfAssumption

-----------------------------------------------------------------------------
(* Conditions. *)

\* The worst level of two groups of conditions: a warning only if both are.
LEMMA WorstOfUnion ==
    ASSUME NEW A, NEW B
    PROVE  Worst(A \cup B) = IF Worst(B) = "critical" THEN "critical" ELSE Worst(A)
BY DEF Worst

\* A group of conditions is a warning or critical.
LEMMA WorstIsALevel == ASSUME NEW A PROVE Worst(A) \in Level
BY DEF Worst, Level

\* Whatever the windows hold, an analysis finds keys, and keys only.
LEMMA ConditionsAreKeys ==
    ASSUME NEW windows, NEW extended, NEW top \in Package \cup {NoApps}
    PROVE  Conditions(windows, extended, top) \in SUBSET Key
<1>1. ASSUME NEW m \in Windowed
      PROVE  MetricConditions(m, windows[m]) \subseteq MetricKey
  BY <1>1 DEF MetricConditions, Findings, MetricKey, EpisodeMetric, Level
<1>2. ProcessConditions(extended) \subseteq MetricKey
  BY DEF ProcessConditions, Findings, MetricKey, EpisodeMetric, Level
<1>3. AppConditions(top) \subseteq AppKey
  BY DEF AppConditions, AppKey
<1> QED BY <1>1, <1>2, <1>3 DEF Conditions, Key

\* The keys of an episode are those of the metrics: no application among them.
LEMMA EpisodeKeysAreMetric ==
    ASSUME NEW keys \in SUBSET Key PROVE EpisodeKeys(keys) \in SUBSET MetricKey
<1>1. "application" \notin EpisodeMetric BY DEF EpisodeMetric, Windowed
<1>2. \A k \in AppKey : k.metric = "application" BY DEF AppKey
<1> QED BY <1>1, <1>2 DEF EpisodeKeys, Key

\* A metric condition is an episode condition.
LEMMA MetricKeysAreEpisodes ==
    ASSUME NEW keys \in SUBSET MetricKey PROVE EpisodeKeys(keys) = keys
BY DEF EpisodeKeys, MetricKey

-----------------------------------------------------------------------------
(* One analysis: the trackers' step. *)

\* A record that says it is open is an open episode.
LEMMA OpenIsOpen ==
    ASSUME NEW e \in OpenEpisode \cup {NoEpisode}, e.open PROVE e \in OpenEpisode
BY DEF NoEpisode

EpisodeOK == episode \in OpenEpisode \cup {NoEpisode}

\* Absorbing the conditions started keeps what was held, adds what started,
\* and leaves an episode as severe as the worst it has seen.
LEMMA AbsorbHoldsStarted ==
    ASSUME EpisodeOK, counter \in Nat, episode.open => episode.severity = Worst(episode.seen),
           NEW started \in SUBSET MetricKey
    PROVE  LET a == Absorb(started)
           IN  /\ a \in OpenEpisode \cup {NoEpisode}
               /\ a.open <=> episode.open \/ started # {}
               /\ a.open => a.severity = Worst(a.seen)
               /\ episode.open => a.open /\ a.id = episode.id /\ a.held = episode.held \cup started
               /\ ~episode.open /\ a.open => a.id = counter + 1 /\ a.held = started
<1>1. CASE started = {}
  BY <1>1 DEF Absorb, EpisodeOK, OpenEpisode, NoEpisode
<1>2. CASE started # {} /\ episode.open
  <2>1. episode \in OpenEpisode BY <1>2 DEF EpisodeOK, NoEpisode
  <2>2. PICK a : a = Absorb(started) OBVIOUS
  <2>3. a = [episode EXCEPT !.held = @ \cup started, !.seen = @ \cup started,
                 !.severity = IF Worst(started) = "critical" THEN "critical" ELSE @]
    BY <1>2, <2>2 DEF Absorb
  <2>4. /\ a.open = TRUE /\ a.id = episode.id
        /\ a.held = episode.held \cup started /\ a.seen = episode.seen \cup started
        /\ a.severity = IF Worst(started) = "critical" THEN "critical" ELSE episode.severity
    BY <2>1, <2>3 DEF OpenEpisode
  <2>5. a \in OpenEpisode
    BY <2>1, <2>3 DEF OpenEpisode, Level
  <2>6. a.severity = Worst(a.seen)
    BY <1>2, <2>4, WorstOfUnion
  <2> QED BY <1>2, <2>2, <2>4, <2>5, <2>6
<1>3. CASE started # {} /\ ~episode.open
  <2>1. Absorb(started) = [open |-> TRUE, id |-> counter + 1, held |-> started,
                           seen |-> started, severity |-> Worst(started)]
    BY <1>3 DEF Absorb
  <2> QED BY <1>3, <2>1, WorstIsALevel DEF OpenEpisode
<1> QED BY <1>1, <1>2, <1>3

\* Retention drops the oldest record and invents none.
LEMMA RetainKeepsRecords ==
    ASSUME NEW s \in Seq(EpisodeRecord), NEW r \in EpisodeRecord
    PROVE  LET t == Retain(Append(s, r))
           IN  /\ t \in Seq(EpisodeRecord)
               /\ \A i \in DOMAIN t : t[i] = r \/ \E j \in DOMAIN s : t[i] = s[j]
<1>1. PICK a : a = Append(s, r) OBVIOUS
<1>2. a \in Seq(EpisodeRecord) /\ a # <<>> /\ Len(a) = Len(s) + 1
  BY <1>1
<1>3. \A i \in DOMAIN a : a[i] = r \/ \E j \in DOMAIN s : a[i] = s[j]
  BY <1>1
<1>4. Tail(a) \in Seq(EpisodeRecord)
  BY <1>2
<1>5. \A i \in DOMAIN Tail(a) : i + 1 \in DOMAIN a /\ Tail(a)[i] = a[i + 1]
  BY <1>2
<1> QED BY <1>1, <1>2, <1>3, <1>4, <1>5 DEF Retain

-----------------------------------------------------------------------------
(* The inductive invariant.  NoEpisodeWithoutSession holds because a closed  *)
(* session has empty windows: an analysis then finds applications only, and  *)
(* those form no episode.                                                    *)

\* While no session is open there is nothing to analyse.
ClosedIsEmpty ==
    /\ serial = NoSerial => window = EmptyWindows /\ processes = NoProcesses
    /\ link = "live" => serial \in Serial
    /\ link = "lost" => serial = NoSerial

PerfInv ==
    /\ PerfTypeOK
    /\ EpisodeHoldsConditions
    /\ SeverityIsWorstSeen
    /\ NoEpisodeWithoutSession
    /\ ClosedIsEmpty

\* What an update of the episodes leaves, of the episode that absorbed the starts.
LEMMA EpisodesUpdated ==
    ASSUME NEW started, NEW recovered, UpdateEpisodes(started, recovered),
           Absorb(started) \in OpenEpisode \cup {NoEpisode},
           Absorb(started).open <=> episode.open \/ started # {}
    PROVE  LET a == Absorb(started)
               held == IF a.open THEN a.held \ recovered ELSE {}
           IN  /\ counter' = IF a.open /\ ~episode.open THEN counter + 1 ELSE counter
               /\ episode' = IF held = {} THEN NoEpisode ELSE [a EXCEPT !.held = held]
               /\ completed' = IF a.open /\ held = {}
                               THEN Retain(Append(completed, [id |-> a.id, seen |-> a.seen,
                                                              severity |-> a.severity]))
                               ELSE completed
<1>1. PICK a : a = Absorb(started)
  OBVIOUS
<1>2. PICK held : held = IF a.open THEN a.held \ recovered ELSE {}
  OBVIOUS
<1>3. /\ counter' = IF ~episode.open /\ started # {} THEN counter + 1 ELSE counter
      /\ episode' = IF a.open /\ a.held \ recovered # {}
                    THEN [a EXCEPT !.held = a.held \ recovered] ELSE NoEpisode
      /\ completed' = IF a.open /\ ~episode'.open
                      THEN Retain(Append(completed, [id |-> a.id, seen |-> a.seen,
                                                     severity |-> a.severity]))
                      ELSE completed
  BY <1>1 DEF UpdateEpisodes
<1>4. episode' = IF held = {} THEN NoEpisode ELSE [a EXCEPT !.held = held]
  BY <1>2, <1>3
<1>5. a.open => (episode'.open <=> held # {})
  <2>1. ASSUME a.open, held # {} PROVE episode'.open
    <3>1. a \in OpenEpisode
      BY <1>1, <2>1, OpenIsOpen
    <3> QED BY <1>4, <2>1, <3>1 DEF OpenEpisode
  <2>2. held = {} => ~episode'.open
    BY <1>4 DEF NoEpisode
  <2> QED BY <2>1, <2>2
<1> QED BY <1>1, <1>2, <1>3, <1>4, <1>5

\* What an analysis leaves as it was or as it found it, given what it found.
LEMMA AnalysisStep ==
    ASSUME PerfTypeOK, EpisodeHoldsConditions, SeverityIsWorstSeen,
           background' \in Package \cup {NoApps}, Analyze
    PROVE  /\ active' \in SUBSET Key
           /\ counter' \in Nat
           /\ episode' \in OpenEpisode \cup {NoEpisode}
           /\ completed' \in Seq(EpisodeRecord)
           /\ EpisodeHoldsConditions'
           /\ SeverityIsWorstSeen'
           /\ episode.open /\ EpisodeKeys(active') # {} => episode'.open /\ episode'.id = episode.id
<1> DEFINE started == EpisodeKeys(active' \ active)
           recovered == EpisodeKeys(active \ active')
           a == Absorb(started)
           held == IF a.open THEN a.held \ recovered ELSE {}
           record == [id |-> a.id, seen |-> a.seen, severity |-> a.severity]
<1>1. active' \in SUBSET Key /\ active \in SUBSET Key
  BY ConditionsAreKeys DEF Analyze, PerfTypeOK
<1>2. started \in SUBSET MetricKey /\ recovered \in SUBSET MetricKey
  BY <1>1, EpisodeKeysAreMetric
<1>3. EpisodeKeys(active') = (EpisodeKeys(active) \cup started) \ recovered
  BY DEF EpisodeKeys
<1>4. /\ a \in OpenEpisode \cup {NoEpisode}
      /\ a.open <=> episode.open \/ started # {}
      /\ a.open => a.severity = Worst(a.seen)
      /\ episode.open => a.open /\ a.id = episode.id /\ a.held = episode.held \cup started
      /\ ~episode.open /\ a.open => a.id = counter + 1 /\ a.held = started
  BY <1>2, AbsorbHoldsStarted DEF EpisodeOK, PerfTypeOK, SeverityIsWorstSeen
<1>5. /\ counter' = IF a.open /\ ~episode.open THEN counter + 1 ELSE counter
      /\ episode' = IF held = {} THEN NoEpisode ELSE [a EXCEPT !.held = held]
      /\ completed' = IF a.open /\ held = {} THEN Retain(Append(completed, record)) ELSE completed
  BY <1>4, EpisodesUpdated DEF Analyze
<1>6. held = EpisodeKeys(active')
  BY <1>3, <1>4 DEF EpisodeHoldsConditions
<1>7. counter' \in Nat
  BY <1>5 DEF PerfTypeOK
<1>8. ASSUME held # {}
      PROVE  /\ episode' \in OpenEpisode
             /\ episode'.open /\ episode'.id = a.id /\ episode'.held = held
             /\ episode'.severity = Worst(episode'.seen)
             /\ a.open
  <2>1. a.open BY <1>8
  <2>2. a \in OpenEpisode BY <1>4, <2>1, OpenIsOpen
  <2>3. held \in SUBSET MetricKey BY <2>1, <2>2 DEF OpenEpisode
  <2>4. episode' = [a EXCEPT !.held = held] BY <1>5, <1>8
  <2>5. /\ episode' \in OpenEpisode
        /\ episode'.open = a.open /\ episode'.id = a.id /\ episode'.held = held
        /\ episode'.seen = a.seen /\ episode'.severity = a.severity
    BY <2>2, <2>3, <2>4 DEF OpenEpisode
  <2> QED BY <1>4, <2>1, <2>5
<1>9. held = {} => episode' = NoEpisode /\ ~episode'.open
  BY <1>5 DEF NoEpisode
<1>10. episode' \in OpenEpisode \cup {NoEpisode}
  BY <1>8, <1>9
<1>11. EpisodeHoldsConditions'
  BY <1>6, <1>8, <1>9 DEF EpisodeHoldsConditions
<1>12. episode.open /\ EpisodeKeys(active') # {} => episode'.open /\ episode'.id = episode.id
  BY <1>4, <1>6, <1>8
<1>13. completed' \in Seq(EpisodeRecord)
       /\ \A i \in DOMAIN completed' : completed'[i].severity = Worst(completed'[i].seen)
  <2>1. CASE a.open /\ held = {}
    <3>1. a \in OpenEpisode BY <1>4, <2>1, OpenIsOpen
    <3>2. record \in EpisodeRecord /\ record.severity = Worst(record.seen)
      BY <1>4, <2>1, <3>1 DEF OpenEpisode, EpisodeRecord
    <3>3. completed \in Seq(EpisodeRecord) BY DEF PerfTypeOK
    <3>4. completed' = Retain(Append(completed, record)) BY <1>5, <2>1
    <3>5. /\ completed' \in Seq(EpisodeRecord)
          /\ \A i \in DOMAIN completed' : completed'[i] = record
                \/ \E j \in DOMAIN completed : completed'[i] = completed[j]
      <4> HIDE DEF record
      <4> QED BY <3>2, <3>3, <3>4, RetainKeepsRecords
    <3> HIDE DEF record
    <3> QED BY <3>2, <3>5 DEF SeverityIsWorstSeen
  <2>2. CASE ~(a.open /\ held = {})
    BY <1>5, <2>2 DEF PerfTypeOK, SeverityIsWorstSeen
  <2> QED BY <2>1, <2>2
<1>14. SeverityIsWorstSeen'
  BY <1>8, <1>9, <1>13 DEF SeverityIsWorstSeen
<1> HIDE DEF started, recovered, a, held, record
<1> QED BY <1>1, <1>7, <1>10, <1>11, <1>12, <1>13, <1>14

\* An analysis of a closed session opens no episode.
LEMMA ClosedAnalysis ==
    ASSUME PerfTypeOK, Analyze, window' = EmptyWindows, processes' = NoProcesses,
           background' \in Package \cup {NoApps}
    PROVE  EpisodeKeys(active') = {}
<1>1. \A m \in Windowed : MetricConditions(m, window'[m]) = {}
  BY DEF EmptyWindows, MetricConditions, Findings
<1>2. ProcessConditions(processes') = {}
  BY DEF NoProcesses, ProcessConditions, Findings
<1>3. active' = AppConditions(background')
  BY <1>1, <1>2 DEF Analyze, Conditions
<1>4. "application" \notin EpisodeMetric
  BY DEF EpisodeMetric, Windowed
<1> QED BY <1>3, <1>4 DEF AppConditions, EpisodeKeys

\* Recording keeps the windows bounded and within their types.
LEMMA RecordTypes ==
    ASSUME PerfTypeOK, NEW readings, NEW count \in MaybeReading("process"),
           NEW network \in BOOLEAN,
           \A m \in DOMAIN readings : readings[m] \in Nat \cup {NoReading},
           Record(readings, count, network)
    PROVE  /\ window' \in [Windowed -> Seq(Nat)]
           /\ \A m \in Windowed : Len(window'[m]) <= WindowSize
           /\ processes' \in [count : 0 .. WindowSize, latest : MaybeReading("process")]
           /\ sources' \subseteq MaybeSerial
           /\ serial' = serial
<1>1. ASSUME NEW m \in Windowed, m \in DOMAIN readings
      PROVE  /\ AddSample(window[m], readings[m]) \in Seq(Nat)
             /\ Len(AddSample(window[m], readings[m])) <= WindowSize
  <2>1. window[m] \in Seq(Nat) /\ Len(window[m]) <= WindowSize BY DEF PerfTypeOK
  <2>2. readings[m] \in Nat \cup {NoReading} BY <1>1
  <2>3. PICK s : s = window[m] OBVIOUS
  <2>4. PICK r : r = readings[m] OBVIOUS
  <2>5. CASE AddSample(s, r) = s BY <2>1, <2>2, <2>3, <2>4, <2>5
  <2>6. CASE AddSample(s, r) = Append(s, r) /\ Len(s) < WindowSize /\ r # NoReading
    BY <2>1, <2>2, <2>3, <2>4, <2>6
  <2>7. CASE AddSample(s, r) = Append(Tail(s), r) /\ Len(s) = WindowSize /\ r # NoReading
    <3>1. s # <<>> BY <2>1, <2>3, <2>7
    <3>2. Tail(s) \in Seq(Nat) /\ Len(Tail(s)) = Len(s) - 1 BY <2>1, <2>3, <3>1
    <3> QED BY <2>2, <2>3, <2>4, <2>7, <3>2
  <2> QED BY <2>1, <2>3, <2>4, <2>5, <2>6, <2>7 DEF AddSample
<1>2. window' \in [Windowed -> Seq(Nat)] /\ \A m \in Windowed : Len(window'[m]) <= WindowSize
  BY <1>1 DEF Record, PerfTypeOK
<1>3. processes' \in [count : 0 .. WindowSize, latest : MaybeReading("process")]
  BY DEF Record, PerfTypeOK
<1>4. sources' \subseteq MaybeSerial /\ serial' = serial
  BY DEF Record, PerfTypeOK
<1> QED BY <1>2, <1>3, <1>4

-----------------------------------------------------------------------------
(* The invariant is inductive. *)

\* A session that has not begun has nothing to disagree about.
LEMMA PerfInitInv == PerfInit => PerfInv
BY DEF PerfInit, PerfInv, PerfTypeOK, EpisodeHoldsConditions, SeverityIsWorstSeen,
       NoEpisodeWithoutSession, ClosedIsEmpty, EmptyWindows, NoProcesses, NoEpisode,
       MaybeSerial, MaybeReading, EpisodeKeys

\* A restart of the windows, under any serial, is well typed.
LEMMA BeginTypes ==
    ASSUME PerfTypeOK, NEW s \in MaybeSerial, BeginSession(s)
    PROVE  /\ serial' = s /\ serial' \in MaybeSerial
           /\ window' = EmptyWindows /\ processes' = NoProcesses
           /\ window' \in [Windowed -> Seq(Nat)]
           /\ \A m \in Windowed : Len(window'[m]) <= WindowSize
           /\ processes' \in [count : 0 .. WindowSize, latest : MaybeReading("process")]
           /\ sources' \subseteq MaybeSerial
BY DEF BeginSession, EmptyWindows, NoProcesses, MaybeReading

\* A step that only restarts the windows, or does not touch the session.
LEMMA LifecycleInv ==
    ASSUME PerfInv, UNCHANGED <<background, active, episodeVars>>,
           link' \in {"down", "opening", "live"}, link' = "live" => serial' \in Serial,
           \/ \E s \in MaybeSerial : BeginSession(s) /\ (s = NoSerial => serial = NoSerial)
           \/ UNCHANGED sessionVars
    PROVE  PerfInv'
<1>1. serial' = NoSerial => serial = NoSerial
  BY BeginTypes DEF PerfInv, sessionVars
<1>2. PerfTypeOK'
  BY BeginTypes DEF PerfInv, PerfTypeOK, sessionVars, episodeVars
<1>3. EpisodeHoldsConditions' /\ SeverityIsWorstSeen' /\ NoEpisodeWithoutSession'
  BY <1>1 DEF PerfInv, EpisodeHoldsConditions, SeverityIsWorstSeen, NoEpisodeWithoutSession,
              episodeVars
<1>4. ClosedIsEmpty'
  BY BeginTypes DEF PerfInv, ClosedIsEmpty, sessionVars
<1> QED BY <1>2, <1>3, <1>4 DEF PerfInv

\* A step that analyses what a live session, or nothing, was given.
LEMMA AnalysisInv ==
    ASSUME PerfInv, Analyze, background' \in Package \cup {NoApps},
           /\ window' \in [Windowed -> Seq(Nat)]
           /\ \A m \in Windowed : Len(window'[m]) <= WindowSize
           /\ processes' \in [count : 0 .. WindowSize, latest : MaybeReading("process")]
           /\ sources' \subseteq MaybeSerial
           /\ serial' = serial,
           \/ link = "live" /\ link' = link
           \/ link = "lost" /\ link' = "down" /\ UNCHANGED sessionVars
    PROVE  PerfInv'
<1>1. /\ active' \in SUBSET Key /\ counter' \in Nat
      /\ episode' \in OpenEpisode \cup {NoEpisode} /\ completed' \in Seq(EpisodeRecord)
      /\ EpisodeHoldsConditions' /\ SeverityIsWorstSeen'
  BY AnalysisStep DEF PerfInv
<1>2. PerfTypeOK'
  BY <1>1 DEF PerfInv, PerfTypeOK
<1>3. link = "live" => serial' # NoSerial
  BY DEF PerfInv, ClosedIsEmpty
<1>4. ClosedIsEmpty'
  BY <1>3 DEF PerfInv, ClosedIsEmpty, sessionVars
<1>5. NoEpisodeWithoutSession'
  <2>1. CASE link = "live" BY <1>3, <2>1 DEF NoEpisodeWithoutSession
  <2>2. CASE link = "lost"
    <3>1. window' = EmptyWindows /\ processes' = NoProcesses
      BY <2>2 DEF PerfInv, ClosedIsEmpty, sessionVars
    <3>2. EpisodeKeys(active') = {}
      BY <3>1, ClosedAnalysis DEF PerfInv
    <3> QED BY <1>1, <3>2 DEF EpisodeHoldsConditions, NoEpisodeWithoutSession
  <2> QED BY <2>1, <2>2
<1> QED BY <1>1, <1>2, <1>4, <1>5 DEF PerfInv

\* Every signal keeps the trackers in step.
LEMMA PerfStepInv == PerfInv /\ [PerfNext]_perfVars => PerfInv'
<1> SUFFICES ASSUME PerfInv, [PerfNext]_perfVars PROVE PerfInv'
  OBVIOUS
<1> USE DEF MaybeSerial
<1>t. PerfTypeOK BY DEF PerfInv
<1>1. CASE OnConnected
  BY <1>1, LifecycleInv DEF OnConnected
<1>2. ASSUME NEW s \in Serial, OnSerialReady(s) PROVE PerfInv'
  <2>1. serial' = s BY <1>2 DEF OnSerialReady, BeginSession
  <2> QED BY <1>2, <2>1, LifecycleInv DEF OnSerialReady
<1>3. CASE OnDeviceLost
  <2>1. BeginSession(NoSerial) /\ active' = {} /\ counter' = 0 /\ episode' = NoEpisode
        /\ completed' = <<>> /\ background' = background
    BY <1>3 DEF OnDeviceLost, EndSession
  <2>2. link' \in {"lost", "down"} BY <1>3 DEF OnDeviceLost
  <2>3. PerfTypeOK'
    BY <1>t, <2>1, <2>2, BeginTypes DEF PerfTypeOK
  <2>4. EpisodeHoldsConditions' /\ SeverityIsWorstSeen' /\ NoEpisodeWithoutSession'
    BY <2>1 DEF EpisodeHoldsConditions, SeverityIsWorstSeen, NoEpisodeWithoutSession,
                NoEpisode, EpisodeKeys
  <2>5. ClosedIsEmpty'
    BY <1>t, <2>1, <2>2, BeginTypes DEF ClosedIsEmpty
  <2> QED BY <2>3, <2>4, <2>5 DEF PerfInv
<1>4. CASE OnConnectFailed
  BY <1>4, LifecycleInv DEF OnConnectFailed
<1>5. CASE OnSnapshots
  <2>1. PICK readings \in [Sampled -> UNION {MaybeReading(m) : m \in Sampled}],
             count \in MaybeReading("process"), network \in BOOLEAN :
               /\ \A m \in Sampled : readings[m] \in MaybeReading(m)
               /\ Record(readings, count, network)
    BY <1>5 DEF OnSnapshots
  <2>2. \A m \in Sampled : MaybeReading(m) \subseteq Nat \cup {NoReading}
    BY DEF MaybeReading, EpisodeMetric, Windowed
  <2>3. \A m \in DOMAIN readings : readings[m] \in Nat \cup {NoReading}
    BY <2>1, <2>2
  <2> QED BY <1>t, <1>5, <2>1, <2>3, RecordTypes, AnalysisInv DEF OnSnapshots, PerfTypeOK
<1>6. CASE OnStorage
  <2>1. PICK r \in MaybeReading("storage") :
               Record([m \in {"storage"} |-> r], NoReading, FALSE)
    BY <1>6 DEF OnStorage
  <2>2. r \in Nat \cup {NoReading}
    BY DEF MaybeReading, EpisodeMetric, Windowed
  <2>3. NoReading \in MaybeReading("process") BY DEF MaybeReading
  <2>4. PICK readings : readings = [m \in {"storage"} |-> r] OBVIOUS
  <2>5. \A m \in DOMAIN readings : readings[m] \in Nat \cup {NoReading}
    BY <2>2, <2>4
  <2>6. Record(readings, NoReading, FALSE) BY <2>1, <2>4
  <2> QED BY <1>t, <1>6, <2>3, <2>5, <2>6, RecordTypes, AnalysisInv DEF OnStorage, PerfTypeOK
<1>7. CASE OnBackgroundApps
  BY <1>t, <1>7, AnalysisInv DEF OnBackgroundApps, PerfTypeOK, sessionVars
<1>8. CASE OnEmptySnapshots
  BY <1>t, <1>8, AnalysisInv DEF OnEmptySnapshots, PerfTypeOK, sessionVars
<1>9. CASE UNCHANGED perfVars
  BY <1>9 DEF PerfInv, PerfTypeOK, EpisodeHoldsConditions, SeverityIsWorstSeen,
              NoEpisodeWithoutSession, ClosedIsEmpty, perfVars, sessionVars, episodeVars
<1> QED BY <1>1, <1>2, <1>3, <1>4, <1>5, <1>6, <1>7, <1>8, <1>9 DEF PerfNext

\* The trackers are in step in every state.
LEMMA PerfInvariant == PerfSpec => []PerfInv
BY PerfInitInv, PerfStepInv, PTL DEF PerfSpec

\* The orchestrator's state keeps its types and its windows their bound.
THEOREM PerfTypeCorrect == PerfSpec => []PerfTypeOK
BY PerfInvariant, PTL DEF PerfInv

\* The two trackers never drift: whatever samples, losses and reconnects
\* arrive, the open episode holds exactly the active metric conditions.
THEOREM TrackersAgree == PerfSpec => []EpisodeHoldsConditions
BY PerfInvariant, PTL DEF PerfInv

\* Every episode's severity is the worst level it has seen.
THEOREM SeverityTracksWorst == PerfSpec => []SeverityIsWorstSeen
BY PerfInvariant, PTL DEF PerfInv

\* A closed session holds no open episode, not even after the empty snapshots
\* that follow the loss have been analysed.
THEOREM EpisodesEndWithTheSession == PerfSpec => []NoEpisodeWithoutSession
BY PerfInvariant, PTL DEF PerfInv

\* Between two steps of a session an episode is closed only when no metric
\* condition is left: an escalation in one tick never splits it.
THEOREM EscalationsDoNotSplit == PerfSpec => EscalationKeepsEpisode
<1>1. PerfInv /\ [PerfNext]_perfVars =>
        [episode.open /\ EpisodeKeys(active') # {}
           => episode'.open /\ episode'.id = episode.id]_perfVars
  <2> SUFFICES ASSUME PerfInv, PerfNext, episode.open, EpisodeKeys(active') # {}
               PROVE  episode'.open /\ episode'.id = episode.id
    OBVIOUS
  <2>1. CASE Analyze /\ background' \in Package \cup {NoApps}
    BY <2>1, AnalysisStep DEF PerfInv
  <2>2. CASE UNCHANGED episodeVars BY <2>2 DEF episodeVars
  <2>3. CASE OnDeviceLost BY <2>3 DEF OnDeviceLost, EndSession, EpisodeKeys
  <2> QED
    BY <2>1, <2>2, <2>3 DEF PerfInv, PerfTypeOK, PerfNext, OnConnected, OnSerialReady, OnConnectFailed, OnSnapshots,
       OnStorage, OnBackgroundApps, OnEmptySnapshots
<1> QED BY <1>1, PerfInvariant, PTL DEF PerfSpec, EscalationKeepsEpisode


-----------------------------------------------------------------------------
(* Whose samples the windows hold, and which episodes are listed. *)

\* The windows never mix the samples of two phones, whichever way a session
\* ends and whoever connects next.
THEOREM WindowsAreOfOnePhone == PerfSpec => []WindowsOfOnePhone
<1>1. PerfInit => WindowsOfOnePhone
  BY DEF PerfInit, WindowsOfOnePhone
<1>2. WindowsOfOnePhone /\ [PerfNext]_perfVars => WindowsOfOnePhone'
  <2> SUFFICES ASSUME WindowsOfOnePhone, [PerfNext]_perfVars PROVE WindowsOfOnePhone'
    OBVIOUS
  <2>1. ASSUME NEW s, BeginSession(s) PROVE WindowsOfOnePhone'
    BY <2>1 DEF BeginSession, WindowsOfOnePhone
  <2>2. ASSUME NEW readings, NEW count, NEW network, Record(readings, count, network)
        PROVE  WindowsOfOnePhone'
    BY <2>2 DEF Record, WindowsOfOnePhone
  <2>3. CASE UNCHANGED sessionVars
    BY <2>3 DEF sessionVars, WindowsOfOnePhone
  <2> QED
    BY <2>1, <2>2, <2>3 DEF PerfNext, OnConnected, OnSerialReady, OnDeviceLost, EndSession,
       OnConnectFailed, OnSnapshots, OnStorage, OnBackgroundApps, OnEmptySnapshots, perfVars
<1> QED BY <1>1, <1>2, PTL DEF PerfSpec

\* The number of episodes that were completed in the session.
Closed == IF episode.open THEN counter - 1 ELSE counter

\* The inductive form: the list is full, or it holds every completed episode.
Accounted ==
    /\ Len(completed) <= Retention
    /\ \A i \in DOMAIN completed : completed[i].id + (Len(completed) - i) = Closed
    /\ episode.open => episode.id = counter
    /\ Len(completed) < Retention => Len(completed) = Closed

\* Retention lets a full list drop its first record, and keeps any other.
LEMMA RetainIsASuffix ==
    ASSUME NEW s \in Seq(EpisodeRecord), NEW r \in EpisodeRecord, Len(s) <= Retention
    PROVE  LET t == Retain(Append(s, r))
           IN  /\ t \in Seq(EpisodeRecord)
               /\ Len(s) < Retention => Len(t) = Len(s) + 1
               /\ Len(s) = Retention => Len(t) = Retention
               /\ \A i \in DOMAIN t :
                     LET k == i + Len(s) + 1 - Len(t)
                     IN  t[i] = IF k = Len(s) + 1 THEN r ELSE s[k]
<1>1. PICK a : a = Append(s, r) OBVIOUS
<1>2. /\ a \in Seq(EpisodeRecord) /\ a # <<>> /\ Len(a) = Len(s) + 1
      /\ \A k \in 1 .. Len(a) : a[k] = IF k = Len(s) + 1 THEN r ELSE s[k]
  BY <1>1
<1>3. CASE Len(s) < Retention
  <2>1. Retain(a) = a BY <1>2, <1>3 DEF Retain
  <2> QED BY <1>1, <1>2, <1>3, <2>1
<1>4. CASE Len(s) = Retention
  <2>1. Retain(a) = Tail(a) BY <1>2, <1>4 DEF Retain
  <2>2. /\ Tail(a) \in Seq(EpisodeRecord) /\ Len(Tail(a)) = Retention
        /\ \A i \in 1 .. Retention : Tail(a)[i] = a[i + 1]
    BY <1>2, <1>4
  <2>3. \A i \in DOMAIN Tail(a) : i + Len(s) + 1 - Len(Tail(a)) = i + 1
    BY <1>4, <2>2
  <2>4. ASSUME NEW i \in DOMAIN Tail(a)
        PROVE  Tail(a)[i] = IF i + 1 = Len(s) + 1 THEN r ELSE s[i + 1]
    BY <1>2, <1>4, <2>2, PerfAssumption
  <2>5. \A i \in DOMAIN Tail(a) :
           LET k == i + Len(s) + 1 - Len(Tail(a))
           IN  Tail(a)[i] = IF k = Len(s) + 1 THEN r ELSE s[k]
    <3> TAKE i \in DOMAIN Tail(a)
    <3> QED BY <2>3, <2>4
  <2>6. Retain(Append(s, r)) = Tail(a) BY <1>1, <2>1
  <2> HIDE DEF Retain
  <2>7. Tail(a) \in Seq(EpisodeRecord) /\ Len(Tail(a)) = Retention /\ ~(Len(s) < Retention)
    BY <1>4, <2>2, PerfAssumption
  <2> QED BY <2>5, <2>6, <2>7
<1> QED BY <1>3, <1>4

\* Every completed episode has a number.
LEMMA CompletedAreNumbered ==
    ASSUME PerfInv, NEW i \in DOMAIN completed PROVE completed[i].id \in Nat
<1>1. completed \in Seq(EpisodeRecord) BY DEF PerfInv, PerfTypeOK
<1>2. completed[i] \in EpisodeRecord BY <1>1
<1> QED BY <1>2 DEF EpisodeRecord

\* An analysis lists the episode it closes and numbers the one it opens.
LEMMA AnalysisAccounts ==
    ASSUME PerfInv, Accounted, Analyze, background' \in Package \cup {NoApps}
    PROVE  Accounted'
<1> DEFINE started == EpisodeKeys(active' \ active)
           recovered == EpisodeKeys(active \ active')
           a == Absorb(started)
           held == IF a.open THEN a.held \ recovered ELSE {}
           record == [id |-> a.id, seen |-> a.seen, severity |-> a.severity]
<1>1. started \in SUBSET MetricKey
  BY ConditionsAreKeys, EpisodeKeysAreMetric DEF Analyze, PerfInv, PerfTypeOK
<1>2. /\ a \in OpenEpisode \cup {NoEpisode}
      /\ a.open <=> episode.open \/ started # {}
      /\ episode.open => a.open /\ a.id = episode.id
      /\ ~episode.open /\ a.open => a.id = counter + 1
  BY <1>1, AbsorbHoldsStarted DEF EpisodeOK, PerfInv, PerfTypeOK, SeverityIsWorstSeen
<1>3. /\ counter' = IF a.open /\ ~episode.open THEN counter + 1 ELSE counter
      /\ episode' = IF held = {} THEN NoEpisode ELSE [a EXCEPT !.held = held]
      /\ completed' = IF a.open /\ held = {} THEN Retain(Append(completed, record)) ELSE completed
  BY <1>2, EpisodesUpdated DEF Analyze
<1>4. counter \in Nat /\ completed \in Seq(EpisodeRecord) /\ Closed \in Int
  BY DEF PerfInv, PerfTypeOK, Closed
<1>5. a.open => a.id = counter' /\ Closed = counter' - 1
  BY <1>2, <1>3, <1>4 DEF Accounted, Closed
<1>6. ~a.open => ~episode.open /\ counter' = counter
  BY <1>2, <1>3
<1>7. ASSUME held # {} PROVE episode'.open /\ episode'.id = a.id /\ a.open
  <2>1. a.open BY <1>7
  <2>2. a \in OpenEpisode BY <1>2, <2>1, OpenIsOpen
  <2>3. episode' = [a EXCEPT !.held = held] BY <1>3, <1>7
  <2> QED BY <2>1, <2>2, <2>3 DEF OpenEpisode
<1>8. held = {} => ~episode'.open
  BY <1>3 DEF NoEpisode
<1>9. CASE a.open /\ held = {}
  <2>1. record \in EpisodeRecord /\ record.id = a.id
    BY <1>2, <1>9, OpenIsOpen DEF OpenEpisode, EpisodeRecord
  <2>2. completed' = Retain(Append(completed, record)) BY <1>3, <1>9
  <2>3. Closed' = counter' /\ Closed' = Closed + 1
    <3>1. counter' \in Nat BY <1>3, <1>4
    <3>2. ~episode'.open /\ Closed = counter' - 1 BY <1>5, <1>8, <1>9
    <3>3. Closed' = counter' BY <3>1, <3>2 DEF Closed
    <3>4. counter' = Closed + 1
      <4>1. PICK n \in Nat : n = counter' BY <3>1
      <4>2. Closed = n - 1 BY <3>2, <4>1
      <4>3. n = (n - 1) + 1 OBVIOUS
      <4> QED BY <4>1, <4>2, <4>3, Zenon
    <3> QED BY <3>3, <3>4
  <2> HIDE DEF started, recovered, a, held, record
  <2>4. PICK r \in EpisodeRecord : r = record /\ r.id = Closed'
    BY <1>5, <1>9, <2>1, <2>3
  <2>5. /\ completed' \in Seq(EpisodeRecord)
        /\ Len(completed) < Retention => Len(completed') = Len(completed) + 1
        /\ Len(completed) = Retention => Len(completed') = Retention
        /\ \A i \in DOMAIN completed' :
              LET k == i + Len(completed) + 1 - Len(completed')
              IN  completed'[i] = IF k = Len(completed) + 1 THEN r ELSE completed[k]
    BY <1>4, <2>2, <2>4, RetainIsASuffix DEF Accounted
  <2>6. Len(completed') <= Retention /\ (Len(completed') < Retention => Len(completed') = Closed')
    BY <1>4, <2>3, <2>5 DEF Accounted
  <2>7. ASSUME NEW i \in DOMAIN completed'
        PROVE  completed'[i].id + (Len(completed') - i) = Closed'
    <3> DEFINE k == i + Len(completed) + 1 - Len(completed')
    <3>1. k \in 1 .. Len(completed) + 1 /\ i \in Nat /\ i <= Len(completed')
      BY <1>4, <2>5 DEF Accounted
    <3>2. CASE k = Len(completed) + 1
      BY <1>4, <2>3, <2>4, <2>5, <3>1, <3>2
    <3>3. CASE k # Len(completed) + 1
      <4>1. k \in DOMAIN completed /\ completed'[i] = completed[k]
        BY <1>4, <2>5, <3>1, <3>3
      <4>2. completed[k].id + (Len(completed) - k) = Closed
        BY <4>1 DEF Accounted
      <4>3. completed[k].id \in Nat
        BY <4>1, CompletedAreNumbered
      <4>4. completed'[i].id = Closed - (Len(completed) - k)
        BY <1>4, <4>1, <4>2, <4>3
      <4>5. Len(completed) - k = Len(completed') - i - 1
        BY <1>4, <2>5, <3>1
      <4>6. Closed + 1 - (Len(completed') - i) + (Len(completed') - i) = Closed + 1
        BY <1>4, <2>5, <3>1
      <4> QED BY <1>4, <2>3, <2>5, <3>1, <4>4, <4>5, <4>6
    <3> QED BY <3>2, <3>3
  <2> QED BY <1>8, <1>9, <2>6, <2>7 DEF Accounted
<1>10. CASE a.open /\ held # {}
  <2>1. completed' = completed /\ Closed' = Closed BY <1>3, <1>4, <1>5, <1>7, <1>10 DEF Closed
  <2> QED BY <1>5, <1>7, <1>10, <2>1 DEF Accounted
<1>11. CASE ~a.open
  <2>1. held = {} BY <1>11
  <2>2. completed' = completed /\ Closed' = Closed BY <1>3, <1>6, <1>8, <1>11, <2>1 DEF Closed
  <2> QED BY <1>8, <2>1, <2>2 DEF Accounted
<1> QED BY <1>9, <1>10, <1>11

\* The inductive form holds in every state.
LEMMA RecordsAccounted == PerfSpec => []Accounted
<1>1. PerfInit => Accounted
  BY PerfAssumption DEF PerfInit, Accounted, Closed, NoEpisode
<1>2. PerfInv /\ Accounted /\ [PerfNext]_perfVars => Accounted'
  <2> SUFFICES ASSUME PerfInv, Accounted, [PerfNext]_perfVars PROVE Accounted'
    OBVIOUS
  <2>1. CASE Analyze /\ background' \in Package \cup {NoApps}
    BY <2>1, AnalysisAccounts
  <2>2. CASE UNCHANGED episodeVars
    BY <2>2 DEF episodeVars, Accounted, Closed
  <2>3. CASE OnDeviceLost
    BY <2>3, PerfAssumption DEF OnDeviceLost, EndSession, Accounted, Closed, NoEpisode
  <2> QED
    BY <2>1, <2>2, <2>3 DEF PerfInv, PerfTypeOK, PerfNext, OnConnected, OnSerialReady,
       OnConnectFailed, OnSnapshots, OnStorage, OnBackgroundApps, OnEmptySnapshots, perfVars
<1> QED BY <1>1, <1>2, PerfInvariant, PTL DEF PerfSpec

\* The list of completed episodes is the newest ones without a gap, up to the
\* open one, however many were closed and cut.
THEOREM EpisodesAreListed == PerfSpec => []EpisodesAccountedFor
<1>1. PerfInv /\ Accounted => EpisodesAccountedFor
  <2> SUFFICES ASSUME PerfInv, Accounted PROVE EpisodesAccountedFor
    OBVIOUS
  <2>1. completed \in Seq(EpisodeRecord) /\ counter \in Nat
    BY DEF PerfInv, PerfTypeOK
  <2> QED BY <2>1, CompletedAreNumbered DEF Accounted, Closed, EpisodesAccountedFor
<1> QED BY <1>1, RecordsAccounted, PerfInvariant, PTL

-----------------------------------------------------------------------------
(* The page: scores and metrics. *)

Percent == 0 .. 100

\* The metrics an episode may have.
LEMMA MetricsKnown == EpisodeMetric \subseteq {"cpu", "memory", "storage", "process"}
BY DEF EpisodeMetric, Windowed

\* A score is a percentage.
LEMMA ScoreIsPercent == ASSUME NEW bands PROVE ScoreOf(bands) \in Percent
<1> DEFINE Lost(m) == IF m \in DOMAIN bands THEN Penalty(m, bands[m]) ELSE 0
<1>1. \A m \in {"cpu", "memory", "storage", "process", "battery"} : Lost(m) \in Nat
  BY DEF Penalty, MaxPenalty, HalfPenalty
<1> HIDE DEF Lost
<1>2. PICK left : left = 100 - (Lost("cpu") + Lost("memory") + Lost("storage")
                                + Lost("process") + Lost("battery"))
  OBVIOUS
<1>3. left \in Int /\ left <= 100
  BY <1>1, <1>2
<1>4. ScoreOf(bands) = Greatest({0, left})
  BY <1>2 DEF ScoreOf, Lost
<1>5. \E x \in {0, left} : \A y \in {0, left} : y <= x
  BY <1>3
<1>6. Greatest({0, left}) \in {0, left} /\ 0 <= Greatest({0, left})
  BY <1>5 DEF Greatest
<1> QED BY <1>3, <1>4, <1>6 DEF Percent

\* The score of a session without samples is full.
LEMMA EmptyScore == TickScore(EmptyWindows, NoProcesses) = 100
<1> DEFINE bands == BandsOf(EmptyWindows, NoProcesses)
           Lost(m) == IF m \in DOMAIN bands THEN Penalty(m, bands[m]) ELSE 0
<1>1. \A m \in EpisodeMetric : bands[m] = "UNKNOWN"
  BY DEF BandsOf, EmptyWindows, NoProcesses, LatestOf, Band, EpisodeMetric
<1>2. DOMAIN bands = EpisodeMetric
  BY DEF BandsOf
<1> HIDE DEF bands
<1>3. \A m : Lost(m) = 0
  BY <1>1, <1>2 DEF Penalty
<1>4. ScoreOf(bands) = Greatest({0, 100})
  <2>1. ScoreOf(bands) = Greatest({0, 100 - (Lost("cpu") + Lost("memory") + Lost("storage")
                                             + Lost("process") + Lost("battery"))})
    BY DEF ScoreOf
  <2> HIDE DEF Lost
  <2>2. PICK left : left = 100 - (Lost("cpu") + Lost("memory") + Lost("storage")
                                  + Lost("process") + Lost("battery"))
    OBVIOUS
  <2>3. left = 100
    BY <1>3, <2>2
  <2>4. ScoreOf(bands) = Greatest({0, left})
    BY <2>1, <2>2
  <2> QED BY <2>3, <2>4
<1>5. Greatest({0, 100}) = 100
  <2>1. \A x \in {0, 100} : (\A y \in {0, 100} : y <= x) <=> x = 100
    OBVIOUS
  <2> QED BY <2>1 DEF Greatest
<1> QED BY <1>4, <1>5 DEF TickScore, bands

\* The primary metric of some conditions is the metric of one of them.
LEMMA PrimaryIsAMetric ==
    ASSUME NEW keys \in SUBSET MetricKey, keys # {}
    PROVE  Primary(keys) \in EpisodeMetric
<1> DEFINE places == {i \in DOMAIN MetricOrder : \E k \in keys : k.metric = MetricOrder[i]}
<1>1. DOMAIN MetricOrder = 1 .. 4
  BY DEF MetricOrder
<1>2. PICK k \in keys : k.metric \in EpisodeMetric
  BY DEF MetricKey
<1>3. \E i \in 1 .. 4 : k.metric = MetricOrder[i]
  <2>1. /\ MetricOrder[1] = "cpu" /\ MetricOrder[2] = "memory"
        /\ MetricOrder[3] = "storage" /\ MetricOrder[4] = "process"
    BY DEF MetricOrder
  <2>2. k.metric \in {"cpu", "memory", "storage", "process"}
    BY <1>2, MetricsKnown
  <2>3. 1 \in 1 .. 4 /\ 2 \in 1 .. 4 /\ 3 \in 1 .. 4 /\ 4 \in 1 .. 4
    OBVIOUS
  <2> QED BY <2>1, <2>2, <2>3, Zenon
<1>4. places # {} /\ places \subseteq 1 .. 4
  BY <1>1, <1>3
<1>5. \A i \in places : MetricOrder[i] \in EpisodeMetric
  BY DEF MetricKey
<1> HIDE DEF places
<1>6. \E x \in places : \A y \in places : x <= y
  <2>1. places \subseteq {1, 2, 3, 4}
    BY <1>4
  <2>2. CASE 1 \in places
    BY <2>1, <2>2
  <2>3. CASE 1 \notin places /\ 2 \in places
    BY <2>1, <2>3
  <2>4. CASE 1 \notin places /\ 2 \notin places /\ 3 \in places
    BY <2>1, <2>4
  <2>5. CASE 1 \notin places /\ 2 \notin places /\ 3 \notin places
    <3>1. PICK x : x \in places
      BY <1>4
    <3>2. \A y \in places : y = 4
      BY <2>1, <2>5
    <3> QED BY <3>1, <3>2
  <2> QED BY <2>2, <2>3, <2>4, <2>5
<1>7. Least(places) \in places
  BY <1>6 DEF Least
<1>8. Primary(keys) = MetricOrder[Least(places)]
  BY DEF Primary, places
<1> QED BY <1>5, <1>7, <1>8

-----------------------------------------------------------------------------
(* The page: the episodes and their scores.   *)

OpenDetails == [began : Nat, metric : EpisodeMetric, start : Percent, low : Percent]
Details == [id : Nat, began : Nat, ended : Nat, metric : EpisodeMetric,
            scores : [start : Percent, low : Percent, recovery : Percent]]

\* A completed episode starts and ends at or above its lowest score.
InOrder(d) ==
    d.scores.low <= d.scores.start /\ d.scores.low <= d.scores.recovery

Chronicle(list) ==
    /\ list \in Seq(Details)
    /\ \A i \in DOMAIN list : InOrder(list[i])

EpisodeStory ==
    /\ clock \in Nat
    /\ opened \in IF episode.open THEN OpenDetails ELSE {Absent}
    /\ Chronicle(details)
    /\ episode.open =>
          opened.low <= opened.start /\ opened.low <= TickScore(window, processes)

\* There is a value of an open episode exactly while one is open.
LEMMA OpenedIsOpen ==
    ASSUME EpisodeStory PROVE opened # Absent <=> episode.open
BY ViewAssumption DEF EpisodeStory, OpenDetails, Opened, Percent

\* Adding an episode in order, the oldest makes room for it.
LEMMA ChronicleGoesOn ==
    ASSUME NEW list, Chronicle(list), NEW d \in Details, InOrder(d)
    PROVE  Chronicle(Retain(Append(list, d)))
<1>1. PICK a : a = Append(list, d)
  OBVIOUS
<1>2. /\ list \in Seq(Details) /\ Len(list) \in Nat
      /\ a \in Seq(Details) /\ Len(a) = Len(list) + 1 /\ a[Len(list) + 1] = d
      /\ \A i \in 1 .. Len(list) : a[i] = list[i]
  BY <1>1, AppendProperties, LenProperties DEF Chronicle
<1>3. ASSUME NEW i \in 1 .. Len(a) PROVE InOrder(a[i])
  <2>1. CASE i = Len(list) + 1
    BY <1>2, <2>1
  <2>2. CASE i # Len(list) + 1
    <3>1. i \in 1 .. Len(list) /\ a[i] = list[i]
      BY <1>2, <1>3, <2>2
    <3>2. InOrder(list[i])
      BY <1>2, <3>1, LenProperties DEF Chronicle
    <3> QED BY <3>1, <3>2
  <2> QED BY <2>1, <2>2
<1>4. CASE Retain(a) = a
  BY <1>1, <1>2, <1>3, <1>4 DEF Chronicle
<1>5. CASE Retain(a) = Tail(a)
  <2>1. PICK t : t = Tail(a)
    OBVIOUS
  <2>2. /\ t \in Seq(Details) /\ Len(t) = Len(a) - 1
        /\ \A i \in 1 .. Len(t) : t[i] = a[i + 1]
    BY <1>2, <2>1, HeadTailProperties, EmptySeq
  <2>3. ASSUME NEW i \in 1 .. Len(t) PROVE InOrder(t[i])
    <3>1. i + 1 \in 1 .. Len(a) /\ t[i] = a[i + 1]
      BY <1>2, <2>2
    <3> QED BY <1>3, <3>1
  <2> QED BY <1>1, <1>5, <2>1, <2>2, <2>3 DEF Chronicle
<1> QED BY <1>4, <1>5 DEF Retain

\* Whatever makes room, the episode added is the newest.
LEMMA RetainKeepsNewest ==
    ASSUME NEW list \in Seq(Details), NEW d \in Details
    PROVE  LET t == Retain(Append(list, d)) IN t[Len(t)] = d
<1>1. PICK a : a = Append(list, d)
  OBVIOUS
<1>2. Len(list) \in Nat /\ a \in Seq(Details) /\ Len(a) = Len(list) + 1 /\ a[Len(a)] = d
  BY <1>1, AppendProperties, LenProperties
<1>3. CASE ~(Len(a) > Retention)
  BY <1>1, <1>2, <1>3 DEF Retain
<1>4. CASE Len(a) > Retention
  <2>1. PICK t : t = Tail(a)
    OBVIOUS
  <2>2. Len(t) = Len(a) - 1 /\ \A i \in 1 .. Len(t) : t[i] = a[i + 1]
    BY <1>2, <2>1, HeadTailProperties, EmptySeq
  <2>3. Len(t) \in 1 .. Len(t)
    BY <1>2, <1>4, <2>2, PerfAssumption
  <2>4. t[Len(t)] = d
    BY <1>2, <2>2, <2>3
  <2> QED BY <1>1, <1>4, <2>1, <2>4 DEF Retain
<1> QED BY <1>3, <1>4

\* What an analysis found, and whether it opened, kept or closed an episode.
LEMMA EpisodeChanges ==
    ASSUME PerfInv, Analyze, background' \in Package \cup {NoApps}
    PROVE  /\ EpisodeKeys(active' \ active) \in SUBSET MetricKey
           /\ episode'.open <=> EpisodeKeys(active') # {}
           /\ episode.open \/ EpisodeKeys(active' \ active) # {} \/ ~episode'.open
<1>1. active' \in SUBSET Key
  BY ConditionsAreKeys DEF Analyze
<1>2. EpisodeKeys(active' \ active) \in SUBSET MetricKey
  BY <1>1, EpisodeKeysAreMetric
<1>3. EpisodeHoldsConditions'
  BY AnalysisStep DEF PerfInv
<1>4. episode'.open <=> EpisodeKeys(active') # {}
  BY <1>3 DEF EpisodeHoldsConditions
<1>5. episode.open <=> EpisodeKeys(active) # {}
  BY DEF PerfInv, EpisodeHoldsConditions
<1> QED BY <1>2, <1>4, <1>5 DEF EpisodeKeys

\* An analysis that leaves no episode open after one was, or one started, has
\* added a record to the list, and one to the number of closed episodes; any
\* other keeps the number.
LEMMA EpisodeCloses ==
    ASSUME PerfInv, Analyze, background' \in Package \cup {NoApps}
    PROVE  /\ Closed \in Int
           /\ IF ~episode'.open /\ (episode.open \/ EpisodeKeys(active' \ active) # {})
              THEN completed' # <<>> /\ Closed' = Closed + 1
              ELSE Closed' = Closed
<1> DEFINE started == EpisodeKeys(active' \ active)
           recovered == EpisodeKeys(active \ active')
           a == Absorb(started)
           held == IF a.open THEN a.held \ recovered ELSE {}
           record == [id |-> a.id, seen |-> a.seen, severity |-> a.severity]
<1>1. started \in SUBSET MetricKey
  BY EpisodeChanges
<1>2. /\ a \in OpenEpisode \cup {NoEpisode}
      /\ a.open <=> episode.open \/ started # {}
  BY <1>1, AbsorbHoldsStarted DEF EpisodeOK, PerfInv, PerfTypeOK, SeverityIsWorstSeen
<1>3. /\ counter' = IF a.open /\ ~episode.open THEN counter + 1 ELSE counter
      /\ episode' = IF held = {} THEN NoEpisode ELSE [a EXCEPT !.held = held]
      /\ completed' = IF a.open /\ held = {} THEN Retain(Append(completed, record)) ELSE completed
  BY <1>2, EpisodesUpdated DEF Analyze
<1>4. counter \in Nat /\ counter' \in Nat /\ completed \in Seq(EpisodeRecord)
  BY AnalysisStep DEF PerfInv, PerfTypeOK
<1>5. episode'.open => a.open
  BY <1>2, <1>3 DEF NoEpisode
<1>6. Closed \in Int /\ Closed' \in Int
  <2>1. PICK n \in Nat : n = counter'
    BY <1>4
  <2>2. n - 1 \in Int /\ n \in Int
    OBVIOUS
  <2> QED BY <1>4, <2>1, <2>2 DEF Closed
<1>7. ASSUME ~episode'.open, episode.open \/ started # {}
      PROVE  completed' # <<>> /\ Closed' = Closed + 1
  <2>1. a.open /\ held = {}
    <3>1. a.open
      BY <1>2, <1>7
    <3>2. a \in OpenEpisode
      BY <1>2, <3>1, OpenIsOpen
    <3>3. held # {} => episode'.open
      BY <1>3, <3>1, <3>2 DEF OpenEpisode
    <3> QED BY <1>7, <3>1, <3>3
  <2>2. record \in EpisodeRecord
    BY <1>2, <2>1, OpenIsOpen DEF OpenEpisode, EpisodeRecord
  <2>3. completed' = Retain(Append(completed, record))
    BY <1>3, <2>1
  <2>4. completed' # <<>>
    <3> HIDE DEF record
    <3>1. PICK added : added = Append(completed, record)
      OBVIOUS
    <3>2. added \in Seq(EpisodeRecord) /\ Len(added) = Len(completed) + 1 /\ added # <<>>
      BY <1>4, <2>2, <3>1
    <3>3. Len(Tail(added)) = Len(added) - 1 /\ Tail(added) \in Seq(EpisodeRecord)
      BY <3>2, HeadTailProperties
    <3>4. Len(added) > Retention => Tail(added) # <<>>
      <4>1. Len(added) \in Nat /\ Retention \in Nat \ {0}
        BY <3>2, LenProperties, PerfAssumption
      <4>2. PICK t : t = Tail(added)
        OBVIOUS
      <4>3. Len(added) > Retention => Len(t) # 0
        <5>1. PICK n \in Nat : n = Len(added)
          BY <4>1
        <5>2. Len(t) = n - 1
          BY <3>3, <4>2, <5>1
        <5>3. n > Retention => n - 1 # 0
          BY <4>1
        <5> QED BY <5>1, <5>2, <5>3
      <4>4. Len(t) # 0 => t # <<>>
        BY EmptySeq
      <4> QED BY <4>2, <4>3, <4>4
    <3> QED BY <2>3, <3>1, <3>2, <3>4 DEF Retain
  <2>5. Closed' = counter' /\ Closed = counter' - 1
    <3>1. Closed' = counter'
      BY <1>7 DEF Closed
    <3>2. CASE episode.open
      <4>1. counter' = counter
        BY <1>3, <3>2
      <4> QED BY <3>1, <3>2, <4>1 DEF Closed
    <3>3. CASE ~episode.open
      <4>1. counter' = counter + 1 /\ Closed = counter
        BY <1>3, <2>1, <3>3 DEF Closed
      <4>2. PICK n \in Nat : n = counter
        BY <1>4
      <4>3. (n + 1) - 1 = n
        OBVIOUS
      <4> QED BY <3>1, <4>1, <4>2, <4>3, Zenon
    <3> QED BY <3>1, <3>2, <3>3
  <2>6. PICK n \in Nat : n = counter'
    BY <1>4
  <2>7. n = (n - 1) + 1
    OBVIOUS
  <2> QED BY <2>4, <2>5, <2>6, <2>7, Zenon
<1>8. CASE ~episode'.open /\ (episode.open \/ started # {})
  BY <1>6, <1>7, <1>8
<1>9. CASE ~episode'.open /\ ~(episode.open \/ started # {})
  <2>1. ~a.open /\ counter' = counter
    BY <1>2, <1>3, <1>9
  <2>2. Closed' = counter /\ Closed = counter
    BY <1>9, <2>1 DEF Closed
  <2> QED BY <1>6, <1>9, <2>2
<1>10. CASE episode'.open
  <2>1. Closed' = counter' - 1
    BY <1>10 DEF Closed
  <2>2. CASE episode.open
    <3>1. counter' = counter /\ Closed = counter - 1
      BY <1>3, <2>2 DEF Closed
    <3> QED BY <1>6, <1>10, <2>1, <3>1
  <2>3. CASE ~episode.open
    <3>1. counter' = counter + 1 /\ Closed = counter
      BY <1>3, <1>5, <1>10, <2>3 DEF Closed
    <3>2. PICK n \in Nat : n = counter
      BY <1>4
    <3>3. (n + 1) - 1 = n
      OBVIOUS
    <3>4. Closed' = Closed
      BY <2>1, <3>1, <3>2, <3>3, Zenon
    <3> QED BY <1>6, <1>10, <3>4
  <2> QED BY <2>2, <2>3
<1> QED BY <1>6, <1>8, <1>9, <1>10

\* The scores of an episode follow the tracker of episodes.
LEMMA StoryGoesOn ==
    ASSUME PerfInv, EpisodeStory, Analyze, background' \in Package \cup {NoApps},
           NEW now \in Nat, FollowEpisode(now), Tick
    PROVE  /\ EpisodeStory'
           /\ Closing => details'[Len(details')].id = completed'[Len(completed')].id
<1>1. PICK started : started = EpisodeKeys(active' \ active)
  OBVIOUS
<1>2. PICK score : score = TickScore(window', processes')
  OBVIOUS
<1>3. PICK begun : begun = IF episode.open
                           THEN [opened EXCEPT !.low = Lowest(@, score, started)]
                           ELSE Begin(started, score, now)
  OBVIOUS
<1>4. PICK closed : closed = [id |-> completed'[Len(completed')].id, began |-> begun.began,
                              ended |-> now, metric |-> begun.metric,
                              scores |-> [start |-> begun.start, low |-> begun.low,
                                          recovery |-> score]]
  OBVIOUS
<1>5. \/ ~episode.open /\ started = {} /\ UNCHANGED <<opened, details>>
      \/ ~(~episode.open /\ started = {}) /\ episode'.open /\ opened' = begun /\ details' = details
      \/ Closing /\ opened' = Absent /\ details' = Retain(Append(details, closed))
  <2>1. CASE ~episode.open /\ started = {}
    BY <1>1, <2>1 DEF FollowEpisode, Closing
  <2>2. CASE ~(~episode.open /\ started = {}) /\ episode'.open
    BY <1>1, <1>2, <1>3, <2>2 DEF FollowEpisode, Closing
  <2>3. CASE ~(~episode.open /\ started = {}) /\ ~episode'.open
    BY <1>1, <1>2, <1>3, <1>4, <2>3 DEF FollowEpisode, Closing
  <2> QED BY <2>1, <2>2, <2>3
<1>6. /\ clock' \in Nat /\ score \in Percent /\ started \in SUBSET MetricKey
      /\ Chronicle(details) /\ details \in Seq(Details)
  <2>1. score \in Percent
    BY <1>2, ScoreIsPercent DEF TickScore
  <2>2. started \in SUBSET MetricKey
    BY <1>1, EpisodeChanges
  <2>3. clock' \in Nat /\ Chronicle(details)
    BY DEF EpisodeStory, Tick
  <2>4. details \in Seq(Details)
    BY <2>3 DEF Chronicle
  <2> QED BY <2>1, <2>2, <2>3, <2>4
<1>7. ASSUME episode.open \/ started # {}
      PROVE  begun \in OpenDetails /\ begun.low <= begun.start /\ begun.low <= score
  <2>1. CASE episode.open
    <3>1. opened \in OpenDetails /\ opened.low <= opened.start
      BY <2>1 DEF EpisodeStory
    <3>2. begun = [opened EXCEPT !.low = Lowest(opened.low, score, started)]
      BY <1>3, <2>1
    <3>3. Lowest(opened.low, score, started) \in {opened.low, score}
          /\ Lowest(opened.low, score, started) <= score
          /\ Lowest(opened.low, score, started) <= opened.low
      <4>1. PICK low \in 0 .. 100 : low = opened.low
        BY <3>1 DEF OpenDetails, Percent
      <4>2. score \in 0 .. 100
        BY <1>6 DEF Percent
      <4>3. LET l == IF score < low THEN score ELSE low
            IN  l \in {low, score} /\ l <= score /\ l <= low
        BY <4>1, <4>2
      <4> QED BY <4>1, <4>3 DEF Lowest
    <3> HIDE DEF Lowest
    <3>4. PICK low \in Percent : low = Lowest(opened.low, score, started)
                                 /\ low <= score /\ low <= opened.low
      BY <1>6, <3>1, <3>3 DEF OpenDetails
    <3>5. begun \in OpenDetails /\ begun.start = opened.start /\ begun.low = low
      BY <3>1, <3>2, <3>4 DEF OpenDetails
    <3>6. opened.low \in Percent /\ opened.start \in Percent
      BY <3>1 DEF OpenDetails
    <3>7. low <= opened.start
      BY <3>1, <3>4, <3>6 DEF Percent
    <3> QED BY <3>4, <3>5, <3>7
  <2>2. CASE ~episode.open
    <3>1. begun = [began |-> now, metric |-> Primary(started), start |-> score, low |-> score]
      BY <1>3, <2>2 DEF Begin
    <3>2. Primary(started) \in EpisodeMetric
      BY <1>6, <1>7, <2>2, PrimaryIsAMetric
    <3> HIDE DEF Primary
    <3> QED BY <1>6, <3>1, <3>2 DEF OpenDetails, Percent
  <2> QED BY <2>1, <2>2
<1>8. CASE ~episode.open /\ started = {} /\ UNCHANGED <<opened, details>>
  <2>1. ~episode'.open /\ ~Closing
    BY <1>1, <1>8, EpisodeChanges DEF Closing
  <2> QED BY <1>6, <1>8, <2>1 DEF EpisodeStory
<1>9. CASE /\ ~(~episode.open /\ started = {}) /\ episode'.open
           /\ opened' = begun /\ details' = details
  BY <1>2, <1>6, <1>7, <1>9 DEF EpisodeStory, Closing
<1>10. CASE Closing /\ opened' = Absent /\ details' = Retain(Append(details, closed))
  <2>1. ~episode'.open /\ (episode.open \/ started # {})
    BY <1>1, <1>10 DEF Closing
  <2>2. completed'[Len(completed')].id \in Nat
    <3>1. completed' \in Seq(EpisodeRecord) /\ completed' # <<>>
      BY <1>1, <2>1, AnalysisStep, EpisodeCloses DEF PerfInv
    <3>2. completed'[Len(completed')] \in EpisodeRecord
      BY <3>1, LenProperties, EmptySeq
    <3> QED BY <3>2 DEF EpisodeRecord
  <2>3. closed \in Details /\ closed.id = completed'[Len(completed')].id /\ InOrder(closed)
    BY <1>4, <1>6, <1>7, <2>1, <2>2 DEF Details, OpenDetails, InOrder
  <2>4. Chronicle(details')
    BY <1>6, <1>10, <2>3, ChronicleGoesOn
  <2>5. details'[Len(details')] = closed
    BY <1>6, <1>10, <2>3, RetainKeepsNewest
  <2>6. EpisodeStory'
    BY <1>6, <1>10, <2>1, <2>4 DEF EpisodeStory
  <2> QED BY <2>3, <2>5, <2>6
<1> QED BY <1>5, <1>8, <1>9, <1>10

-----------------------------------------------------------------------------
(* The page: the transitions. *)

KeyEvent == [about : Key, phase : {"started", "recovered"}]
Announcement == [about : [episode : Nat], phase : {"announced"}]
Event == KeyEvent \cup Announcement

\* No later event of the list is about the same.
Latest(s, i) == \A k \in i + 1 .. Len(s) : s[k].about # s[i].about

\* What an event about which nothing came later says of the active keys and of
\* the number of closed episodes.
Fits(e, keys, n) ==
    IF e.phase = "announced" THEN e.about.episode <= n
    ELSE e.phase = "started" <=> e.about \in keys

Alternates(s) ==
    \A i \in DOMAIN s, j \in DOMAIN s :
        (/\ i < j /\ s[i].about = s[j].about
         /\ \A k \in i + 1 .. j - 1 : s[k].about # s[i].about)
            => s[i].phase # s[j].phase

Tells(s, keys, n) ==
    /\ s \in Seq(Event)
    /\ Alternates(s)
    /\ \A i \in DOMAIN s : Latest(s, i) => Fits(s[i], keys, n)

\* A key is no announcement, and what an event is about tells which it is.
LEMMA AboutsDiffer ==
    ASSUME NEW d \in Event, NEW e \in Event, d.about = e.about
    PROVE  d.phase = "announced" <=> e.phase = "announced"
<1>1. \A k \in Key, a \in [episode : Nat] : k # a
  <2> SUFFICES ASSUME NEW k \in Key, NEW a \in [episode : Nat], k = a PROVE FALSE
    OBVIOUS
  <2>1. DOMAIN k = {"metric", "level"}
    BY DEF Key, MetricKey, AppKey
  <2>2. DOMAIN a = {"episode"}
    OBVIOUS
  <2> QED BY <2>1, <2>2
<1>2. \A x \in KeyEvent : x.about \in Key /\ x.phase # "announced"
  BY DEF KeyEvent
<1>3. \A x \in Announcement : x.about \in [episode : Nat] /\ x.phase = "announced"
  BY DEF Announcement
<1> QED BY <1>1, <1>2, <1>3 DEF Event

\* A list goes on with events about different things, each of which differs
\* from the latest before it about the same and fits what is told now, as does
\* every earlier one that is still the latest.
LEMMA TellsMore ==
    ASSUME NEW s, NEW keys, NEW n, Tells(s, keys, n), NEW t \in Seq(Event),
           NEW keys2, NEW n2,
           \A i \in DOMAIN t, j \in DOMAIN t : t[i].about = t[j].about => i = j,
           \A i \in DOMAIN s, j \in DOMAIN t :
               Latest(s, i) /\ s[i].about = t[j].about => s[i].phase # t[j].phase,
           \A j \in DOMAIN t : Fits(t[j], keys2, n2),
           \A i \in DOMAIN s :
               Latest(s, i) /\ (\A j \in DOMAIN t : t[j].about # s[i].about)
                   => Fits(s[i], keys2, n2)
    PROVE  Tells(s \o t, keys2, n2)
<1>1. PICK u : u = s \o t
  OBVIOUS
<1>2. s \in Seq(Event)
  BY DEF Tells
<1>3. /\ Len(s) \in Nat /\ Len(t) \in Nat /\ DOMAIN s = 1 .. Len(s) /\ DOMAIN t = 1 .. Len(t)
      /\ u \in Seq(Event) /\ Len(u) = Len(s) + Len(t) /\ DOMAIN u = 1 .. Len(u)
      /\ \A i \in 1 .. Len(s) + Len(t) : u[i] = IF i <= Len(s) THEN s[i] ELSE t[i - Len(s)]
  BY <1>1, <1>2, ConcatProperties, LenProperties
<1>4. PICK ls \in Nat : ls = Len(s)
  BY <1>3
<1>5. PICK lt \in Nat : lt = Len(t)
  BY <1>3
<1>6. /\ \A i \in 1 .. ls : u[i] = s[i] /\ i \in DOMAIN s /\ i \in DOMAIN u
      /\ \A j \in 1 .. lt : u[ls + j] = t[j] /\ j \in DOMAIN t /\ ls + j \in DOMAIN u
      /\ \A i \in DOMAIN u : i \in 1 .. ls \/ \E j \in 1 .. lt : i = ls + j
  <2>1. ASSUME NEW i \in 1 .. ls PROVE u[i] = s[i] /\ i \in DOMAIN s /\ i \in DOMAIN u
    BY <1>3, <1>4, <1>5
  <2>2. ASSUME NEW j \in 1 .. lt PROVE u[ls + j] = t[j] /\ j \in DOMAIN t /\ ls + j \in DOMAIN u
    <3>1. ls + j \in 1 .. ls + lt /\ ~(ls + j <= ls) /\ (ls + j) - ls = j
      OBVIOUS
    <3> QED BY <1>3, <1>4, <1>5, <3>1
  <2>3. ASSUME NEW i \in DOMAIN u, i \notin 1 .. ls PROVE \E j \in 1 .. lt : i = ls + j
    <3>1. i \in 1 .. ls + lt
      BY <1>3, <1>4, <1>5
    <3>2. i - ls \in 1 .. lt /\ i = ls + (i - ls)
      BY <2>3, <3>1
    <3> QED BY <3>2
  <2> QED BY <2>1, <2>2, <2>3
<1>7. ASSUME NEW i \in DOMAIN u, NEW j \in DOMAIN u, i < j, u[i].about = u[j].about,
             \A k \in i + 1 .. j - 1 : u[k].about # u[i].about
      PROVE  u[i].phase # u[j].phase
  <2>1. CASE i \in 1 .. ls /\ j \in 1 .. ls
    <3>1. \A k \in i + 1 .. j - 1 : k \in 1 .. ls
      BY <2>1
    <3>2. \A k \in i + 1 .. j - 1 : s[k].about # s[i].about
      BY <1>6, <1>7, <2>1, <3>1
    <3>3. /\ i \in DOMAIN s /\ j \in DOMAIN s /\ i < j
          /\ s[i].about = s[j].about /\ u[i] = s[i] /\ u[j] = s[j]
      BY <1>6, <1>7, <2>1
    <3> QED BY <3>2, <3>3 DEF Tells, Alternates
  <2>2. CASE i \in 1 .. ls /\ j \notin 1 .. ls
    <3>1. PICK m \in 1 .. lt : j = ls + m
      BY <1>6, <2>2
    <3>2. \A k \in i + 1 .. ls : k \in 1 .. ls /\ k \in i + 1 .. j - 1
      BY <2>2, <3>1
    <3>3. \A k \in i + 1 .. ls : s[k].about # s[i].about
      BY <1>6, <1>7, <2>2, <3>2
    <3>4. Latest(s, i)
      BY <1>4, <3>3 DEF Latest
    <3>5. u[j] = t[m] /\ u[i] = s[i] /\ m \in DOMAIN t /\ i \in DOMAIN s
      BY <1>6, <2>2, <3>1
    <3> QED BY <1>7, <3>4, <3>5
  <2>3. CASE i \notin 1 .. ls
    <3>1. PICK l \in 1 .. lt : i = ls + l
      BY <1>6, <2>3
    <3>2. j \notin 1 .. ls
      BY <1>7, <3>1
    <3>3. PICK m \in 1 .. lt : j = ls + m
      BY <1>6, <3>2
    <3>4. l # m
      BY <1>7, <3>1, <3>3
    <3>5. u[i] = t[l] /\ u[j] = t[m] /\ l \in DOMAIN t /\ m \in DOMAIN t
      BY <1>6, <3>1, <3>3
    <3>6. t[l].about = t[m].about
      BY <1>7, <3>5
    <3> QED BY <3>4, <3>5, <3>6
  <2> QED BY <2>1, <2>2, <2>3
<1>8. ASSUME NEW i \in DOMAIN u, Latest(u, i) PROVE Fits(u[i], keys2, n2)
  <2>1. CASE i \in 1 .. ls
    <3>1. \A k \in i + 1 .. ls : k \in 1 .. ls /\ k \in i + 1 .. Len(u)
      BY <1>3, <1>4, <1>5, <2>1
    <3>2. Latest(s, i)
      BY <1>4, <1>6, <1>8, <2>1, <3>1 DEF Latest
    <3>3. ASSUME NEW j \in DOMAIN t PROVE t[j].about # s[i].about
      <4>1. j \in 1 .. lt
        BY <1>3, <1>5
      <4>2. ls + j \in i + 1 .. Len(u)
        BY <1>3, <1>4, <1>5, <2>1, <4>1
      <4> QED BY <1>6, <1>8, <2>1, <4>1, <4>2 DEF Latest
    <3> QED BY <1>6, <2>1, <3>2, <3>3
  <2>2. CASE i \notin 1 .. ls
    <3>1. PICK j \in 1 .. lt : i = ls + j
      BY <1>6, <2>2
    <3> QED BY <1>6, <3>1
  <2> QED BY <2>1, <2>2
<1> QED BY <1>1, <1>3, <1>7, <1>8 DEF Tells, Alternates

\* What is left of a list when its oldest events are cut.
LEMMA TellsSuffix ==
    ASSUME NEW s, NEW keys, NEW n, Tells(s, keys, n), NEW m \in 1 .. Len(s) + 1
    PROVE  Tells(SubSeq(s, m, Len(s)), keys, n)
<1>1. s \in Seq(Event) /\ Len(s) \in Nat /\ DOMAIN s = 1 .. Len(s)
  BY LenProperties DEF Tells
<1>2. PICK u : u = SubSeq(s, m, Len(s))
  OBVIOUS
<1>3. PICK l \in Nat : l = Len(s)
  BY <1>1
<1>4. m \in Int /\ l \in Int /\ \A i \in m .. l : s[i] \in Event
  BY <1>1, <1>3
<1>5. /\ u \in Seq(Event) /\ Len(u) = (IF m <= l THEN l - m + 1 ELSE 0)
      /\ \A i \in 1 .. l - m + 1 : u[i] = s[m + i - 1]
  BY <1>2, <1>3, <1>4, SubSeqProperties
<1>6. PICK d \in Nat : d = m - 1
  BY <1>3
<1>7. Len(u) = l - d /\ d <= l
  BY <1>3, <1>5, <1>6
<1>8. DOMAIN u = 1 .. l - d
  BY <1>5, <1>7, LenProperties
<1>9. ASSUME NEW i \in 1 .. l - d PROVE u[i] = s[d + i] /\ d + i \in DOMAIN s
  <2>1. i \in 1 .. l - m + 1 /\ m + i - 1 = d + i
    BY <1>3, <1>6
  <2>2. u[i] = s[d + i]
    BY <1>5, <2>1
  <2>3. d + i \in 1 .. l
    BY <1>3, <1>6, <1>7
  <2> QED BY <1>1, <1>3, <2>2, <2>3
<1>10. ASSUME NEW i \in DOMAIN u, NEW j \in DOMAIN u, i < j, u[i].about = u[j].about,
              \A k \in i + 1 .. j - 1 : u[k].about # u[i].about
       PROVE  u[i].phase # u[j].phase
  <2>1. i \in 1 .. l - d /\ j \in 1 .. l - d
    BY <1>8
  <2>2. PICK x \in Int : x = d + i
    BY <2>1
  <2>3. PICK y \in Int : y = d + j
    BY <2>1
  <2>4. /\ x \in DOMAIN s /\ y \in DOMAIN s /\ u[i] = s[x] /\ u[j] = s[y]
    BY <1>9, <2>1, <2>2, <2>3
  <2>5. x < y
    BY <1>10, <2>1, <2>2, <2>3
  <2>6. ASSUME NEW k \in x + 1 .. y - 1 PROVE s[k].about # s[x].about
    <3>1. PICK o \in Int : o = k - d
      OBVIOUS
    <3>2. d + o = k /\ i + 1 <= o /\ o <= j - 1
      <4>1. d \in Int /\ k \in Int /\ i \in Int /\ j \in Int
        BY <2>1, <2>6
      <4>2. d + i + 1 <= k /\ k <= d + j - 1
        BY <2>2, <2>3, <2>6, <4>1
      <4> QED BY ONLY <3>1, <4>1, <4>2
    <3>3. o \in i + 1 .. j - 1 /\ o \in 1 .. l - d
      BY <2>1, <3>2
    <3> QED BY <1>9, <1>10, <2>4, <3>2, <3>3
  <2>7. s[x].about = s[y].about
    BY <1>10, <2>4
  <2>8. s[x].phase # s[y].phase
    BY <2>4, <2>5, <2>6, <2>7 DEF Tells, Alternates
  <2> QED BY <2>4, <2>8
<1>11. ASSUME NEW i \in DOMAIN u, Latest(u, i) PROVE Fits(u[i], keys, n)
  <2>1. i \in 1 .. l - d
    BY <1>8
  <2>2. ASSUME NEW k \in d + i + 1 .. Len(s) PROVE s[k].about # s[d + i].about
    <3>1. PICK o \in Int : o = k - d
      BY <1>3
    <3>2. o \in i + 1 .. Len(u) /\ o \in 1 .. l - d /\ d + o = k
      BY <1>3, <1>7, <2>1, <2>2, <3>1
    <3> QED BY <1>9, <1>11, <2>1, <3>2 DEF Latest
  <2>3. Latest(s, d + i)
    BY <2>2 DEF Latest
  <2> QED BY <1>9, <2>1, <2>3 DEF Tells
<1> QED BY <1>2, <1>5, <1>10, <1>11 DEF Tells, Alternates

\* The sequence of the elements of a finite set has each of them once.
LEMMA SequenceOfSet ==
    ASSUME NEW S, IsFiniteSet(S)
    PROVE  /\ SetToSeq(S) \in Seq(S)
           /\ \A e \in S : \E i \in DOMAIN SetToSeq(S) : SetToSeq(S)[i] = e
           /\ \A i \in DOMAIN SetToSeq(S), j \in DOMAIN SetToSeq(S) :
                 SetToSeq(S)[i] = SetToSeq(S)[j] => i = j
<1>1. PICK n \in Nat : n = Cardinality(S)
  BY FS_CardinalityType
<1>2. PICK f \in [1 .. n -> S] : f \in Bijection(1 .. n, S)
  BY <1>1, FS_CardinalityType DEF ExistsBijection, Bijection, Injection
<1>3. IsInjective(f)
  BY <1>2 DEF Bijection, Injection, IsInjective
<1>4. SetToSeq(S) \in [1 .. n -> S] /\ IsInjective(SetToSeq(S))
  BY <1>1, <1>3 DEF SetToSeq
<1> HIDE DEF SetToSeq
<1>5. PICK g \in [1 .. n -> S] : g = SetToSeq(S)
  BY <1>4
<1>6. g \in Injection(1 .. n, S)
  BY <1>4, <1>5 DEF Injection, IsInjective
<1>7. Cardinality(1 .. n) = n
  BY FS_Interval
<1>8. g \in Surjection(1 .. n, S)
  BY <1>1, <1>6, <1>7, FS_Injection
<1>9. \A e \in S : \E i \in 1 .. n : g[i] = e
  BY <1>8 DEF Surjection
<1>10. g \in Seq(S) /\ DOMAIN g = 1 .. n
  BY <1>1, <1>5
<1> QED BY <1>4, <1>5, <1>9, <1>10 DEF IsInjective

\* The events of a set of conditions, in whatever order.
LEMMA PhasesOfKeys ==
    ASSUME NEW K \in SUBSET Key, IsFiniteSet(K), NEW phase \in {"started", "recovered"},
           NEW t, t = Phases(K, phase)
    PROVE  /\ t \in Seq(Event)
           /\ \A i \in DOMAIN t : t[i].phase = phase /\ t[i].about \in K
           /\ \A k \in K : \E i \in DOMAIN t : t[i].about = k
           /\ \A i \in DOMAIN t, j \in DOMAIN t : t[i].about = t[j].about => i = j
<1> DEFINE E == {[about |-> k, phase |-> phase] : k \in K}
<1>1. IsFiniteSet(E)
  <2> DEFINE f == [k \in K |-> [about |-> k, phase |-> phase]]
  <2>1. f \in Surjection(K, E)
    BY DEF Surjection
  <2> QED BY <2>1, FS_Surjection
<1>2. E \subseteq Event
  BY DEF Event, KeyEvent
<1>3. /\ \A e \in E : e.phase = phase /\ e.about \in K
      /\ \A k \in K : \E e \in E : e.about = k
      /\ \A d \in E, e \in E : d.about = e.about => d = e
  <2>1. ASSUME NEW e \in E
        PROVE  e.phase = phase /\ e.about \in K /\ e = [about |-> e.about, phase |-> phase]
    OBVIOUS
  <2>2. ASSUME NEW k \in K PROVE \E e \in E : e.about = k
    <3>1. [about |-> k, phase |-> phase] \in E
      OBVIOUS
    <3> QED BY <3>1
  <2> HIDE DEF E
  <2> QED BY <2>1, <2>2
<1>5. t = SetToSeq(E)
  BY DEF Phases
<1> HIDE DEF E
<1>6. /\ t \in Seq(E)
      /\ \A e \in E : \E i \in DOMAIN t : t[i] = e
      /\ \A i \in DOMAIN t, j \in DOMAIN t : t[i] = t[j] => i = j
  BY <1>1, <1>5, SequenceOfSet
<1>7. t \in Seq(Event) /\ \A i \in DOMAIN t : t[i] \in E
  BY <1>2, <1>6
<1> QED BY <1>3, <1>6, <1>7

\* There are finitely many conditions to be found.
LEMMA ConditionsAreFinite ==
    ASSUME NEW windows, NEW extended, NEW top \in Package \cup {NoApps}
    PROVE  IsFiniteSet(Conditions(windows, extended, top))
<1> DEFINE Metrics == {"cpu", "memory", "storage", "process"}
           Apps == {[metric |-> "application", level |-> top]}
           f == [p \in Metrics \X Level |-> [metric |-> p[1], level |-> p[2]]]
           T == {f[p] : p \in Metrics \X Level}
<1>1. IsFiniteSet(Metrics)
  <2>1. IsFiniteSet({"cpu"} \cup {"memory"}) /\ IsFiniteSet({"storage"} \cup {"process"})
    BY FS_Singleton, FS_AddElement
  <2>2. Metrics = ({"cpu"} \cup {"memory"}) \cup ({"storage"} \cup {"process"})
    OBVIOUS
  <2> HIDE DEF Metrics
  <2> QED BY <2>1, <2>2, FS_Union
<1>2. IsFiniteSet(Level)
  <2>1. IsFiniteSet({"warning"} \cup {"critical"})
    BY FS_Singleton, FS_AddElement
  <2>2. Level = {"warning"} \cup {"critical"}
    BY DEF Level
  <2> QED BY <2>1, <2>2
<1>3. f \in Surjection(Metrics \X Level, T)
  <2> HIDE DEF Metrics
  <2>1. DOMAIN f = Metrics \X Level /\ \A p \in Metrics \X Level : f[p] \in T
    OBVIOUS
  <2>2. \A t \in T : \E p \in Metrics \X Level : f[p] = t
    OBVIOUS
  <2>3. f \in [Metrics \X Level -> T]
    OBVIOUS
  <2> HIDE DEF f, T
  <2> QED BY <2>2, <2>3 DEF Surjection
<1>4. IsFiniteSet(Metrics \X Level)
  <2> HIDE DEF Metrics
  <2> QED BY <1>1, <1>2, FS_Product
<1>5. IsFiniteSet(T)
  <2> HIDE DEF f, T, Metrics
  <2> QED BY <1>3, <1>4, FS_Surjection
<1>6. MetricKey \subseteq T
  <2> SUFFICES ASSUME NEW k \in MetricKey PROVE k \in T
    OBVIOUS
  <2>1. k.metric \in Metrics /\ k.level \in Level /\ k = [metric |-> k.metric, level |-> k.level]
    BY MetricsKnown DEF MetricKey
  <2>2. <<k.metric, k.level>> \in Metrics \X Level /\ f[<<k.metric, k.level>>] = k
    BY <2>1
  <2> HIDE DEF f
  <2> QED BY <2>2
<1> HIDE DEF f, T, Metrics
<1>7. IsFiniteSet(T \cup Apps)
  BY <1>5, FS_AddElement
<1>8. Conditions(windows, extended, top) \subseteq T \cup Apps
  <2>1. ASSUME NEW m \in Windowed
        PROVE  MetricConditions(m, windows[m]) \subseteq MetricKey
    BY <2>1 DEF MetricConditions, Findings, MetricKey, EpisodeMetric, Level
  <2>2. ProcessConditions(extended) \subseteq MetricKey
    BY DEF ProcessConditions, Findings, MetricKey, EpisodeMetric, Level
  <2>3. AppConditions(top) \subseteq Apps
    BY DEF AppConditions
  <2> HIDE DEF Apps
  <2> QED BY <1>6, <2>1, <2>2, <2>3 DEF Conditions
<1> HIDE DEF Apps
<1> QED BY <1>7, <1>8, FS_Subset

\* The events of conditions that start, or recover, go on with the list.
LEMMA PhasesAreTold ==
    ASSUME NEW s, NEW keys, NEW n, Tells(s, keys, n),
           NEW K \in SUBSET Key, IsFiniteSet(K), NEW phase \in {"started", "recovered"},
           IF phase = "started" THEN K \cap keys = {} ELSE K \subseteq keys
    PROVE  Tells(s \o Phases(K, phase),
                 IF phase = "started" THEN keys \cup K ELSE keys \ K, n)
<1>1. PICK t : t = Phases(K, phase)
  OBVIOUS
<1>2. PICK after : after = IF phase = "started" THEN keys \cup K ELSE keys \ K
  OBVIOUS
<1>3. /\ t \in Seq(Event)
      /\ \A i \in DOMAIN t : t[i].phase = phase /\ t[i].about \in K
      /\ \A k \in K : \E i \in DOMAIN t : t[i].about = k
      /\ \A i \in DOMAIN t, j \in DOMAIN t : t[i].about = t[j].about => i = j
  BY ONLY <1>1, PhasesOfKeys, K \in SUBSET Key, IsFiniteSet(K), phase \in {"started", "recovered"}
<1>4. s \in Seq(Event) /\ \A i \in DOMAIN s : Latest(s, i) => Fits(s[i], keys, n)
  BY DEF Tells
<1>5. (\A i \in DOMAIN s : s[i] \in Event) /\ (\A j \in DOMAIN t : t[j] \in Event)
  BY <1>3, <1>4
<1>6. ASSUME NEW i \in DOMAIN s, NEW j \in DOMAIN t, Latest(s, i), s[i].about = t[j].about
      PROVE  s[i].phase # t[j].phase
  <2>1. t[j].phase = phase /\ t[j].about \in K /\ phase # "announced"
    BY <1>3
  <2>2. s[i].phase # "announced"
    BY <1>5, <1>6, <2>1, AboutsDiffer
  <2>3. s[i].phase = "started" <=> s[i].about \in keys
    BY <1>4, <1>6, <2>2 DEF Fits
  <2>4. CASE phase = "started"
    BY <1>6, <2>1, <2>3, <2>4
  <2>5. CASE phase # "started"
    BY <1>6, <2>1, <2>3, <2>5
  <2> QED BY <2>4, <2>5
<1>7. ASSUME NEW j \in DOMAIN t PROVE Fits(t[j], after, n)
  BY <1>2, <1>3 DEF Fits
<1>8. ASSUME NEW i \in DOMAIN s, Latest(s, i), \A j \in DOMAIN t : t[j].about # s[i].about
      PROVE  Fits(s[i], after, n)
  <2>1. s[i].about \notin K
    BY <1>3, <1>8
  <2>2. Fits(s[i], keys, n)
    BY <1>4, <1>8
  <2>3. s[i].about \in keys <=> s[i].about \in after
    BY <1>2, <2>1
  <2> QED BY <2>2, <2>3 DEF Fits
<1>9. Tells(s \o t, after, n)
  BY <1>3, <1>6, <1>7, <1>8, TellsMore
<1> QED BY <1>1, <1>2, <1>9

\* The announcement of the episode that has just been closed, and of no earlier one.
LEMMA AnnouncementIsTold ==
    ASSUME NEW s, NEW keys, NEW n \in Int, Tells(s, keys, n), NEW id \in Nat, id = n + 1
    PROVE  Tells(s \o <<[about |-> [episode |-> id], phase |-> "announced"]>>, keys, id)
<1>1. PICK e : e = [about |-> [episode |-> id], phase |-> "announced"]
  OBVIOUS
<1>2. e \in Event /\ e.phase = "announced" /\ e.about = [episode |-> id]
  BY <1>1 DEF Event, Announcement
<1>3. s \in Seq(Event) /\ \A i \in DOMAIN s : Latest(s, i) => Fits(s[i], keys, n)
  BY DEF Tells
<1>4. \A i \in DOMAIN s : s[i] \in Event
  BY <1>3
<1>5. <<e>> \in Seq(Event) /\ DOMAIN <<e>> = {1} /\ <<e>>[1] = e
  BY <1>2
<1>6. ASSUME NEW i \in DOMAIN s, Latest(s, i) PROVE s[i].about # e.about /\ Fits(s[i], keys, id)
  <2>1. CASE s[i].phase = "announced"
    <3>1. s[i].about.episode <= n
      BY <1>3, <1>6, <2>1 DEF Fits
    <3>2. s[i].about.episode \in Nat
      BY <1>4, <2>1 DEF Event, KeyEvent, Announcement
    <3>3. s[i].about.episode <= id /\ s[i].about.episode # id
      BY <3>1, <3>2
    <3> QED BY <1>2, <2>1, <3>3 DEF Fits
  <2>2. CASE s[i].phase # "announced"
    <3>1. s[i].about # e.about
      BY <1>2, <1>4, <2>2, AboutsDiffer
    <3>2. Fits(s[i], keys, n)
      BY <1>3, <1>6
    <3> QED BY <2>2, <3>1, <3>2 DEF Fits
  <2> QED BY <2>1, <2>2
<1>7. Fits(e, keys, id)
  BY <1>2 DEF Fits
<1>8. PICK t \in Seq(Event) : t = <<e>> /\ DOMAIN t = {1} /\ t[1] = e
  BY <1>5
<1>9. /\ \A i \in DOMAIN t, j \in DOMAIN t : t[i].about = t[j].about => i = j
      /\ \A i \in DOMAIN s, j \in DOMAIN t :
            Latest(s, i) /\ s[i].about = t[j].about => s[i].phase # t[j].phase
      /\ \A j \in DOMAIN t : Fits(t[j], keys, id)
      /\ \A i \in DOMAIN s :
            Latest(s, i) /\ (\A j \in DOMAIN t : t[j].about # s[i].about)
                => Fits(s[i], keys, id)
  BY <1>6, <1>7, <1>8
<1>10. Tells(s \o t, keys, id)
  BY <1>8, <1>9, TellsMore
<1> QED BY <1>1, <1>8, <1>10

\* With every analysis the list tells what the trackers did.
LEMMA EventsGoOn ==
    ASSUME PerfInv, Accounted', EpisodeStory, IsFiniteSet(active), Tells(events, active, Closed),
           Analyze, background' \in Package \cup {NoApps}, NEW now \in Nat, Tick,
           FollowEpisode(now), FollowEvents(now)
    PROVE  IsFiniteSet(active') /\ Tells(events', active', Closed')
<1>1. PICK old : old = active
  OBVIOUS
<1>2. PICK new : new = active'
  OBVIOUS
<1>3. IsFiniteSet(new) /\ IsFiniteSet(old)
  BY <1>1, <1>2, ConditionsAreFinite DEF Analyze
<1>4. old \in SUBSET Key /\ new \in SUBSET Key
  BY <1>1, <1>2, ConditionsAreKeys DEF Analyze, PerfInv, PerfTypeOK
<1>5. PICK n : n = Closed
  OBVIOUS
<1>6. PICK s1 : s1 = events \o Phases(new \ old, "started")
  OBVIOUS
<1>7. PICK s2 : s2 = s1 \o Phases(old \ new, "recovered")
  OBVIOUS
<1>8. Tells(s2, new, n)
  <2>1. IsFiniteSet(new \ old) /\ IsFiniteSet(old \ new)
    BY <1>3, FS_Subset
  <2>2. Tells(s1, old \cup (new \ old), n)
    BY <1>1, <1>4, <1>5, <1>6, <2>1, PhasesAreTold
  <2>3. old \cup (new \ old) = old \cup new
    OBVIOUS
  <2>4. Tells(s2, (old \cup new) \ (old \ new), n)
    BY <1>4, <1>7, <2>1, <2>2, <2>3, PhasesAreTold
  <2>5. (old \cup new) \ (old \ new) = new
    OBVIOUS
  <2> QED BY <2>4, <2>5
<1>9. PICK all : all = IF Closing
                       THEN s2 \o <<[about |-> [episode |-> details'[Len(details')].id],
                                     phase |-> "announced"]>>
                       ELSE s2 \o <<>>
  OBVIOUS
<1>10. Tells(all, new, Closed')
  <2>1. CASE Closing
    <3>1. /\ ~episode'.open /\ (episode.open \/ EpisodeKeys(active' \ active) # {})
          /\ details'[Len(details')].id = completed'[Len(completed')].id
      BY <2>1, StoryGoesOn DEF Closing
    <3>2. completed' # <<>> /\ Closed \in Int /\ Closed' = Closed + 1
      BY <3>1, EpisodeCloses
    <3>3. completed'[Len(completed')].id \in Nat /\ completed'[Len(completed')].id = Closed'
      <4>1. completed' \in Seq(EpisodeRecord)
        BY AnalysisStep DEF PerfInv
      <4>2. PICK c \in Seq(EpisodeRecord) : c = completed'
        BY <4>1
      <4>3. Len(c) \in DOMAIN c /\ Len(c) - Len(c) = 0 /\ c[Len(c)].id \in Nat
        <5>1. Len(c) \in Nat \ {0} /\ DOMAIN c = 1 .. Len(c)
          BY <3>2, <4>2, EmptySeq, LenProperties
        <5>2. c[Len(c)] \in EpisodeRecord
          BY <4>2, <5>1
        <5> QED BY <5>1, <5>2 DEF EpisodeRecord
      <4>4. c[Len(c)].id + (Len(c) - Len(c)) = Closed'
        BY <4>2, <4>3 DEF Accounted
      <4> QED BY <4>2, <4>3, <4>4
    <3>4. PICK id \in Nat : id = completed'[Len(completed')].id
      BY <3>3
    <3>5. id = n + 1 /\ n \in Int
      BY <1>5, <3>2, <3>3, <3>4
    <3>6. all = s2 \o <<[about |-> [episode |-> id], phase |-> "announced"]>>
      BY <1>9, <2>1, <3>1, <3>4
    <3> QED BY <1>8, <3>3, <3>4, <3>5, <3>6, AnnouncementIsTold
  <2>2. CASE ~Closing
    <3>1. all = s2
      <4>1. s2 \in Seq(Event)
        BY <1>8 DEF Tells
      <4> QED BY <1>9, <2>2, <4>1, ConcatEmptySeq
    <3>2. Closed' = n
      <4>1. ~(~episode'.open /\ (episode.open \/ EpisodeKeys(active' \ active) # {}))
        BY <2>2 DEF Closing
      <4> QED BY <1>5, <4>1, EpisodeCloses
    <3> QED BY <1>8, <3>1, <3>2
  <2> QED BY <2>1, <2>2
<1>11. PICK m : m = IF Len(all) > RecentEvents THEN Len(all) - RecentEvents + 1 ELSE 1
  OBVIOUS
<1>12. m \in 1 .. Len(all) + 1
  <2>1. Len(all) \in Nat /\ RecentEvents \in Nat \ {0}
    BY <1>10, LenProperties, ViewAssumption DEF Tells
  <2> QED BY <1>11, <2>1
<1>13. events' = SubSeq(all, m, Len(all))
  <2>1. all = s2 \o (IF Closing
                     THEN <<[about |-> [episode |-> details'[Len(details')].id],
                             phase |-> "announced"]>>
                     ELSE <<>>)
    BY <1>9
  <2> QED BY <1>1, <1>2, <1>6, <1>7, <1>11, <2>1 DEF FollowEvents
<1>14. Tells(SubSeq(all, m, Len(all)), new, Closed')
  BY <1>10, <1>12, TellsSuffix
<1> QED BY <1>2, <1>3, <1>13, <1>14

-----------------------------------------------------------------------------
(* The page tells one story. *)

\* What the page keeps of the session, and how far it follows the trackers.
PageInv == EpisodeStory /\ IsFiniteSet(active) /\ Tells(events, active, Closed)

\* The view adds to the steps of the session and takes none of its own.
LEMMA ViewStepsAreSteps == [ViewNext]_viewVars => [PerfNext]_perfVars
BY DEF ViewNext, viewVars, PerfNext, ViewConnected, ViewSerialReady, ViewDeviceLost,
       ViewConnectFailed, ViewSnapshots, ViewStorage, ViewBackgroundApps, ViewEmptySnapshots

EmptyPage ==
    clock \in Nat /\ ~episode.open /\ opened = Absent /\ details = <<>> /\ events = <<>> /\ active = {}

\* The page starts, and starts over, without episodes and events.
LEMMA EmptyPageTells == EmptyPage => PageInv
<1> SUFFICES ASSUME EmptyPage PROVE PageInv
  OBVIOUS
<1> USE DEF EmptyPage
<1>1. EpisodeStory
  <2>1. details \in Seq(Details) /\ Len(details) = 0 /\ DOMAIN details = {}
    OBVIOUS
  <2>2. Chronicle(details)
    BY <2>1 DEF Chronicle
  <2> QED BY <2>1, <2>2 DEF EpisodeStory
<1>2. IsFiniteSet(active)
  BY FS_EmptySet
<1>3. Tells(events, active, Closed)
  BY DEF Tells, Alternates
<1> QED BY <1>1, <1>2, <1>3 DEF PageInv

\* A step of the lifecycle that keeps the page keeps what it tells: new windows
\* are empty, and their score is full.
LEMMA PageStays ==
    ASSUME PageInv, UNCHANGED <<clock, storyVars, active, episodeVars>>,
           \/ UNCHANGED sessionVars
           \/ window' = EmptyWindows /\ processes' = NoProcesses
    PROVE  PageInv'
<1>1. opened' = opened /\ details' = details /\ events' = events /\ active' = active
      /\ episode' = episode /\ counter' = counter /\ clock' = clock
  BY DEF storyVars, episodeVars
<1>2. episode.open => opened.low <= TickScore(window', processes')
  <2>1. CASE window' = EmptyWindows /\ processes' = NoProcesses
    <3>1. TickScore(window', processes') = 100
      BY <2>1, EmptyScore
    <3>2. episode.open => opened.low \in Percent
      BY DEF PageInv, EpisodeStory, OpenDetails
    <3>3. \A l \in Percent : l <= 100
      BY DEF Percent
    <3> QED BY <3>1, <3>2, <3>3
  <2>2. CASE UNCHANGED sessionVars
    BY <2>2 DEF sessionVars, PageInv, EpisodeStory
  <2> QED BY <2>1, <2>2
<1>3. EpisodeStory'
  BY <1>1, <1>2 DEF PageInv, EpisodeStory
<1>4. IsFiniteSet(active') /\ Tells(events', active', Closed')
  BY <1>1 DEF PageInv, Closed
<1> QED BY <1>3, <1>4 DEF PageInv

\* The step of an update, whatever time it is given.
LEMMA PageFollows ==
    ASSUME PerfInv, Accounted', PageInv, Analyze, background' \in Package \cup {NoApps},
           NEW now \in Nat, Tick, FollowUpdate(now)
    PROVE  PageInv'
<1>1. FollowEpisode(now) /\ FollowEvents(now)
  BY DEF FollowUpdate
<1>2. EpisodeStory'
  BY <1>1, StoryGoesOn DEF PageInv
<1>3. IsFiniteSet(active') /\ Tells(events', active', Closed')
  BY <1>1, EventsGoOn DEF PageInv
<1> QED BY <1>2, <1>3 DEF PageInv

\* In every state the page follows the trackers.
LEMMA PageInvariant == ViewSpec => [](PerfInv /\ PageInv)
<1>1. ViewSpec => PerfSpec
  <2>1. ViewInit => PerfInit
    BY DEF ViewInit
  <2> QED BY <2>1, ViewStepsAreSteps, PTL DEF ViewSpec, PerfSpec
<1>2. ViewInit => PageInv
  BY EmptyPageTells DEF EmptyPage, ViewInit, PerfInit, NoEpisode
<1>3. PerfInv /\ Accounted' /\ PageInv /\ [ViewNext]_viewVars => PageInv'
  <2> SUFFICES ASSUME PerfInv, Accounted', PageInv, [ViewNext]_viewVars PROVE PageInv'
    OBVIOUS
  <2>1. CASE ViewConnected
    BY <2>1, PageStays DEF ViewConnected, OnConnected, BeginSession, ForgetSamples, clockVars
  <2>2. CASE \E sn \in Serial : ViewSerialReady(sn)
    BY <2>2, PageStays DEF ViewSerialReady, OnSerialReady, BeginSession, ForgetSamples
  <2>3. CASE ViewDeviceLost
    <3>1. /\ clock' = clock /\ ~episode'.open /\ opened' = Absent /\ details' = <<>>
          /\ events' = <<>> /\ active' = {}
      BY <2>3 DEF ViewDeviceLost, OnDeviceLost, EndSession, EndStory, NoEpisode
    <3>2. clock' \in Nat
      BY <3>1 DEF PageInv, EpisodeStory
    <3>3. EmptyPage'
      BY <3>1, <3>2 DEF EmptyPage
    <3>4. (EmptyPage => PageInv)'
      BY EmptyPageTells, PTL
    <3> QED BY <3>3, <3>4
  <2>4. CASE ViewConnectFailed
    BY <2>4, PageStays DEF ViewConnectFailed, OnConnectFailed, clockVars
  <2>5. /\ background \in Package \cup {NoApps}
        /\ Tick => clock' \in Nat /\ \A t \in 0 .. clock' : t \in Nat
    BY DEF PerfInv, PerfTypeOK, PageInv, EpisodeStory, Tick
  <2>6. CASE ViewSnapshots
    BY <2>5, <2>6, PageFollows DEF ViewSnapshots, OnSnapshots
  <2>7. CASE ViewStorage
    BY <2>5, <2>7, PageFollows DEF ViewStorage, OnStorage
  <2>8. CASE ViewBackgroundApps
    BY <2>5, <2>8, PageFollows DEF ViewBackgroundApps, OnBackgroundApps
  <2>9. CASE ViewEmptySnapshots
    BY <2>5, <2>9, PageFollows DEF ViewEmptySnapshots, OnEmptySnapshots
  <2>10. CASE UNCHANGED viewVars
    BY <2>10, PageStays DEF viewVars, perfVars, clockVars
  <2> QED BY <2>1, <2>2, <2>3, <2>4, <2>6, <2>7, <2>8, <2>9, <2>10 DEF ViewNext
<1> QED BY <1>1, <1>2, <1>3, PerfInvariant, RecordsAccounted, PTL DEF ViewSpec

\* The headline names a metric's pressure exactly while an episode is open.
LEMMA HeadlineIsPressure ==
    ASSUME PerfInv, IsFiniteSet(active)
    PROVE  PageState \notin {"NORMAL", "RECOVERING", "APPLICATION_PRESSURE"} <=> episode.open
<1>1. episode.open <=> EpisodeKeys(active) # {}
  BY DEF PerfInv, EpisodeHoldsConditions
<1>2. active \in SUBSET Key
  BY DEF PerfInv, PerfTypeOK
<1>3. \A k \in active : k.metric \in {"cpu", "memory", "storage", "process", "application"}
  BY <1>2, MetricsKnown DEF Key, MetricKey, AppKey
<1>4. IsFiniteSet(Pressured)
  <2> DEFINE f == [k \in active |-> k.metric]
  <2>1. f \in Surjection(active, Pressured)
    BY DEF Surjection, Pressured
  <2> QED BY <2>1, FS_Surjection
<1>5. PICK P : P = Pressured
  OBVIOUS
<1>6. IsFiniteSet(P) /\ Cardinality(P) \in Nat
  BY <1>4, <1>5, FS_CardinalityType
<1>7. PICK latest : latest = LatestTime
  OBVIOUS
<1>8. PageState = OverallState(P, latest, recoveredAt, RecoveringWindow)
  BY <1>5, <1>7 DEF PageState
<1>9. CASE EpisodeKeys(active) # {}
  <2>1. PICK m \in P : m \in EpisodeMetric
    BY <1>5, <1>9 DEF EpisodeKeys, Pressured
  <2>2. CASE Cardinality(P) >= 2
    BY <1>1, <1>8, <1>9, <2>2 DEF OverallState
  <2>3. CASE ~(Cardinality(P) >= 2)
    <3>1. Cardinality(P) = 1
      BY <1>6, <2>1, <2>3, FS_EmptySet
    <3>2. P = {m}
      BY <1>6, <2>1, <3>1, FS_Singleton
    <3>3. (CHOOSE x \in P : TRUE) = m
      BY <3>2
    <3>4. PageState = PressureState(m)
      BY <1>8, <2>1, <2>3, <3>3 DEF OverallState
    <3> QED BY <1>1, <1>9, <2>1, <3>4, MetricsKnown DEF PressureState
  <2> QED BY <2>2, <2>3
<1>10. CASE EpisodeKeys(active) = {}
  <2>1. P \subseteq {"application"}
    <3>1. \A k \in active : k.metric \notin EpisodeMetric
      BY <1>10 DEF EpisodeKeys
    <3>2. \A k \in active : k.metric = "application"
      BY <1>2, <3>1 DEF Key, MetricKey, AppKey
    <3> QED BY <1>5, <3>2 DEF Pressured
  <2>2. CASE P = {}
    <3>1. Cardinality(P) = 0
      BY <2>2, FS_EmptySet
    <3>2. ~(Cardinality(P) >= 2)
      BY <3>1
    <3> QED BY <1>1, <1>8, <1>10, <2>2, <3>2 DEF OverallState
  <2>3. CASE P = {"application"}
    <3>1. Cardinality(P) = 1
      BY <2>3, FS_Singleton
    <3>2. ~(Cardinality(P) >= 2)
      BY <3>1
    <3>3. (CHOOSE x \in P : TRUE) = "application" /\ P # {}
      BY <2>3
    <3>4. PageState = PressureState("application")
      BY <1>8, <3>2, <3>3 DEF OverallState
    <3> QED BY <1>1, <1>10, <3>4 DEF PressureState
  <2> QED BY <2>1, <2>2, <2>3
<1> QED BY <1>9, <1>10

\* The first episode of the list is the open one, or a completed one.
LEMMA FirstEpisode ==
    ASSUME PageInv
    PROVE  /\ OpenEpisodes # <<>> <=> episode.open
           /\ LET all == OpenEpisodes \o RecentEpisodes
              IN  all # <<>> => (all[1].active <=> episode.open)
<1>1. opened # Absent <=> episode.open
  BY OpenedIsOpen DEF PageInv
<1>2. PICK recent : recent = RecentEpisodes
  OBVIOUS
<1>3. details \in Seq(Details) /\ Len(details) \in Nat /\ DOMAIN details = 1 .. Len(details)
  BY LenProperties DEF PageInv, EpisodeStory, Chronicle
<1>4. /\ DOMAIN recent = 1 .. Len(details)
      /\ \A i \in DOMAIN recent : recent[i].active = FALSE
  BY <1>2, <1>3 DEF RecentEpisodes, Completed, RenderEpisode
<1>5. PICK S : S = {recent[i] : i \in DOMAIN recent}
  OBVIOUS
<1>6. recent \in Seq(S)
  <2>1. recent = [i \in 1 .. Len(details) |-> recent[i]]
    BY <1>2, <1>3 DEF RecentEpisodes
  <2>2. recent \in [1 .. Len(details) -> S]
    BY <1>4, <1>5, <2>1
  <2>3. PICK n \in Nat : n = Len(details)
    BY <1>3
  <2>4. recent \in [1 .. n -> S]
    BY <2>2, <2>3
  <2> QED BY <2>3, <2>4
<1>7. CASE opened = Absent
  <2>1. OpenEpisodes = <<>>
    BY <1>7 DEF OpenEpisodes
  <2>2. OpenEpisodes \o RecentEpisodes = recent
    BY <1>2, <1>6, <2>1, ConcatEmptySeq
  <2>3. recent # <<>> => 1 \in DOMAIN recent
    BY <1>6, EmptySeq, LenProperties
  <2> QED BY <1>1, <1>4, <1>7, <2>1, <2>2, <2>3
<1>8. CASE opened # Absent
  <2>1. PICK e : OpenEpisodes = <<e>> /\ e.active = TRUE
    BY <1>8 DEF OpenEpisodes, RenderEpisode
  <2>2. <<e>> \in Seq(S \cup {e}) /\ recent \in Seq(S \cup {e})
    BY <1>6, SeqMonotonic
  <2>3. Len(<<e>>) = 1 /\ <<e>>[1] = e /\ Len(recent) \in Nat
    BY <1>6, LenProperties
  <2>4. (<<e>> \o recent)[1] = e
    BY <2>2, <2>3, ConcatProperties
  <2>5. OpenEpisodes # <<>>
    BY <2>1
  <2> QED BY <1>1, <1>2, <1>8, <2>1, <2>4, <2>5
<1> QED BY <1>7, <1>8

\* The headline, the episodes, their scores and the recent events are computed
\* apart, at different moments of an update, and lists are cut: in every
\* session, of any length, they tell one story.
THEOREM PageIsOneStory == ViewSpec => []PageTellsOneStory
<1>1. PerfInv /\ PageInv => PageTellsOneStory
  <2> SUFFICES ASSUME PerfInv, PageInv PROVE PageTellsOneStory
    OBVIOUS
  <2>1. opened # Absent <=> episode.open
    BY OpenedIsOpen DEF PageInv
  <2>2. details \in Seq(Details) /\ Len(details) \in Nat /\ DOMAIN details = 1 .. Len(details)
    BY LenProperties DEF PageInv, EpisodeStory, Chronicle
  <2>3. \A i \in DOMAIN details : InOrder(details[i])
    BY DEF PageInv, EpisodeStory, Chronicle
  <2>4. HeadlineFollowsEpisode
    <3>1. PICK pressed : pressed <=> PageState \notin {"NORMAL", "RECOVERING", "APPLICATION_PRESSURE"}
      OBVIOUS
    <3>2. pressed <=> episode.open
      BY <3>1, HeadlineIsPressure DEF PageInv
    <3>3. OpenEpisodes # <<>> <=> episode.open
      BY FirstEpisode
    <3>4. CurrentSummary # Absent => (CurrentSummary.status = "ACTIVE" <=> episode.open)
      <4>1. PICK all : all = OpenEpisodes \o RecentEpisodes
        OBVIOUS
      <4>2. all # <<>> => (all[1].active <=> episode.open)
        BY <4>1, FirstEpisode
      <4>3. CASE all = <<>>
        BY <4>1, <4>3 DEF CurrentSummary
      <4>4. CASE all # <<>>
        <5>1. CurrentSummary.status = IF all[1].active THEN "ACTIVE" ELSE "RECOVERED"
          BY <4>1, <4>4 DEF CurrentSummary, Summarize
        <5> QED BY <4>2, <4>4, <5>1
      <4> QED BY <4>3, <4>4
    <3> QED BY <3>1, <3>2, <3>3, <3>4 DEF HeadlineFollowsEpisode
  <2>5. LowestScoreIsLowest
    BY <2>1, <2>3 DEF LowestScoreIsLowest, InOrder, PageInv, EpisodeStory
  <2>6. TransitionsAlternate
    BY DEF TransitionsAlternate, PageInv, Tells, Alternates
  <2> QED BY <2>4, <2>5, <2>6 DEF PageTellsOneStory
<1> QED BY <1>1, PageInvariant, PTL

=============================================================================
