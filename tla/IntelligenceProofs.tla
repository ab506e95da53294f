-------------------------- MODULE IntelligenceProofs -------------------------
(***************************************************************************)
(* What is proved of SessionIntelligence, for every set of phones, of      *)
(* readings and of rules.  The window never clears the mirrors when a      *)
(* session begins, only when one is lost; that the history holds readings  *)
(* of its own phone all the same rests on the order of the signals: a      *)
(* session that did not follow another finds the mirrors empty             *)
(* (MirrorsAreOwn), and nothing is published between a loss and the next   *)
(* session but the empty snapshot.                                         *)
(***************************************************************************)
EXTENDS SessionIntelligence, SequenceTheorems, FiniteSetTheorems, TLAPS

Linked == {"live", "ticking", "sampled"}

\* Every value a mirror or a sample of the history may hold.
SnapshotReading == {s[f] : s \in Snapshots, f \in SnapshotField}
Read == SnapshotReading \cup StorageReadings \cup {None}
Value == Read \cup {r.level : r \in Read}
SampleType == [value : Value, at : Nat, phone : MaybeSerial]

Typed ==
    /\ now \in Nat
    /\ serial \in MaybeSerial
    /\ mirror \in [Field -> Read] /\ owner \in [Field -> MaybeSerial]
    /\ history \in [Metric -> Seq(SampleType)]

\* Which signals the monitor sends when, and what the window holds then.
Ordered ==
    /\ link \in Linked => serial # NoSerial
    /\ link \in Linked \cup {"opening"} => state \notin LossState
    /\ link = "lost" => serial = NoSerial
    /\ serial = NoSerial => mirror = NoMirrors

Of(phone, samples) == \A i \in DOMAIN samples : samples[i].phone = phone

MirrorsAreOwn == ~carried => \A f \in Field : mirror[f] # None => owner[f] = serial
HistoryIsOwn == ~carried /\ serial # NoSerial => \A m \in Metric : Of(serial, history[m])

IInv == Typed /\ Ordered /\ MirrorsAreOwn /\ HistoryIsOwn /\ NothingShownAfterLoss

-----------------------------------------------------------------------------
(* Recording. *)

\* A window takes one sample more, or none if there is no value; what it held
\* is only ever shortened.
LEMMA AddedSample ==
    ASSUME NEW samples \in Seq(SampleType), NEW sample \in SampleType, NEW maximum, NEW phone,
           sample.value # None => sample.phone = phone, Of(phone, samples)
    PROVE  Of(phone, AddSample(samples, sample, maximum))
<1>1. CASE sample.value = None \/ (samples # <<>> /\ LastOf(samples).value = sample.value)
  BY <1>1 DEF AddSample
<1>2. CASE ~(sample.value = None \/ (samples # <<>> /\ LastOf(samples).value = sample.value))
  <2> DEFINE kept == IF Len(samples) < maximum THEN samples ELSE Tail(samples)
  <2>1. CASE samples = <<>>
    <3>1. Tail(samples) = <<>> /\ kept = <<>>
      BY <2>1
    <3>2. AddSample(samples, sample, maximum) = <<sample>>
      BY <1>2, <2>1, <3>1 DEF AddSample
    <3> QED BY <1>2, <3>2 DEF Of
  <2>2. CASE samples # <<>>
    <3>1. kept \in Seq(SampleType) /\ Of(phone, kept)
      BY <2>2, HeadTailProperties DEF Of
    <3>2. AddSample(samples, sample, maximum) = Append(kept, sample)
      BY <1>2 DEF AddSample
    <3> HIDE DEF kept
    <3>3. /\ DOMAIN Append(kept, sample) = 1 .. Len(kept) + 1
          /\ Append(kept, sample)[Len(kept) + 1] = sample
          /\ \A i \in 1 .. Len(kept) : Append(kept, sample)[i] = kept[i]
      BY <3>1, AppendProperties
    <3> QED BY <1>2, <3>1, <3>2, <3>3 DEF Of
  <2> QED BY <2>1, <2>2
<1> QED BY <1>1, <1>2

\* A window stays a sequence of samples.
LEMMA AddedTyped ==
    ASSUME NEW samples \in Seq(SampleType), NEW sample \in SampleType, NEW maximum
    PROVE  AddSample(samples, sample, maximum) \in Seq(SampleType)
<1>1. CASE samples = <<>>
  <2>1. Tail(samples) = <<>>
    BY <1>1
  <2>2. Append(samples, sample) \in Seq(SampleType)
    BY AppendProperties
  <2> QED BY <1>1, <2>1, <2>2 DEF AddSample
<1>2. CASE samples # <<>>
  <2>1. Tail(samples) \in Seq(SampleType)
    BY <1>2, HeadTailProperties
  <2> QED BY <2>1, AppendProperties DEF AddSample
<1> QED BY <1>1, <1>2

\* The sample recorded of a metric: a reading of the mirror, of the mirror's phone.
LEMMA RecordedSample ==
    ASSUME mirror' \in [Field -> Read], owner' \in [Field -> MaybeSerial],
           NEW at \in Nat, NEW m \in Metric,
           NEW sample, sample = Sample(ReadingOf(mirror', m), at, owner'[m])
    PROVE  /\ m \in Field /\ sample \in SampleType
           /\ sample.value # None => mirror'[m] # None
           /\ sample.phone = owner'[m]
<1>1. m \in Field /\ "battery" \in Field
  BY DEF Metric, Field, SnapshotField
<1>2. mirror'[m] \in Read /\ mirror'.battery \in Read
  BY <1>1
<1>3. ReadingOf(mirror', m) \in Value
  BY <1>2 DEF ReadingOf, Value, Read
<1>4. ReadingOf(mirror', m) # None => mirror'[m] # None
  BY DEF ReadingOf
<1>5. owner'[m] \in MaybeSerial
  BY <1>1
<1> QED BY <1>1, <1>3, <1>4, <1>5 DEF Sample, SampleType

\* Recording keeps the type of the history.
LEMMA RecordedTyped ==
    ASSUME Typed, mirror' \in [Field -> Read], owner' \in [Field -> MaybeSerial],
           NEW at \in Nat, RecordSamples(at)
    PROVE  history' \in [Metric -> Seq(SampleType)]
<1> DEFINE sample(m) == Sample(ReadingOf(mirror', m), at, owner'[m])
<1>1. \A m \in Metric : sample(m) \in SampleType
  BY RecordedSample
<1>2. \A m \in Metric : history[m] \in Seq(SampleType)
  BY DEF Typed
<1>3. history' = [m \in Metric |-> AddSample(history[m], sample(m), Retention[m])]
  BY DEF RecordSamples
<1> HIDE DEF sample
<1>4. \A m \in Metric : AddSample(history[m], sample(m), Retention[m]) \in Seq(SampleType)
  BY <1>1, <1>2, AddedTyped
<1> QED BY <1>3, <1>4

\* Recording keeps the history of one phone if the mirrors are that phone's.
LEMMA RecordedOwn ==
    ASSUME Typed, mirror' \in [Field -> Read], owner' \in [Field -> MaybeSerial],
           NEW at \in Nat, RecordSamples(at), NEW phone,
           \A f \in Field : mirror'[f] # None => owner'[f] = phone,
           NEW m \in Metric, Of(phone, history[m])
    PROVE  Of(phone, history'[m])
<1> DEFINE sample == Sample(ReadingOf(mirror', m), at, owner'[m])
<1>1. /\ m \in Field /\ sample \in SampleType
      /\ sample.value # None => mirror'[m] # None
      /\ sample.phone = owner'[m]
  BY RecordedSample
<1>2. history[m] \in Seq(SampleType)
  BY DEF Typed
<1>3. history'[m] = AddSample(history[m], sample, Retention[m])
  BY DEF RecordSamples
<1> HIDE DEF sample
<1>4. sample.value # None => sample.phone = phone
  BY <1>1
<1>5. Of(phone, AddSample(history[m], sample, Retention[m]))
  BY <1>1, <1>2, <1>4, AddedSample
<1> QED BY <1>3, <1>5

\* What the engines do to what is shown, and what they leave alone.
LEMMA Evaluated ==
    ASSUME NEW log, EvaluateIntelligence(log), state' \in LossState
    PROVE  health' = None /\ recs' = <<>> /\ fires' = <<>>
BY DEF EvaluateIntelligence, EvaluateDisconnected, LossState

\* The mirrors after a snapshots signal: of the session's phone, or as they were.
LEMMA Adopted ==
    ASSUME Typed, NEW s, \A f \in SnapshotField : s[f] \in Read, AdoptSnapshots(s)
    PROVE  /\ mirror' \in [Field -> Read] /\ owner' \in [Field -> MaybeSerial]
           /\ (\A f \in Field : mirror[f] # None => owner[f] = serial)
                => \A f \in Field : mirror'[f] # None => owner'[f] = serial
<1>1. \A f \in Field : f # "storage" => f \in SnapshotField
  BY DEF Field
<1>2. mirror.storage \in Read
  BY DEF Typed, Field
<1> QED BY <1>1, <1>2 DEF AdoptSnapshots, Typed

-----------------------------------------------------------------------------
(* The invariant. *)

\* The first session remembers nothing.
LEMMA IInvInit == IntelligenceInit => IInv
<1> SUFFICES ASSUME IntelligenceInit PROVE IInv
  OBVIOUS
<1>1. None \in Read /\ NoSerial \in MaybeSerial
  <2>1. None \in Read
    BY DEF Read
  <2>2. NoSerial \in MaybeSerial
    BY DEF MaybeSerial
  <2> QED BY <2>1, <2>2
<1>2. Typed
  <2>1. <<>> \in Seq(SampleType)
    BY EmptySeq
  <2> QED BY <1>1, <2>1 DEF IntelligenceInit, Typed, NoMirrors, NoOwners, EmptyHistory
<1>3. Ordered
  BY DEF IntelligenceInit, Ordered, Linked
<1>4. MirrorsAreOwn /\ HistoryIsOwn
  BY DEF IntelligenceInit, MirrorsAreOwn, HistoryIsOwn, NoMirrors
<1>5. NothingShownAfterLoss
  BY DEF IntelligenceInit, NothingShownAfterLoss, LossState
<1> QED BY <1>2, <1>3, <1>4, <1>5 DEF IInv

\* A snapshots or a storage signal of the tick, or the empty one after a loss.
LEMMA TelemetryStep ==
    ASSUME IInv, UNCHANGED <<now, state, serial, carried>>, NEW at \in Nat, RecordSamples(at),
           mirror' \in [Field -> Read], owner' \in [Field -> MaybeSerial],
           (\A f \in Field : mirror[f] # None => owner[f] = serial)
              => \A f \in Field : mirror'[f] # None => owner'[f] = serial
    PROVE  Typed' /\ MirrorsAreOwn' /\ HistoryIsOwn'
<1>1. Typed'
  BY RecordedTyped DEF IInv, Typed
<1>2. MirrorsAreOwn'
  BY DEF IInv, MirrorsAreOwn
<1>3. HistoryIsOwn'
  <2> SUFFICES ASSUME ~carried, serial # NoSerial PROVE \A m \in Metric : Of(serial, history'[m])
    BY DEF HistoryIsOwn
  <2>1. \A f \in Field : mirror'[f] # None => owner'[f] = serial
    BY DEF IInv, MirrorsAreOwn
  <2>2. \A m \in Metric : Of(serial, history[m])
    BY DEF IInv, HistoryIsOwn
  <2>3. Typed
    BY DEF IInv
  <2> QED BY <2>1, <2>2, <2>3, RecordedOwn
<1> QED BY <1>1, <1>2, <1>3

\* Every step keeps the types and the bounds.
LEMMA IInvStep == IInv /\ [IntelligenceNext]_intelligenceVars => IInv'
<1> SUFFICES ASSUME IInv, [IntelligenceNext]_intelligenceVars PROVE IInv'
  OBVIOUS
<1> USE IntelligenceAssumption DEF mirrorVars, packageVars, engineVars
<1>1. CASE OnConnected
  BY <1>1 DEF OnConnected, IInv, Typed, Ordered, MirrorsAreOwn, HistoryIsOwn,
              NothingShownAfterLoss, LossState, Linked
<1>2. ASSUME NEW s \in Serial, OnSerialReady(s) PROVE IInv'
  <2>1. /\ link = "opening" /\ link' = "live" /\ serial' = s /\ history' = EmptyHistory
        /\ carried' = (serial # NoSerial)
        /\ UNCHANGED <<now, state, mirror, owner, fires, health, recs>>
    BY <1>2 DEF OnSerialReady, BeginSession
  <2>2. Typed'
    <3>1. <<>> \in Seq(SampleType)
      BY EmptySeq
    <3> QED BY <2>1, <3>1 DEF IInv, Typed, EmptyHistory, MaybeSerial
  <2>3. Ordered'
    BY <2>1 DEF IInv, Ordered, Linked
  <2>4. MirrorsAreOwn'
    BY <2>1 DEF IInv, Ordered, MirrorsAreOwn, NoMirrors
  <2>5. HistoryIsOwn'
    BY <2>1 DEF HistoryIsOwn, EmptyHistory, Of
  <2>6. NothingShownAfterLoss'
    BY <2>1 DEF IInv, NothingShownAfterLoss
  <2> QED BY <2>2, <2>3, <2>4, <2>5, <2>6 DEF IInv
<1>3. ASSUME NEW s \in {"CONNECTED"} \cup KeptState, OnTickState(s) PROVE IInv'
  BY <1>3 DEF OnTickState, IInv, Typed, Ordered, MirrorsAreOwn, HistoryIsOwn,
              NothingShownAfterLoss, LossState, KeptState, Linked
<1>4. CASE OnDeviceLost
  <2>1. /\ link' \in {"down", "lost"} /\ mirror' = NoMirrors /\ owner' = NoOwners
        /\ health' = None /\ recs' = <<>> /\ fires' = <<>> /\ serial' = NoSerial
        /\ UNCHANGED <<now, history>>
    BY <1>4 DEF OnDeviceLost, ClearWindow
  <2>2. Typed'
    BY <2>1 DEF IInv, Typed, NoMirrors, NoOwners, Read, MaybeSerial
  <2>3. Ordered'
    BY <2>1 DEF Ordered, Linked
  <2>4. MirrorsAreOwn' /\ HistoryIsOwn' /\ NothingShownAfterLoss'
    BY <2>1 DEF MirrorsAreOwn, HistoryIsOwn, NothingShownAfterLoss, NoMirrors
  <2> QED BY <2>2, <2>3, <2>4 DEF IInv
<1>5. CASE OnConnectFailed
  BY <1>5 DEF OnConnectFailed, IInv, Typed, Ordered, MirrorsAreOwn, HistoryIsOwn,
              NothingShownAfterLoss, LossState, KeptState, Linked
<1>6. CASE OnSnapshots
  <2>0. PICK s \in Snapshots :
            \E at \in SampledAt(s.cpu) : AdoptSnapshots(s) /\ RecordSamples(at)
    BY <1>6 DEF OnSnapshots
  <2>1. PICK at \in SampledAt(s.cpu) : AdoptSnapshots(s) /\ RecordSamples(at)
    BY <2>0
  <2>2. /\ link = "ticking" /\ link' = "sampled" /\ UNCHANGED <<now, state, serial, carried>>
    BY <1>6 DEF OnSnapshots
  <2>3. at \in Nat
    BY <2>1 DEF SampledAt, IInv, Typed
  <2>4. \A f \in SnapshotField : s[f] \in Read
    BY <2>0 DEF Read, SnapshotReading
  <2>5. Typed' /\ MirrorsAreOwn' /\ HistoryIsOwn'
    BY <2>1, <2>2, <2>3, <2>4, Adopted, TelemetryStep DEF IInv
  <2>6. Ordered' /\ NothingShownAfterLoss'
    BY <2>2 DEF IInv, Ordered, NothingShownAfterLoss, Linked
  <2> QED BY <2>5, <2>6 DEF IInv
<1>7. CASE OnEmptySnapshots
  <2> DEFINE nothing == [f \in SnapshotField |-> None]
  <2>1. /\ AdoptSnapshots(nothing) /\ RecordSamples(now)
        /\ link = "lost" /\ link' = "down" /\ UNCHANGED <<now, state, serial, carried>>
        /\ EvaluateIntelligence(timeline)
    BY <1>7 DEF OnEmptySnapshots
  <2>2. \A f \in SnapshotField : nothing[f] = None /\ nothing[f] \in Read
    BY DEF Read
  <2>3. now \in Nat
    BY DEF IInv, Typed
  <2>4. mirror' = NoMirrors
    <3>1. mirror = NoMirrors
      BY <2>1 DEF IInv, Ordered
    <3>2. mirror.storage = None
      BY <3>1 DEF NoMirrors, Field
    <3>3. \A f \in Field : f # "storage" => f \in SnapshotField
      BY DEF Field
    <3> QED BY <2>1, <2>2, <3>1, <3>2, <3>3 DEF AdoptSnapshots, NoMirrors
  <2>5. Typed' /\ MirrorsAreOwn' /\ HistoryIsOwn'
    <3> HIDE DEF nothing
    <3> QED BY <2>1, <2>2, <2>3, Adopted, TelemetryStep DEF IInv
  <2>6. Ordered' /\ NothingShownAfterLoss'
    BY <2>1, <2>4, Evaluated DEF IInv, Ordered, NothingShownAfterLoss, Linked
  <2> QED BY <2>5, <2>6 DEF IInv
<1>8. CASE OnStorage
  <2>1. PICK r \in StorageReadings : /\ mirror' = [mirror EXCEPT !.storage = r]
                                     /\ owner' = [owner EXCEPT !.storage = serial]
    BY <1>8 DEF OnStorage
  <2>2. /\ link = "sampled" /\ link' = "live" /\ RecordSamples(now)
        /\ UNCHANGED <<now, state, serial, carried>>
    BY <1>8 DEF OnStorage
  <2>3. r \in Read /\ now \in Nat
    BY DEF IInv, Typed, Read
  <2>4. /\ mirror' \in [Field -> Read] /\ owner' \in [Field -> MaybeSerial]
        /\ (\A f \in Field : mirror[f] # None => owner[f] = serial)
              => \A f \in Field : mirror'[f] # None => owner'[f] = serial
    BY <2>1, <2>3 DEF IInv, Typed
  <2>5. Typed' /\ MirrorsAreOwn' /\ HistoryIsOwn'
    BY <2>2, <2>3, <2>4, TelemetryStep
  <2>6. Ordered' /\ NothingShownAfterLoss'
    BY <2>2 DEF IInv, Ordered, NothingShownAfterLoss, Linked
  <2> QED BY <2>5, <2>6 DEF IInv
<1>9. CASE OnPackagesReady \/ OnInventoryReady
  <2>1. /\ UNCHANGED <<now, link, state, serial, mirror, owner, history, carried>>
        /\ EvaluateIntelligence(timeline)
    BY <1>9 DEF OnPackagesReady, OnInventoryReady
  <2>2. NothingShownAfterLoss'
    BY <2>1, Evaluated DEF IInv, NothingShownAfterLoss
  <2>3. Typed' /\ Ordered' /\ MirrorsAreOwn' /\ HistoryIsOwn'
    BY <2>1 DEF IInv, Typed, Ordered, MirrorsAreOwn, HistoryIsOwn
  <2> QED BY <2>2, <2>3 DEF IInv
<1>10. CASE OnPerformanceEvents
  BY <1>10 DEF OnPerformanceEvents, IInv, Typed, Ordered, MirrorsAreOwn, HistoryIsOwn,
               NothingShownAfterLoss
<1>11. CASE TimePasses
  BY <1>11 DEF TimePasses, IInv, Typed, Ordered, MirrorsAreOwn, HistoryIsOwn,
               NothingShownAfterLoss
<1>12. CASE UNCHANGED intelligenceVars
  BY <1>12 DEF intelligenceVars, IInv, Typed, Ordered, MirrorsAreOwn, HistoryIsOwn,
               NothingShownAfterLoss
<1> QED BY <1>1, <1>2, <1>3, <1>4, <1>5, <1>6, <1>7, <1>8, <1>9, <1>10, <1>11, <1>12
           DEF IntelligenceNext

\* So they hold in every state.
LEMMA AlwaysIInv == IntelligenceSpec => []IInv
BY IInvInit, IInvStep, PTL DEF IntelligenceSpec

\* Once the phone is lost nothing concluded about it is shown again before a
\* phone is connected, whatever answers still arrive.
THEOREM LossClearsTheWindow == IntelligenceSpec => []NothingShownAfterLoss
<1>1. IInv => NothingShownAfterLoss
  BY DEF IInv
<1> QED BY <1>1, AlwaysIInv, PTL

\* A session that did not follow another without a loss records readings of its
\* own phone only.
THEOREM HistoryIsOfOnePhone == IntelligenceSpec => []HistoryOfOnePhone
<1>1. IInv => HistoryOfOnePhone
  BY DEF IInv, Ordered, HistoryIsOwn, HistoryOfOnePhone, Of, Linked
<1> QED BY <1>1, AlwaysIInv, PTL

-----------------------------------------------------------------------------
(* The timeline is the session's own. *)

EventType ==
    [type : {"connected", "disconnected", "session", "rule", "health", "advice", "performance"},
     phone : MaybeSerial]

\* A log whose events are those of one phone, unless that is no phone.
OwnLog(log, phone) ==
    /\ "events" \in DOMAIN log
    /\ log.events \in Seq(EventType)
    /\ phone # NoSerial => Of(phone, log.events)

\* The newest events are some of the events.
LEMMA NewestAreOwn ==
    ASSUME NEW events \in Seq(EventType), NEW phone
    PROVE  /\ Newest(events) \in Seq(EventType)
           /\ Of(phone, events) => Of(phone, Newest(events))
<1>1. CASE Len(events) <= MaxEvents
  BY <1>1 DEF Newest
<1>2. CASE ~(Len(events) <= MaxEvents)
  <2> DEFINE first == Len(events) - MaxEvents + 1
  <2>1. Len(events) \in Nat /\ MaxEvents \in Nat \ {0}
    BY LenProperties, EventsAssumption
  <2>2. first \in 1 .. Len(events)
    BY <1>2, <2>1
  <2>3. Newest(events) = SubSeq(events, first, Len(events))
    BY <1>2 DEF Newest
  <2> HIDE DEF first
  <2>4. /\ SubSeq(events, first, Len(events)) \in Seq(EventType)
        /\ Len(SubSeq(events, first, Len(events))) = Len(events) - first + 1
        /\ \A i \in 1 .. Len(events) - first + 1 :
              SubSeq(events, first, Len(events))[i] = events[first + i - 1]
    BY <2>1, <2>2, SubSeqProperties
  <2>5. \A i \in 1 .. Len(events) - first + 1 : first + i - 1 \in DOMAIN events
    BY <2>1, <2>2
  <2> QED BY <2>3, <2>4, <2>5 DEF Of
<1> QED BY <1>1, <1>2

\* Recording adds events to a log and keeps what it is.
LEMMA RecordedLog ==
    ASSUME NEW log, NEW phone, OwnLog(log, phone), NEW events \in Seq(EventType),
           phone # NoSerial => Of(phone, events)
    PROVE  OwnLog(RecordEvents(log, events), phone)
<1> DEFINE all == log.events \o events
<1>1. /\ all \in Seq(EventType)
      /\ Len(all) = Len(log.events) + Len(events)
      /\ \A i \in 1 .. Len(log.events) + Len(events) :
            all[i] = IF i <= Len(log.events) THEN log.events[i] ELSE events[i - Len(log.events)]
  BY ConcatProperties DEF OwnLog
<1>2. phone # NoSerial => Of(phone, all)
  <2> SUFFICES ASSUME phone # NoSerial, NEW i \in DOMAIN all PROVE all[i].phone = phone
    BY DEF Of
  <2>1. Len(log.events) \in Nat /\ Len(events) \in Nat
    BY LenProperties DEF OwnLog
  <2>2. i \in 1 .. Len(log.events) + Len(events)
    BY <1>1, <2>1
  <2>3. CASE i <= Len(log.events)
    <3>1. i \in DOMAIN log.events
      BY <2>1, <2>2, <2>3 DEF OwnLog
    <3> QED BY <1>1, <2>2, <2>3, <3>1 DEF OwnLog, Of
  <2>4. CASE ~(i <= Len(log.events))
    <3>1. i - Len(log.events) \in DOMAIN events
      BY <2>1, <2>2, <2>4
    <3>2. all[i] = events[i - Len(log.events)]
      BY <1>1, <2>2, <2>4
    <3> HIDE DEF all
    <3> QED BY <3>1, <3>2 DEF Of
  <2> QED BY <2>3, <2>4
<1>3. /\ "events" \in DOMAIN RecordEvents(log, events)
      /\ RecordEvents(log, events).events = Newest(all)
  BY DEF RecordEvents, OwnLog
<1> HIDE DEF all
<1> QED BY <1>1, <1>2, <1>3, NewestAreOwn DEF OwnLog

\* One event.
LEMMA RecordedEvent ==
    ASSUME NEW log, NEW phone, OwnLog(log, phone), NEW event \in EventType,
           phone # NoSerial => event.phone = phone
    PROVE  OwnLog(RecordEvent(log, event), phone)
<1>1. <<event>> \in Seq(EventType) /\ (phone # NoSerial => Of(phone, <<event>>))
  BY DEF Of
<1> QED BY <1>1, RecordedLog DEF RecordEvent

\* The same event for each of finitely many items.
LEMMA RecordedForEach ==
    ASSUME NEW log, NEW phone, OwnLog(log, phone), NEW event \in EventType,
           phone # NoSerial => event.phone = phone, NEW items, IsFiniteSet(items)
    PROVE  OwnLog(RecordForEach(log, event, items), phone)
<1> DEFINE events == [i \in 1 .. Cardinality(items) |-> event]
<1>1. Cardinality(items) \in Nat
  BY FS_CardinalityType
<1>2. events \in Seq(EventType) /\ (phone # NoSerial => Of(phone, events))
  BY <1>1 DEF Of
<1>3. RecordForEach(log, event, items) = RecordEvents(log, events)
  BY DEF RecordForEach, RecordEvents
<1> HIDE DEF events
<1> QED BY <1>2, <1>3, RecordedLog

\* A transition of the connection or of the health.
LEMMA RecordedTransition ==
    ASSUME NEW log, NEW phone, OwnLog(log, phone), NEW key, key # "events", NEW value,
           NEW event \in EventType, phone # NoSerial => event.phone = phone
    PROVE  OwnLog(RecordTransition(log, key, value, event), phone)
<1>1. OwnLog([log EXCEPT ![key] = value], phone)
  BY DEF OwnLog
<1>2. PICK marked : marked = [log EXCEPT ![key] = value]
  OBVIOUS
<1>3. OwnLog(RecordEvent(marked, event), phone)
  BY <1>1, <1>2, RecordedEvent
<1> QED BY <1>2, <1>3 DEF RecordTransition

\* The events of the bound phone.
LEMMA OwnEvent ==
    ASSUME NEW phone \in MaybeSerial,
           NEW type \in {"connected", "disconnected", "session", "rule", "health", "advice",
                         "performance"}
    PROVE  Event(type, phone) \in EventType /\ Event(type, phone).phone = phone
BY DEF Event, EventType

\* The rules that fire are finitely many.
LEMMA FiringIsFinite ==
    ASSUME NEW firing, firing \subseteq DOMAIN Rules PROVE IsFiniteSet(firing)
<1>1. PICK n \in Nat : DOMAIN Rules = 1 .. n
  BY LenProperties, IntelligenceAssumption
<1>2. IsFiniteSet(1 .. n)
  BY FS_Interval
<1> QED BY <1>1, <1>2, FS_Subset

\* An evaluation records events of the bound phone only.
LEMMA EvaluationIsOwn ==
    ASSUME NEW log, serial \in MaybeSerial, OwnLog(log, serial), EvaluateIntelligence(log)
    PROVE  OwnLog(timeline', serial)
<1>1. CASE ~(state' = "CONNECTED")
  BY <1>1 DEF EvaluateIntelligence, EvaluateDisconnected
<1>2. CASE state' = "CONNECTED"
  <2>0. EvaluateConnected(log)
    BY <1>2 DEF EvaluateIntelligence
  <2>1. PICK firing : firing = Evaluate(Rules, fired, history', now)
    OBVIOUS
  <2>2. DOMAIN fires' = firing
    BY <2>0, <2>1 DEF EvaluateConnected
  <2>3. PICK advice : advice = recs'
    OBVIOUS
  <2>4. PICK withRules : withRules = RecordForEach(log, Event("rule", serial), firing)
    OBVIOUS
  <2>5. PICK withHealth : withHealth = HealthTransition(withRules, health')
    OBVIOUS
  <2>6. timeline' = IF advice = recs THEN withHealth
                    ELSE RecordForEach(withHealth, Event("advice", serial),
                                       DOMAIN advice \cap 1 .. MaxEvents)
    BY <2>0, <2>1, <2>2, <2>3, <2>4, <2>5 DEF EvaluateConnected
  <2>7. firing \subseteq DOMAIN Rules
    BY <2>1 DEF Evaluate
  <2>8. OwnLog(withRules, serial)
    BY <2>4, <2>7, FiringIsFinite, OwnEvent, RecordedForEach
  <2>9. OwnLog(withHealth, serial)
    BY <2>5, <2>8, OwnEvent, RecordedTransition DEF HealthTransition
  <2>10. IsFiniteSet(DOMAIN advice \cap 1 .. MaxEvents)
    <3>1. IsFiniteSet(1 .. MaxEvents)
      BY EventsAssumption, FS_Interval
    <3> QED BY <3>1, FS_Subset
  <2>11. OwnLog(RecordForEach(withHealth, Event("advice", serial),
                              DOMAIN advice \cap 1 .. MaxEvents), serial)
    BY <2>9, <2>10, OwnEvent, RecordedForEach
  <2> QED BY <2>6, <2>9, <2>11
<1> QED BY <1>1, <1>2

TimelineIsOwn == OwnLog(timeline, serial)

\* Before the first session the timeline is empty.
LEMMA TimelineStart == IntelligenceInit => TimelineIsOwn
<1>1. <<>> \in Seq(EventType) /\ DOMAIN <<>> = {}
  BY EmptySeq
<1> QED BY <1>1 DEF IntelligenceInit, EmptyTimeline, TimelineIsOwn, OwnLog

\* Every step leaves the timeline to the phone that is bound after it.
LEMMA TimelineStep ==
    IInv /\ TimelineIsOwn /\ [IntelligenceNext]_intelligenceVars => TimelineIsOwn'
<1> SUFFICES ASSUME IInv, TimelineIsOwn, [IntelligenceNext]_intelligenceVars
             PROVE  TimelineIsOwn'
  OBVIOUS
<1> USE DEF mirrorVars, packageVars, engineVars
<1>s. serial \in MaybeSerial /\ NoSerial \in MaybeSerial
  BY DEF IInv, Typed, MaybeSerial
<1>t. OwnLog(timeline, serial)
  BY DEF TimelineIsOwn
<1>1. ASSUME serial' = serial, timeline' = ConnectedEvent(timeline) PROVE TimelineIsOwn'
  BY <1>s, <1>t, <1>1, OwnEvent, RecordedTransition DEF ConnectedEvent, TimelineIsOwn
<1>2. ASSUME serial' = serial, EvaluateIntelligence(timeline) PROVE TimelineIsOwn'
  BY <1>s, <1>t, <1>2, EvaluationIsOwn DEF TimelineIsOwn
<1>3. ASSUME serial' = serial, timeline' = timeline PROVE TimelineIsOwn'
  BY <1>3 DEF TimelineIsOwn
<1>4. CASE OnConnected
  BY <1>1, <1>4 DEF OnConnected
<1>5. ASSUME NEW s \in Serial, OnSerialReady(s) PROVE TimelineIsOwn'
  <2>1. serial' = s /\ timeline' = RecordEvent(EmptyTimeline, Event("session", s))
    BY <1>5 DEF OnSerialReady, BeginSession, BeginTimeline
  <2>2. OwnLog(EmptyTimeline, s)
    <3>1. <<>> \in Seq(EventType) /\ DOMAIN <<>> = {}
      BY EmptySeq
    <3> QED BY <3>1 DEF EmptyTimeline, OwnLog, Of
  <2> QED BY <2>1, <2>2, OwnEvent, RecordedEvent DEF TimelineIsOwn, MaybeSerial
<1>6. ASSUME NEW s \in {"CONNECTED"} \cup KeptState, OnTickState(s) PROVE TimelineIsOwn'
  BY <1>1, <1>3, <1>6 DEF OnTickState
<1>7. CASE OnDeviceLost
  <2>1. /\ serial' = NoSerial
        /\ timeline' = RecordTransition(timeline, "connection", "disconnected",
                                        Event("disconnected", NoSerial))
    BY <1>7 DEF OnDeviceLost, ClearWindow
  <2>2. OwnLog(timeline, NoSerial)
    BY <1>t DEF OwnLog
  <2> QED BY <1>s, <2>1, <2>2, OwnEvent, RecordedTransition DEF TimelineIsOwn
<1>8. CASE OnConnectFailed
  BY <1>3, <1>8 DEF OnConnectFailed
<1>9. CASE OnSnapshots \/ OnEmptySnapshots \/ OnStorage \/ OnPackagesReady \/ OnInventoryReady
  BY <1>2, <1>9 DEF OnSnapshots, OnEmptySnapshots, OnStorage, OnPackagesReady, OnInventoryReady
<1>10. CASE OnPerformanceEvents
  BY <1>s, <1>t, <1>10, OwnEvent, RecordedEvent DEF OnPerformanceEvents, TimelineIsOwn
<1>11. CASE TimePasses
  BY <1>3, <1>11 DEF TimePasses
<1>12. CASE UNCHANGED intelligenceVars
  BY <1>3, <1>12 DEF intelligenceVars
<1> QED BY <1>4, <1>5, <1>6, <1>7, <1>8, <1>9, <1>10, <1>11, <1>12 DEF IntelligenceNext

\* While a phone is bound the timeline holds its events only, whatever
\* reconnects, retries and losses came before and however the log was cut.
THEOREM TimelineIsOfOnePhone == IntelligenceSpec => []TimelineOfThisPhone
<1>1. TimelineIsOwn => TimelineOfThisPhone
  BY DEF TimelineIsOwn, TimelineOfThisPhone, OwnLog, Of
<1> QED BY <1>1, TimelineStart, TimelineStep, AlwaysIInv, PTL DEF IntelligenceSpec

-----------------------------------------------------------------------------
(* A rule that waits for a duration sees every dip. *)

\* Every sample after which the rule's condition holds to the end of the window is
\* one of the newest n.
NoDip(rule, samples, n) ==
    \A i \in DOMAIN samples :
        (\A j \in i .. Len(samples) : Compare(rule.op, samples[j].value, rule.threshold))
            => i + n > Len(samples)

\* The samples added since a rule's condition last failed are counted up to the
\* size of the window.
DipsAreCounted ==
    /\ steady \in [DOMAIN Rules -> Nat]
    /\ \A m \in Metric : Len(history[m]) <= Retention[m]
    /\ \A k \in DOMAIN Rules : NoDip(Rules[k], history[Rules[k].metric], steady[k])

\* A set of places of a window has a last one.
LEMMA LastPlace ==
    ASSUME NEW n \in Nat, NEW places, places \subseteq 1 .. n, places # {}
    PROVE  \E i \in places : \A j \in places : j <= i
<1>1. PICK left : left = {n - i : i \in places}
  OBVIOUS
<1>2. left \subseteq Nat /\ left # {}
  <2>1. \A i \in places : n - i \in Nat
    OBVIOUS
  <2> QED BY <1>1, <2>1
<1>3. PICK R : R = OpToRel(<, Nat)
  OBVIOUS
<1>4. \A x, y \in Nat : x < y => <<x, y>> \in R
  BY <1>3 DEF OpToRel
<1>5. PICK x \in left : \A y \in left : ~(<<y, x>> \in R)
  <2>1. IsWellFoundedOn(R, Nat)
    BY <1>3, NatLessThanWellFounded
  <2> QED BY <1>2, <2>1, WFMin
<1>6. PICK i \in places : x = n - i
  BY <1>1
<1>7. ASSUME NEW j \in places PROVE j <= i
  <2>1. n - j \in left /\ n - j \in Nat /\ x \in Nat
    BY <1>1, <1>2
  <2>2. ~(n - j < x)
    BY <1>4, <1>5, <2>1
  <2> QED BY <1>6, <2>2
<1> QED BY <1>7

\* What sustained_while finds is the date of a sample added after the last dip.
LEMMA SustainedAfterDip ==
    ASSUME NEW rule, NEW samples \in Seq(SampleType), NEW n, NoDip(rule, samples, n),
           rule.duration # None, Satisfied(rule, samples) # None
    PROVE  \E k \in DOMAIN samples :
               k + n > Len(samples) /\ samples[k].at = Satisfied(rule, samples)
<1> DEFINE last == Len(samples)
           holding == {i \in DOMAIN samples :
                          Compare(rule.op, samples[i].value, rule.threshold)}
           reached == {i \in DOMAIN samples :
                          /\ i .. last \subseteq holding
                          /\ samples[last].at - samples[i].at >= rule.duration}
           start == CHOOSE i \in reached : \A j \in reached : j <= i
<1>1. reached # {} /\ Satisfied(rule, samples) = samples[start].at
  BY DEF Satisfied, SustainedWhile
<1>2. last \in Nat /\ reached \subseteq 1 .. last
  BY LenProperties
<1>3. start \in reached
  <2>1. \E i \in reached : \A j \in reached : j <= i
    <3> HIDE DEF reached, last
    <3> QED BY <1>1, <1>2, LastPlace
  <2> HIDE DEF reached
  <2> QED BY <2>1
<1> HIDE DEF start
<1>4. \A j \in start .. last : Compare(rule.op, samples[j].value, rule.threshold)
  BY <1>3
<1> QED BY <1>1, <1>3, <1>4 DEF NoDip

\* A window that makes room keeps the count.
LEMMA ShortenedNoDip ==
    ASSUME NEW rule, NEW samples \in Seq(SampleType), samples # <<>>, NEW n \in Nat,
           NoDip(rule, samples, n)
    PROVE  NoDip(rule, Tail(samples), n)
<1>1. /\ Tail(samples) \in Seq(SampleType) /\ Len(samples) \in Nat \ {0}
      /\ Len(Tail(samples)) = Len(samples) - 1
      /\ \A i \in 1 .. Len(Tail(samples)) : Tail(samples)[i] = samples[i + 1]
  BY HeadTailProperties, EmptySeq, LenProperties
<1>2. PICK rest : rest = Tail(samples)
  OBVIOUS
<1> SUFFICES ASSUME NEW i \in DOMAIN rest,
                    \A j \in i .. Len(rest) : Compare(rule.op, rest[j].value, rule.threshold)
             PROVE  i + n > Len(rest)
  BY <1>2 DEF NoDip
<1>3. i \in 1 .. Len(samples) - 1
  BY <1>1, <1>2
<1>4. ASSUME NEW j \in i + 1 .. Len(samples)
      PROVE  Compare(rule.op, samples[j].value, rule.threshold)
  <2>1. j - 1 \in i .. Len(rest) /\ j - 1 \in 1 .. Len(rest) /\ (j - 1) + 1 = j
    BY <1>1, <1>2, <1>3
  <2>2. rest[j - 1] = samples[j]
    BY <1>1, <1>2, <2>1
  <2> QED BY <2>1, <2>2
<1>5. i + 1 \in DOMAIN samples /\ Len(rest) = Len(samples) - 1
  BY <1>1, <1>2, <1>3
<1>6. (i + 1) + n > Len(samples)
  BY <1>4, <1>5 DEF NoDip
<1> QED BY <1>1, <1>3, <1>5, <1>6

\* The newest sample of a window in which the condition holds from i on meets it.
LEMMA FailedLast ==
    ASSUME NEW rule, NEW samples \in Seq(SampleType), samples # <<>>,
           ~Compare(rule.op, LastOf(samples).value, rule.threshold), NEW n
    PROVE  NoDip(rule, samples, n)
<1>1. \A i \in DOMAIN samples : Len(samples) \in i .. Len(samples)
  BY LenProperties
<1>2. ~Compare(rule.op, samples[Len(samples)].value, rule.threshold)
  BY DEF LastOf
<1> QED BY <1>1, <1>2 DEF NoDip

\* A window never outgrows its size.
LEMMA AddedLength ==
    ASSUME NEW samples \in Seq(SampleType), NEW sample \in SampleType,
           NEW maximum \in Nat \ {0}, Len(samples) <= maximum
    PROVE  Len(AddSample(samples, sample, maximum)) <= maximum
<1>1. CASE samples = <<>>
  <2>1. Len(samples) = 0 /\ Len(Append(samples, sample)) = 1
    BY <1>1, AppendProperties
  <2> QED BY <2>1 DEF AddSample
<1>2. CASE samples # <<>>
  <2>1. Tail(samples) \in Seq(SampleType) /\ Len(Tail(samples)) = Len(samples) - 1
    BY <1>2, HeadTailProperties
  <2>2. Len(Append(samples, sample)) = Len(samples) + 1
    BY AppendProperties
  <2>3. Len(Append(Tail(samples), sample)) = Len(Tail(samples)) + 1
    BY <2>1, AppendProperties
  <2> QED BY <2>1, <2>2, <2>3, LenProperties DEF AddSample
<1> QED BY <1>1, <1>2

\* Recording a reading and counting the sample that it may be.
LEMMA AddedNoDip ==
    ASSUME NEW rule, NEW samples \in Seq(SampleType), NEW sample \in SampleType,
           NEW maximum \in Nat \ {0}, Len(samples) <= maximum,
           NEW n \in Nat, NoDip(rule, samples, n), NEW added, NEW newCount,
           added = AddSample(samples, sample, maximum),
           newCount = IF sample.value # None /\ ~Compare(rule.op, sample.value, rule.threshold)
                      THEN 0
                      ELSE IF added # samples /\ n < maximum THEN n + 1 ELSE n
    PROVE  NoDip(rule, added, newCount)
<1>1. CASE sample.value = None \/ (samples # <<>> /\ LastOf(samples).value = sample.value)
  <2>1. added = samples
    BY <1>1 DEF AddSample
  <2>2. CASE sample.value = None \/ Compare(rule.op, sample.value, rule.threshold)
    BY <2>1, <2>2
  <2>3. CASE sample.value # None /\ ~Compare(rule.op, sample.value, rule.threshold)
    BY <1>1, <2>1, <2>3, FailedLast
  <2> QED BY <2>1, <2>2, <2>3
<1>2. CASE ~(sample.value = None \/ (samples # <<>> /\ LastOf(samples).value = sample.value))
  <2>1. PICK kept : kept = IF Len(samples) < maximum THEN samples ELSE Tail(samples)
    OBVIOUS
  <2>2. added = Append(kept, sample)
    BY <1>2, <2>1 DEF AddSample
  <2>3. /\ kept \in Seq(SampleType) /\ NoDip(rule, kept, n)
        /\ Len(kept) \in Nat /\ Len(kept) + 1 <= maximum
    <3>1. CASE samples = <<>>
      BY <2>1, <3>1
    <3>2. CASE samples # <<>>
      <4>1. NoDip(rule, Tail(samples), n)
        BY <3>2, ShortenedNoDip
      <4>2. Tail(samples) \in Seq(SampleType) /\ Len(Tail(samples)) = Len(samples) - 1
        BY <3>2, HeadTailProperties
      <4> QED BY <2>1, <4>1, <4>2, LenProperties
    <3> QED BY <3>1, <3>2
  <2>4. /\ added \in Seq(SampleType)
        /\ DOMAIN added = 1 .. Len(kept) + 1 /\ Len(added) = Len(kept) + 1
        /\ added[Len(kept) + 1] = sample
        /\ \A i \in 1 .. Len(kept) : added[i] = kept[i]
    BY <2>2, <2>3, AppendProperties, LenProperties
  <2>5. LastOf(added) = sample /\ added # <<>> /\ added # samples
    <3>1. LastOf(added) = sample /\ added # <<>>
      BY <2>3, <2>4 DEF LastOf
    <3> QED BY <1>2, <3>1
  <2>6. CASE ~Compare(rule.op, sample.value, rule.threshold)
    BY <2>3, <2>4, <2>5, <2>6, FailedLast
  <2>7. CASE Compare(rule.op, sample.value, rule.threshold)
    <3>1. newCount = IF n < maximum THEN n + 1 ELSE n
      BY <2>5, <2>7
    <3> SUFFICES ASSUME NEW i \in DOMAIN added,
                        \A j \in i .. Len(added) :
                            Compare(rule.op, added[j].value, rule.threshold)
                 PROVE  i + newCount > Len(added)
      BY <2>3, <2>4 DEF NoDip
    <3>2. CASE n >= maximum
      BY <2>3, <2>4, <3>1, <3>2
    <3>3. CASE i = Len(kept) + 1 /\ n < maximum
      BY <2>3, <2>4, <3>1, <3>3
    <3>4. CASE i # Len(kept) + 1 /\ n < maximum
      <4>1. i \in DOMAIN kept
        BY <2>3, <2>4, <3>4
      <4>2. ASSUME NEW j \in i .. Len(kept)
            PROVE  Compare(rule.op, kept[j].value, rule.threshold)
        <5>1. j \in i .. Len(added) /\ added[j] = kept[j]
          BY <2>3, <2>4, <4>1
        <5> QED BY <5>1
      <4>3. i + n > Len(kept)
        BY <2>3, <4>1, <4>2 DEF NoDip
      <4> QED BY <2>3, <2>4, <3>1, <3>4, <4>3
    <3> QED BY <2>4, <3>2, <3>3, <3>4
  <2> QED BY <2>6, <2>7
<1> QED BY <1>1, <1>2

\* A recording, whatever the time it gives its samples.
LEMMA RecordedDips ==
    ASSUME Typed, DipsAreCounted, NEW at \in Nat, RecordSamples(at),
           mirror' \in [Field -> Read], owner' \in [Field -> MaybeSerial]
    PROVE  DipsAreCounted'
<1> DEFINE sample(m) == Sample(ReadingOf(mirror', m), at, owner'[m])
           Fails(i) == /\ ReadingOf(mirror', Rules[i].metric) # None
                       /\ ~Compare(Rules[i].op, ReadingOf(mirror', Rules[i].metric),
                                   Rules[i].threshold)
<1>1. steady' = [i \in DOMAIN Rules |->
          IF Fails(i) THEN 0
          ELSE IF /\ history'[Rules[i].metric] # history[Rules[i].metric]
                  /\ steady[i] < Retention[Rules[i].metric]
               THEN steady[i] + 1 ELSE steady[i]]
  BY DEF RecordSamples
<1>2. \A m \in Metric : history'[m] = AddSample(history[m], sample(m), Retention[m])
  BY DEF RecordSamples
<1>3. ASSUME NEW m \in Metric
      PROVE  sample(m) \in SampleType /\ sample(m).value = ReadingOf(mirror', m)
  <2>1. sample(m) \in SampleType
    BY RecordedSample
  <2> QED BY <2>1 DEF Sample
<1>4. \A m \in Metric : Retention[m] \in Nat \ {0} /\ history[m] \in Seq(SampleType)
                        /\ Len(history[m]) <= Retention[m]
  BY IntelligenceAssumption DEF Typed, DipsAreCounted
<1> HIDE DEF sample
<1>5. ASSUME NEW m \in Metric PROVE Len(history'[m]) <= Retention[m]
  <2>1. Len(AddSample(history[m], sample(m), Retention[m])) <= Retention[m]
    BY <1>3, <1>4, AddedLength
  <2> QED BY <1>2, <2>1
<1>6. steady' \in [DOMAIN Rules -> Nat]
  <2> HIDE DEF Fails
  <2> QED BY <1>1 DEF DipsAreCounted
<1>7. ASSUME NEW k \in DOMAIN Rules
      PROVE  NoDip(Rules[k], history'[Rules[k].metric], steady'[k])
  <2>1. Rules[k].metric \in Metric
    BY IntelligenceAssumption
  <2>2. PICK rule, m, taken, n : /\ rule = Rules[k] /\ m = Rules[k].metric
                                 /\ taken = sample(Rules[k].metric) /\ n = steady[k]
    OBVIOUS
  <2>3. taken \in SampleType /\ taken.value = ReadingOf(mirror', m)
    BY <1>3, <2>1, <2>2
  <2>4. n \in Nat /\ NoDip(rule, history[m], n)
    BY <2>2 DEF DipsAreCounted
  <2>5. PICK added, newCount : added = history'[m] /\ newCount = steady'[k]
    OBVIOUS
  <2>6. added = AddSample(history[m], taken, Retention[m])
    BY <1>2, <2>1, <2>2, <2>5
  <2>7. newCount = IF taken.value # None /\ ~Compare(rule.op, taken.value, rule.threshold)
                   THEN 0
                   ELSE IF added # history[m] /\ n < Retention[m] THEN n + 1 ELSE n
    BY <1>1, <2>1, <2>2, <2>3, <2>5
  <2>8. PICK samples, maximum : samples = history[m] /\ maximum = Retention[m]
    OBVIOUS
  <2>9. /\ samples \in Seq(SampleType) /\ maximum \in Nat \ {0} /\ Len(samples) <= maximum
        /\ NoDip(rule, samples, n) /\ added = AddSample(samples, taken, maximum)
        /\ newCount = IF taken.value # None /\ ~Compare(rule.op, taken.value, rule.threshold)
                      THEN 0 ELSE IF added # samples /\ n < maximum THEN n + 1 ELSE n
    BY <1>4, <2>1, <2>2, <2>4, <2>6, <2>7, <2>8
  <2>10. NoDip(rule, added, newCount)
    BY <2>3, <2>4, <2>9, AddedNoDip
  <2> QED BY <2>2, <2>5, <2>10
<1> QED BY <1>5, <1>6, <1>7 DEF DipsAreCounted

\* The rules that fire did not fire over a dip.
LEMMA FiresAfterDips ==
    ASSUME DipsAreCounted', history' \in [Metric -> Seq(SampleType)], NEW log,
           EvaluateIntelligence(log)
    PROVE  SustainedRuleSawNoDip'
<1>1. CASE ~(state' = "CONNECTED")
  BY <1>1 DEF EvaluateIntelligence, EvaluateDisconnected, SustainedRuleSawNoDip
<1>2. CASE state' = "CONNECTED"
  <2>0. EvaluateConnected(log)
    BY <1>2 DEF EvaluateIntelligence
  <2>1. PICK firing : firing = Evaluate(Rules, fired, history', now)
    OBVIOUS
  <2>2. /\ DOMAIN fires' = firing
        /\ \A i \in firing : fires'[i] =
           [id |-> Rules[i].id, value |-> LastOf(history'[Rules[i].metric]).value,
            since |-> Satisfied(Rules[i], history'[Rules[i].metric])]
    BY <2>0, <2>1 DEF EvaluateConnected
  <2> SUFFICES ASSUME NEW i \in DOMAIN Rules, i \in firing, Rules[i].duration # None
               PROVE  \E k \in DOMAIN history'[Rules[i].metric] :
                         /\ k + steady'[i] > Len(history'[Rules[i].metric])
                         /\ history'[Rules[i].metric][k].at =
                               Satisfied(Rules[i], history'[Rules[i].metric])
    BY <2>2 DEF SustainedRuleSawNoDip
  <2>3. /\ i \in DOMAIN Rules
        /\ Satisfied(Rules[i], history'[Rules[i].metric]) # None
    BY <2>1 DEF Evaluate
  <2>4. PICK rule, samples, n : /\ rule = Rules[i] /\ samples = history'[Rules[i].metric]
                                /\ n = steady'[i]
    OBVIOUS
  <2>5. samples \in Seq(SampleType) /\ NoDip(rule, samples, n)
    BY <2>3, <2>4, IntelligenceAssumption DEF DipsAreCounted
  <2>6. \E k \in DOMAIN samples :
            k + n > Len(samples) /\ samples[k].at = Satisfied(rule, samples)
    BY <2>3, <2>4, <2>5, SustainedAfterDip
  <2> QED BY <2>4, <2>6
<1> QED BY <1>1, <1>2

\* A history without samples.
LEMMA NothingCounted ==
    ASSUME history = EmptyHistory, steady = [i \in DOMAIN Rules |-> 0]
    PROVE  DipsAreCounted /\ SustainedRuleSawNoDip
<1>1. DipsAreCounted
  BY IntelligenceAssumption DEF DipsAreCounted, EmptyHistory, NoDip
<1>2. \A i \in DOMAIN Rules : history[Rules[i].metric] = <<>>
  BY IntelligenceAssumption DEF EmptyHistory
<1>3. SustainedRuleSawNoDip
  BY <1>2 DEF SustainedRuleSawNoDip
<1> QED BY <1>1, <1>3

\* The history that a session begins with.
LEMMA NothingCountedThen ==
    ASSUME history' = EmptyHistory, steady' = [i \in DOMAIN Rules |-> 0]
    PROVE  DipsAreCounted' /\ SustainedRuleSawNoDip'
<1>1. DipsAreCounted'
  BY IntelligenceAssumption DEF DipsAreCounted, EmptyHistory, NoDip
<1>2. \A i \in DOMAIN Rules : history'[Rules[i].metric] = <<>>
  BY IntelligenceAssumption DEF EmptyHistory
<1>3. SustainedRuleSawNoDip'
  BY <1>2 DEF SustainedRuleSawNoDip
<1> QED BY <1>1, <1>3

\* No rule has fired and nothing is recorded.
LEMMA DipsStart == IntelligenceInit => DipsAreCounted /\ SustainedRuleSawNoDip
BY NothingCounted DEF IntelligenceInit

\* Every step keeps the count, and the rules that fired after their last dip.
LEMMA DipsStep ==
    IInv /\ DipsAreCounted /\ SustainedRuleSawNoDip /\ IInv'
       /\ [IntelligenceNext]_intelligenceVars
    => DipsAreCounted' /\ SustainedRuleSawNoDip'
<1> SUFFICES ASSUME IInv, DipsAreCounted, SustainedRuleSawNoDip, IInv',
                    [IntelligenceNext]_intelligenceVars
             PROVE  DipsAreCounted' /\ SustainedRuleSawNoDip'
  OBVIOUS
<1> USE DEF mirrorVars, packageVars, engineVars
<1>t. /\ Typed /\ now \in Nat
      /\ mirror' \in [Field -> Read] /\ owner' \in [Field -> MaybeSerial]
      /\ history' \in [Metric -> Seq(SampleType)]
  BY DEF IInv, Typed
<1>1. ASSUME UNCHANGED <<history, steady>> PROVE DipsAreCounted'
  BY <1>1 DEF DipsAreCounted
<1>2. ASSUME UNCHANGED <<fires, history, steady>> PROVE SustainedRuleSawNoDip'
  BY <1>2 DEF SustainedRuleSawNoDip
<1>3. ASSUME NEW at \in Nat, RecordSamples(at), EvaluateIntelligence(timeline)
      PROVE  DipsAreCounted' /\ SustainedRuleSawNoDip'
  BY <1>t, <1>3, RecordedDips, FiresAfterDips
<1>4. CASE \/ OnConnected \/ OnConnectFailed \/ OnPerformanceEvents \/ TimePasses
           \/ \E s \in {"CONNECTED"} \cup KeptState : OnTickState(s)
  BY <1>1, <1>2, <1>4 DEF OnConnected, OnConnectFailed, OnPerformanceEvents, OnTickState, TimePasses
<1>5. ASSUME NEW s \in Serial, OnSerialReady(s) PROVE DipsAreCounted' /\ SustainedRuleSawNoDip'
  <2>1. history' = EmptyHistory /\ steady' = [i \in DOMAIN Rules |-> 0]
    BY <1>5 DEF OnSerialReady, BeginSession
  <2> QED BY <2>1, NothingCountedThen
<1>6. CASE OnDeviceLost
  <2>1. UNCHANGED <<history, steady>> /\ fires' = <<>>
    BY <1>6 DEF OnDeviceLost, ClearWindow
  <2> QED BY <1>1, <2>1 DEF SustainedRuleSawNoDip
<1>7. CASE OnSnapshots
  <2>0. PICK s \in Snapshots : \E at \in SampledAt(s.cpu) : RecordSamples(at)
    BY <1>7 DEF OnSnapshots
  <2>1. PICK at \in SampledAt(s.cpu) : RecordSamples(at)
    BY <2>0
  <2>2. at \in Nat
    BY <1>t, <2>1 DEF SampledAt
  <2> QED BY <1>3, <1>7, <2>1, <2>2 DEF OnSnapshots
<1>8. CASE OnEmptySnapshots \/ OnStorage
  BY <1>t, <1>3, <1>8 DEF OnEmptySnapshots, OnStorage
<1>9. CASE OnPackagesReady \/ OnInventoryReady
  <2>1. UNCHANGED <<history, steady>> /\ EvaluateIntelligence(timeline)
    BY <1>9 DEF OnPackagesReady, OnInventoryReady
  <2> QED BY <1>t, <1>1, <2>1, FiresAfterDips
<1>10. CASE UNCHANGED intelligenceVars
  BY <1>1, <1>2, <1>10 DEF intelligenceVars
<1> QED BY <1>4, <1>5, <1>6, <1>7, <1>8, <1>9, <1>10 DEF IntelligenceNext

\* A rule with a duration fires only on a run its condition held throughout,
\* whatever the dates of the samples and the order they were handled in: what
\* the history leaves out as a repetition, or drops to make room, hides no dip.
THEOREM SustainedRulesSeeDips == IntelligenceSpec => []SustainedRuleSawNoDip
<1>1. DipsAreCounted /\ SustainedRuleSawNoDip /\ IInv /\ IInv'
         /\ [IntelligenceNext]_intelligenceVars
      => (DipsAreCounted /\ SustainedRuleSawNoDip)'
  BY DipsStep
<1> QED BY <1>1, DipsStart, AlwaysIInv, PTL DEF IntelligenceSpec

=============================================================================
