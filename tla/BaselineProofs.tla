---------------------------- MODULE BaselineProofs ---------------------------
(***************************************************************************)
(* What is proved of BaselineFlow, for every set of phones, of files and   *)
(* of reads, and however long the runs.  The panel's lock is what keeps a  *)
(* drift report and the baseline it is shown with together: while it is    *)
(* held, one operation is under way and the baseline does not change       *)
(* (OneOperation).  Loading a stored baseline is the one thing that does   *)
(* not ask for the lock.  Where a baseline was read follows it from the    *)
(* capture through the queue of results into the files (Provenance).       *)
(***************************************************************************)
EXTENDS BaselineFlow, SequenceTheorems, TLAPS

Quiet == ~locked /\ requests = <<>> /\ results = <<>>

\* An operation waits for the worker: a check or an export is of this baseline.
Waiting ==
    /\ locked /\ results = <<>>
    /\ \E r : /\ requests = <<r>>
              /\ r.kind # "save" => baseline # None /\ r.baseline = baseline

\* Its answer waits for the window: a check was against this baseline.
Replied ==
    /\ locked /\ requests = <<>>
    /\ \E a : /\ results = <<a>>
              /\ a.kind = "checked" => baseline # None /\ a.report.baseline = baseline.id

OneOperation == ~intruded => Quiet \/ Waiting \/ Replied

IInv == OneOperation /\ DriftOfThisBaseline

\* The first state satisfies the invariant.
LEMMA IInvInit == BaselineInit => IInv
BY DEF BaselineInit, ProgramInit, IInv, OneOperation, Quiet, DriftOfThisBaseline

\* A request is made only when the panel is free, and takes its lock.
LEMMA RequestStep ==
    ASSUME IInv, NEW kind, NEW subject, PanelFree, Request(kind, subject),
           kind # "save" => baseline # None /\ subject = baseline
    PROVE  IInv'
<1>1. DriftOfThisBaseline'
  BY DEF Request, IInv, DriftOfThisBaseline, checkVars
<1>2. CASE intruded
  BY <1>1, <1>2 DEF Request, IInv, OneOperation
<1>3. CASE ~intruded
  <2>1. Quiet
    BY <1>3 DEF IInv, OneOperation, Quiet, Waiting, Replied, PanelFree
  <2>2. requests' = <<[kind |-> kind, baseline |-> subject]>>
    BY <2>1 DEF Request, Quiet
  <2>3. locked' /\ results' = <<>> /\ baseline' = baseline
    BY <2>1 DEF Request, Quiet
  <2> DEFINE r == [kind |-> kind, baseline |-> subject]
  <2>4. r.kind = kind /\ r.baseline = subject
    OBVIOUS
  <2>5. Waiting'
    BY <2>2, <2>3, <2>4 DEF Waiting
  <2> QED BY <1>1, <2>5 DEF IInv, OneOperation
<1> QED BY <1>2, <1>3

\* The worker answers what it was asked, and only that.
LEMMA AnswerStep ==
    ASSUME IInv, NEW result, requests # <<>>, Answered(result),
           result.kind = "checked" =>
              /\ Head(requests).kind # "save"
              /\ result.report.baseline = Head(requests).baseline.id
    PROVE  IInv'
<1>1. DriftOfThisBaseline'
  BY DEF Answered, IInv, DriftOfThisBaseline, checkVars
<1>2. CASE intruded
  BY <1>1, <1>2 DEF Answered, IInv, OneOperation
<1>3. CASE ~intruded
  <2>1. Waiting
    BY <1>3 DEF IInv, OneOperation, Quiet, Waiting, Replied
  <2>2. PICK r : /\ requests = <<r>>
                 /\ r.kind # "save" => baseline # None /\ r.baseline = baseline
    BY <2>1 DEF Waiting
  <2>3. Head(requests) = r /\ Tail(requests) = <<>>
    BY <2>2
  <2>4. requests' = <<>> /\ results' = <<result>> /\ locked' /\ baseline' = baseline
    BY <2>1, <2>3 DEF Answered, Waiting
  <2>5. result.kind = "checked" => baseline # None /\ result.report.baseline = baseline.id
    BY <2>2, <2>3
  <2>6. Replied'
    BY <2>4, <2>5 DEF Replied
  <2> QED BY <1>1, <2>6 DEF IInv, OneOperation
<1> QED BY <1>2, <1>3

\* Whatever answer the window takes, the panel is free again.
LEMMA AnswerTaken ==
    ASSUME IInv, ~intruded, NEW kind, Received(kind), requests' = requests, ~locked'
    PROVE  /\ Quiet'
           /\ kind = "checked" => baseline # None /\ Head(results).report.baseline = baseline.id
<1>1. Replied
  BY DEF IInv, OneOperation, Quiet, Waiting, Received
<1>2. PICK a : /\ results = <<a>>
               /\ a.kind = "checked" => baseline # None /\ a.report.baseline = baseline.id
  BY <1>1 DEF Replied
<1>3. Head(results) = a /\ Tail(results) = <<>>
  BY <1>2
<1>4. results' = <<>> /\ requests' = <<>>
  BY <1>1, <1>3 DEF Received, Replied
<1> QED BY <1>2, <1>3, <1>4 DEF Received, Quiet

\* Every step keeps the invariant.
LEMMA IInvStep == IInv /\ [BaselineNext]_baselineVars => IInv'
<1> SUFFICES ASSUME IInv, [BaselineNext]_baselineVars PROVE IInv'
  OBVIOUS
<1>1. CASE OnSerialReady
  <2>1. CASE baseline = None /\ Load(Head(signals)) # None
    <3>1. /\ Adopt(Load(Head(signals)), "loaded")
          /\ intruded' = (requests # <<>> \/ results # <<>>)
          /\ UNCHANGED <<requests, results>>
      BY <1>1, <2>1 DEF OnSerialReady
    <3>2. ~intruded' => Quiet'
      BY <3>1 DEF Adopt, Quiet
    <3>3. drift' = None
      BY <3>1 DEF Adopt
    <3> QED BY <3>2, <3>3 DEF IInv, OneOperation, DriftOfThisBaseline
  <2>2. CASE ~(baseline = None /\ Load(Head(signals)) # None)
    BY <1>1, <2>2 DEF OnSerialReady, IInv, OneOperation, Quiet, Waiting, Replied,
                      DriftOfThisBaseline, checkVars
  <2> QED BY <2>1, <2>2
<1>2. CASE SaveClicked
  BY <1>2, RequestStep DEF SaveClicked
<1>3. CASE CheckClicked
  BY <1>3, RequestStep DEF CheckClicked
<1>4. CASE ExportClicked
  BY <1>4, RequestStep DEF ExportClicked
<1>5. CASE WorkerReads
  <2>1. PICK read \in Reads :
          LET snapshot == NewSnapshot(read)
              report == DiffSnapshot(Head(requests).baseline, snapshot)
          IN  Answered(IF Head(requests).kind = "save"
                       THEN [kind |-> "saved", snapshot |-> NewBaseline(snapshot)]
                       ELSE [kind |-> "checked", snapshot |-> snapshot, report |-> report,
                             heuristics |-> EvaluateHeuristics(report, snapshot)])
    BY <1>5 DEF WorkerReads, Building
  <2> DEFINE report == DiffSnapshot(Head(requests).baseline, NewSnapshot(read))
             saved == [kind |-> "saved", snapshot |-> NewBaseline(NewSnapshot(read))]
             checked == [kind |-> "checked", snapshot |-> NewSnapshot(read), report |-> report,
                         heuristics |-> EvaluateHeuristics(report, NewSnapshot(read))]
  <2>2. report.baseline = Head(requests).baseline.id
    BY DEF DiffSnapshot
  <2>3. saved.kind = "saved" /\ checked.kind = "checked" /\ checked.report = report
    OBVIOUS
  <2>4. requests # <<>>
    BY <1>5 DEF WorkerReads, Building
  <2> HIDE DEF report, saved
  <2>5. CASE Head(requests).kind = "save"
    <3>1. Answered(saved)
      BY <2>1, <2>5 DEF saved
    <3> QED BY <2>3, <2>4, <3>1, AnswerStep
  <2>6. CASE Head(requests).kind # "save"
    <3>1. Answered(checked)
      BY <2>1, <2>6 DEF report
    <3> HIDE DEF checked
    <3> QED BY <2>2, <2>3, <2>4, <2>6, <3>1, AnswerStep
  <2> QED BY <2>5, <2>6
<1>6. CASE WorkerFails
  <2>1. Answered(Failed) /\ requests # <<>> /\ Failed.kind # "checked"
    BY <1>6 DEF WorkerFails, Building, Failed
  <2> QED BY <2>1, AnswerStep
<1>7. CASE WorkerExports
  <2> DEFINE exported == [kind |-> "exported"]
  <2>1. Answered(exported) /\ requests # <<>> /\ exported.kind # "checked"
    BY <1>7 DEF WorkerExports
  <2> HIDE DEF exported
  <2> QED BY <2>1, AnswerStep
<1>8. CASE OnBaselineSaved
  <2>1. /\ Received("saved") /\ Adopt(Head(results).snapshot, "created")
        /\ requests' = requests /\ intruded' = intruded
    BY <1>8 DEF OnBaselineSaved
  <2>2. ~locked' /\ drift' = None
    BY <2>1 DEF Adopt
  <2>3. ~intruded => Quiet'
    BY <2>1, <2>2, AnswerTaken
  <2> QED BY <2>1, <2>2, <2>3 DEF IInv, OneOperation, DriftOfThisBaseline
<1>9. CASE OnDriftChecked
  <2>1. /\ Received("checked") /\ drift' = Head(results).report /\ ~locked'
        /\ UNCHANGED <<requests, baseline, intruded>>
    BY <1>9 DEF OnDriftChecked
  <2>2. ~intruded => Quiet' /\ baseline # None /\ Head(results).report.baseline = baseline.id
    BY <2>1, AnswerTaken
  <2> QED BY <2>1, <2>2 DEF IInv, OneOperation, DriftOfThisBaseline
<1>10. CASE OnOperationEnded
  <2>1. /\ ~locked' /\ UNCHANGED <<requests, baseline, drift, intruded>>
        /\ Received("failed") \/ Received("exported")
    BY <1>10 DEF OnOperationEnded, checkVars
  <2>2. ~intruded => Quiet'
    BY <2>1, AnswerTaken
  <2> QED BY <2>1, <2>2 DEF IInv, OneOperation, DriftOfThisBaseline
<1>11. CASE Restart
  BY <1>11 DEF Restart, IInv, OneOperation, Quiet, DriftOfThisBaseline
<1>12. CASE UNCHANGED <<requests, results, baseline, drift, locked, intruded>>
  BY <1>12 DEF IInv, OneOperation, Quiet, Waiting, Replied, DriftOfThisBaseline
<1>13. WorkerStarts \/ WorkerReadsProcesses
       => UNCHANGED <<requests, results, baseline, drift, locked, intruded>>
  BY DEF WorkerStarts, WorkerReadsProcesses, queueVars, checkVars
<1>14. ConnectionChanges \/ OnDeviceLost \/ (\E k \in Observed : OnMonitorSample(k))
         \/ UNCHANGED baselineVars
       => UNCHANGED <<requests, results, baseline, drift, locked, intruded>>
  BY DEF ConnectionChanges, OnDeviceLost, OnMonitorSample, baselineVars, queueVars, checkVars
<1> QED BY <1>1, <1>2, <1>3, <1>4, <1>5, <1>6, <1>7, <1>8, <1>9, <1>10, <1>11, <1>12, <1>13,
           <1>14 DEF BaselineNext

\* A drift report is shown with the baseline it was computed against, whatever
\* is clicked and however phones come and go, unless a stored baseline was
\* adopted while an operation was under way.
THEOREM DriftMatchesBaseline == BaselineSpec => []DriftOfThisBaseline
<1>1. IInv => DriftOfThisBaseline
  BY DEF IInv
<1> QED BY <1>1, IInvInit, IInvStep, PTL DEF BaselineSpec

-----------------------------------------------------------------------------
(* Where a baseline was read. *)

\* All of a baseline is of the phone it is named after, unless the connection moved.
Own(snapshot) == snapshot.of = {snapshot.serial} \/ snapshot.moved

\* Until the connection moves, a capture reads the phone that it asked the serial of.
CaptureIsOwn ==
    capture # None => capture.moved \/ (capture.serial = device /\ capture.of \subseteq {device})

SavesAreOwn == \A i \in DOMAIN results : results[i].kind = "saved" => Own(results[i].snapshot)
FilesAreOwn == \A f \in File : store[f] # None => Own(store[f])

Provenance ==
    /\ signals \in Seq(MaybeSerial) /\ (\E S : results \in Seq(S)) /\ DOMAIN store = File
    /\ CaptureIsOwn /\ SavesAreOwn /\ FilesAreOwn

\* Nothing has been read.
LEMMA ProvenanceInit == BaselineInit => Provenance
<1> SUFFICES ASSUME BaselineInit PROVE Provenance
  OBVIOUS
<1>1. results = <<>> /\ signals = <<>> /\ capture = None /\ store = [f \in File |-> None]
  BY DEF BaselineInit, ProgramInit
<1>2. results \in Seq({}) /\ signals \in Seq(MaybeSerial)
  BY <1>1
<1> QED BY <1>1, <1>2 DEF Provenance, CaptureIsOwn, SavesAreOwn, FilesAreOwn

\* An answer joins the queue.
LEMMA AppendedResult ==
    ASSUME SavesAreOwn, NEW S, results \in Seq(S), NEW result,
           result.kind = "saved" => Own(result.snapshot), Answered(result)
    PROVE  SavesAreOwn' /\ (\E T : results' \in Seq(T)) /\ UNCHANGED <<signals, store, device>>
<1>1. PICK all : all = S \cup {result}
  OBVIOUS
<1>2. results \in Seq(all) /\ result \in all
  <2>1. results \in [1 .. Len(results) -> S] /\ Len(results) \in Nat
    OBVIOUS
  <2> QED BY <1>1, <2>1
<1>3. results' = Append(results, result) /\ UNCHANGED <<signals, store, device>>
  BY DEF Answered
<1>4. /\ results' \in Seq(all) /\ DOMAIN results' = 1 .. Len(results) + 1
      /\ results'[Len(results) + 1] = result
      /\ \A i \in 1 .. Len(results) : results'[i] = results[i]
  BY <1>2, <1>3, AppendProperties, LenProperties
<1>5. ASSUME NEW i \in DOMAIN results', results'[i].kind = "saved" PROVE Own(results'[i].snapshot)
  <2>1. CASE i = Len(results) + 1
    BY <1>4, <1>5, <2>1
  <2>2. CASE i # Len(results) + 1
    <3>1. i \in 1 .. Len(results) /\ results'[i] = results[i]
      BY <1>2, <1>4, <2>2, LenProperties
    <3> QED BY <1>2, <1>5, <3>1, LenProperties DEF SavesAreOwn
  <2> QED BY <2>1, <2>2
<1> QED BY <1>3, <1>4, <1>5 DEF SavesAreOwn

\* An answer leaves the queue, and is what was put into it.
LEMMA TakenResult ==
    ASSUME SavesAreOwn, NEW S, results \in Seq(S), NEW kind, Received(kind)
    PROVE  /\ SavesAreOwn' /\ (\E T : results' \in Seq(T))
           /\ kind = "saved" => Own(Head(results).snapshot)
<1>1. results # <<>> /\ Head(results).kind = kind /\ results' = Tail(results)
  BY DEF Received
<1>2. /\ Tail(results) \in Seq(S) /\ Head(results) = results[1] /\ Len(results) \in Nat \ {0}
      /\ Len(Tail(results)) = Len(results) - 1
      /\ \A i \in 1 .. Len(Tail(results)) : Tail(results)[i] = results[i + 1]
  BY <1>1, HeadTailProperties, EmptySeq, LenProperties
<1>3. 1 \in DOMAIN results
  BY <1>2, LenProperties
<1>4. ASSUME NEW i \in DOMAIN results' PROVE \E j \in DOMAIN results : results'[i] = results[j]
  <2>1. i \in 1 .. Len(Tail(results)) /\ i + 1 \in DOMAIN results
    BY <1>1, <1>2, LenProperties
  <2> QED BY <1>1, <1>2, <2>1
<1>5. SavesAreOwn'
  BY <1>4 DEF SavesAreOwn
<1> QED BY <1>1, <1>2, <1>3, <1>5 DEF SavesAreOwn

\* Every step keeps track of where baselines come from.
LEMMA ProvenanceStep == Provenance /\ [BaselineNext]_baselineVars => Provenance'
<1> SUFFICES ASSUME Provenance, [BaselineNext]_baselineVars PROVE Provenance'
  OBVIOUS
<1> USE DEF queueVars, checkVars
<1>1. PICK S : results \in Seq(S)
  BY DEF Provenance
<1>2. ASSUME UNCHANGED <<results, store>> PROVE (SavesAreOwn /\ FilesAreOwn)'
  BY <1>2 DEF Provenance, SavesAreOwn, FilesAreOwn
<1>3. ASSUME UNCHANGED store PROVE FilesAreOwn'
  BY <1>3 DEF Provenance, FilesAreOwn
<1>4. ASSUME UNCHANGED <<capture, device>> PROVE CaptureIsOwn'
  BY <1>4 DEF Provenance, CaptureIsOwn
<1>5. CASE ConnectionChanges
  <2>1. signals' \in Seq(MaybeSerial) /\ UNCHANGED <<results, store>>
    BY <1>5 DEF ConnectionChanges, Provenance
  <2>2. CaptureIsOwn'
    <3>1. CASE capture # None /\ device' # device
      <4>1. capture' = [capture EXCEPT !.moved = TRUE]
        BY <1>5, <3>1 DEF ConnectionChanges
      <4> QED BY <3>1, <4>1 DEF Provenance, CaptureIsOwn
    <3>2. CASE ~(capture # None /\ device' # device)
      <4>1. capture' = capture
        BY <1>5, <3>2 DEF ConnectionChanges
      <4> QED BY <3>2, <4>1 DEF Provenance, CaptureIsOwn
    <3> QED BY <3>1, <3>2
  <2> QED BY <1>1, <1>2, <2>1, <2>2 DEF Provenance
<1>6. CASE OnSerialReady \/ OnDeviceLost
  <2>1. /\ UNCHANGED <<device, capture, results, store>> /\ signals # <<>>
        /\ signals' = Tail(signals)
    BY <1>6 DEF OnSerialReady, OnDeviceLost
  <2>2. signals' \in Seq(MaybeSerial)
    BY <2>1, HeadTailProperties DEF Provenance
  <2> QED BY <1>1, <1>2, <1>4, <2>1, <2>2 DEF Provenance
<1>7. CASE SaveClicked \/ CheckClicked \/ ExportClicked \/ (\E k \in Observed : OnMonitorSample(k))
           \/ UNCHANGED baselineVars
  <2>1. UNCHANGED <<device, capture, signals, results, store>>
    BY <1>7 DEF SaveClicked, CheckClicked, ExportClicked, Request, OnMonitorSample, baselineVars
  <2> QED BY <1>1, <1>2, <1>4, <2>1 DEF Provenance
<1>8. CASE WorkerStarts
  <2>1. /\ capture' = [serial |-> device, processes |-> {}, of |-> {}, moved |-> FALSE]
        /\ UNCHANGED <<device, signals, results, store>>
    BY <1>8 DEF WorkerStarts
  <2>2. CaptureIsOwn'
    BY <2>1 DEF CaptureIsOwn
  <2> QED BY <1>1, <1>2, <2>1, <2>2 DEF Provenance
<1>9. CASE WorkerReadsProcesses
  <2>1. PICK read \in Reads :
           capture' = [capture EXCEPT !.processes = read.processes, !.of = {device}]
    BY <1>9 DEF WorkerReadsProcesses
  <2>2. capture # None /\ UNCHANGED <<device, signals, results, store>>
    BY <1>9 DEF WorkerReadsProcesses
  <2>3. CaptureIsOwn'
    <3>1. capture.moved \/ (capture.serial = device /\ capture.of \subseteq {device})
      BY <2>2 DEF Provenance, CaptureIsOwn
    <3>2. capture' # None => capture'.moved \/ (capture'.serial = device
                                               /\ capture'.of \subseteq {device})
      BY <2>1, <3>1
    <3> QED BY <2>2, <3>2 DEF CaptureIsOwn
  <2> QED BY <1>1, <1>2, <2>2, <2>3 DEF Provenance
<1>10. CASE WorkerReads
  <2>1. PICK read \in Reads :
          LET snapshot == NewSnapshot(read)
              report == DiffSnapshot(Head(requests).baseline, snapshot)
          IN  Answered(IF Head(requests).kind = "save"
                       THEN [kind |-> "saved", snapshot |-> NewBaseline(snapshot)]
                       ELSE [kind |-> "checked", snapshot |-> snapshot, report |-> report,
                             heuristics |-> EvaluateHeuristics(report, snapshot)])
    BY <1>10 DEF WorkerReads
  <2> DEFINE built == NewBaseline(NewSnapshot(read))
             saved == [kind |-> "saved", snapshot |-> built]
             report == DiffSnapshot(Head(requests).baseline, NewSnapshot(read))
             checked == [kind |-> "checked", snapshot |-> NewSnapshot(read), report |-> report,
                         heuristics |-> EvaluateHeuristics(report, NewSnapshot(read))]
  <2>2. Own(built)
    <3>1. /\ built.serial = capture.serial /\ built.of = capture.of \cup {device}
          /\ built.moved = capture.moved
      BY DEF NewBaseline, NewSnapshot, Snapshot
    <3>2. capture.moved \/ (capture.serial = device /\ capture.of \subseteq {device})
      BY <1>10 DEF WorkerReads, Provenance, CaptureIsOwn
    <3> HIDE DEF built
    <3> QED BY <3>1, <3>2 DEF Own
  <2>3. saved.kind = "saved" /\ saved.snapshot = built /\ checked.kind = "checked"
    OBVIOUS
  <2>4. PICK result : Answered(result) /\ (result.kind = "saved" => Own(result.snapshot))
    <3> HIDE DEF built, report
    <3>1. CASE Head(requests).kind = "save"
      <4>1. Answered(saved)
        BY <2>1, <3>1 DEF built
      <4> HIDE DEF saved
      <4> QED BY <2>2, <2>3, <4>1
    <3>2. CASE Head(requests).kind # "save"
      <4>1. Answered(checked)
        BY <2>1, <3>2 DEF report
      <4> HIDE DEF checked
      <4> QED BY <2>3, <4>1
    <3> QED BY <3>1, <3>2
  <2>5. capture' = None
    BY <1>10 DEF WorkerReads
  <2> QED BY <1>1, <1>3, <2>4, <2>5, AppendedResult DEF Provenance, CaptureIsOwn
<1>11. CASE WorkerFails
  <2>1. Answered(Failed) /\ capture' = None /\ Failed.kind # "saved"
    BY <1>11 DEF WorkerFails, Failed
  <2> QED BY <1>1, <1>3, <2>1, AppendedResult DEF Provenance, CaptureIsOwn
<1>12. CASE WorkerExports
  <2> DEFINE exported == [kind |-> "exported"]
  <2>1. Answered(exported) /\ capture' = capture /\ exported.kind # "saved"
    BY <1>12 DEF WorkerExports
  <2> HIDE DEF exported
  <2>2. SavesAreOwn' /\ (\E T : results' \in Seq(T)) /\ UNCHANGED <<signals, store, device>>
    BY <1>1, <2>1, AppendedResult DEF Provenance
  <2> QED BY <1>3, <1>4, <2>1, <2>2 DEF Provenance
<1>13. CASE OnBaselineSaved
  <2> DEFINE snapshot == Head(results).snapshot
  <2>1. /\ Received("saved") /\ UNCHANGED <<device, capture, signals>>
        /\ store' \in {store, [store EXCEPT ![FileOf[snapshot.serial]] = snapshot]}
    BY <1>13 DEF OnBaselineSaved
  <2>2. SavesAreOwn' /\ (\E T : results' \in Seq(T)) /\ Own(snapshot)
    BY <1>1, <2>1, TakenResult DEF Provenance
  <2>3. DOMAIN store' = File /\ FilesAreOwn'
    BY <2>1, <2>2 DEF Provenance, FilesAreOwn
  <2> QED BY <1>4, <2>1, <2>2, <2>3 DEF Provenance
<1>14. CASE OnDriftChecked
  <2>1. Received("checked") /\ UNCHANGED <<device, capture, signals, store>>
    BY <1>14 DEF OnDriftChecked
  <2> QED BY <1>1, <1>3, <1>4, <2>1, TakenResult DEF Provenance
<1>15. CASE OnOperationEnded
  <2>1. (Received("failed") \/ Received("exported"))
        /\ UNCHANGED <<device, capture, signals, store>>
    BY <1>15 DEF OnOperationEnded
  <2> QED BY <1>1, <1>3, <1>4, <2>1, TakenResult DEF Provenance
<1>16. CASE Restart
  <2>1. /\ results' = <<>> /\ signals' = <<>> /\ capture' = None /\ store' = store
    BY <1>16 DEF Restart
  <2>2. results' \in Seq({}) /\ signals' \in Seq(MaybeSerial) /\ SavesAreOwn'
    BY <2>1 DEF SavesAreOwn
  <2> QED BY <1>3, <2>1, <2>2 DEF Provenance, CaptureIsOwn
<1> QED BY <1>5, <1>6, <1>7, <1>8, <1>9, <1>10, <1>11, <1>12, <1>13, <1>14, <1>15, <1>16
        DEF BaselineNext

\* No phone is ever given the stored baseline of another, even when their serials
\* map to one file, nor one that was read from another, unless the connection
\* moved in the middle of its capture: however captures fail, saves are lost and
\* the program is restarted.
THEOREM OwnBaselineLoaded == BaselineSpec => LoadedIsOwn
<1>1. ASSUME Provenance, BaselineNext, source' = "loaded", baseline' # baseline
      PROVE  baseline'.serial = guiSerial' /\ (baseline'.of = {guiSerial'} \/ baseline'.moved)
  <2>1. CASE OnSerialReady
    <3>1. /\ Load(Head(signals)) # None /\ baseline' = Load(Head(signals))
          /\ guiSerial' = Head(signals) /\ signals # <<>> /\ Head(signals) # NoSerial
      BY <1>1, <2>1 DEF OnSerialReady, Adopt
    <3>2. Head(signals) \in Serial
      BY <1>1, <3>1, HeadTailProperties DEF Provenance, MaybeSerial
    <3>3. FileOf[Head(signals)] \in File
      BY <3>2, BaselineAssumption
    <3>4. /\ baseline' = store[FileOf[Head(signals)]] /\ store[FileOf[Head(signals)]] # None
          /\ baseline'.serial = Head(signals)
      BY <3>1 DEF Load
    <3> QED BY <1>1, <3>1, <3>3, <3>4 DEF Provenance, FilesAreOwn, Own
  <2>2. ~OnBaselineSaved /\ ~Restart
    BY <1>1 DEF OnBaselineSaved, Adopt, Restart
  <2> QED BY <1>1, <2>1, <2>2
          DEF BaselineNext, ConnectionChanges, OnDeviceLost, SaveClicked, CheckClicked,
              ExportClicked, Request, WorkerStarts, WorkerReadsProcesses, WorkerReads,
              WorkerFails, WorkerExports, Answered, OnDriftChecked, OnOperationEnded,
              OnMonitorSample
<1>2. Provenance /\ [BaselineNext]_baselineVars =>
        [source' = "loaded" /\ baseline' # baseline =>
            baseline'.serial = guiSerial' /\ (baseline'.of = {guiSerial'} \/ baseline'.moved)
        ]_baselineVars
  BY <1>1
<1>3. BaselineSpec => []Provenance
  BY ProvenanceInit, ProvenanceStep, PTL DEF BaselineSpec
<1> QED BY <1>2, <1>3, PTL DEF BaselineSpec, LoadedIsOwn

=============================================================================
