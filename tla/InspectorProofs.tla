---------------------------- MODULE InspectorProofs ---------------------------
(***************************************************************************)
(* What is proved of Inspector, for every number of processes, packages,   *)
(* clicks and changes of the phone.  The panel ends up with the row        *)
(* selected last because requests and answers keep their order: the last   *)
(* request on its way, wherever it is, is for the row chosen last          *)
(* (NewestIsChosen).  The buttons act on a package that what ran under the *)
(* pid names because what a reading learns (Learnt) travels with the       *)
(* answer.                                                                 *)
(***************************************************************************)
EXTENDS Inspector, SequenceTheorems, TLAPS

\* A name and an argv0 were seen under the pid, if there are any.
Learnt(r) ==
    /\ r.ran \subseteq Runs
    /\ r.argv0 = NoPackage \/ r.argv0 \in r.ran
    /\ r.name = NoPackage \/ \E q \in r.ran \cap Package : r.name = Comm[q]

Ready == {m \in [kind : {"ready"}, pid : Pid, name : {Comm[q] : q \in Package} \cup {NoPackage},
                 argv0 : Runs, ran : SUBSET Runs] : Learnt(m)}
Message ==
    Ready \cup [kind : {"failed"}, pid : Pid]
          \cup [kind : {"audit", "audit_failed"}, package : Package]

Answers(m) == m.kind \in {"ready", "failed"}

ReadingOK ==
    reading # NotReading =>
        /\ reading \in [pid : Pid, next : {"status", "stat", "cmdline", "io"},
                        name : {Comm[q] : q \in Package} \cup {NoPackage},
                        argv0 : Runs, ran : SUBSET Runs]
        /\ Learnt(reading)

Typed ==
    /\ running \in [Pid -> Runs] /\ packages \subseteq Package
    /\ rows \subseteq Pid /\ visible \subseteq Pid /\ inspected \in Pid \cup {NoPid}
    /\ requests \in Seq(Pid) /\ audits \in Seq(Package) /\ toGui \in Seq(Message)
    /\ panel.shown \in BOOLEAN /\ (panel.shown => Learnt(panel))
    /\ ReadingOK

\* The last answer on its way.
LastAnswer(messages, i) ==
    /\ i \in DOMAIN messages /\ Answers(messages[i])
    /\ \A j \in DOMAIN messages : j > i => ~Answers(messages[j])

NewestIsChosen ==
    /\ requests # <<>> => requests[Len(requests)] = chosen
    /\ requests = <<>> /\ reading # NotReading => reading.pid = chosen
    /\ requests = <<>> /\ reading = NotReading =>
          \A i \in DOMAIN toGui : LastAnswer(toGui, i) => toGui[i].pid = chosen

PanelIsInspected == inspected # NoPid => panel.pid = inspected
PackageIsRefreshed == resolved = Refreshed(panel, packages)

IInv ==
    Typed /\ NewestIsChosen /\ LastSelectionWins /\ PanelIsInspected
    /\ PackageIsRefreshed /\ AuditUnderItsProcess

-----------------------------------------------------------------------------
(* The queue of answers. *)

\* A message posted to a queue comes after all that is there.
LEMMA Posted ==
    ASSUME NEW queue \in Seq(Message), NEW m \in Message
    PROVE  /\ Append(queue, m) \in Seq(Message)
           /\ DOMAIN Append(queue, m) = 1 .. Len(queue) + 1
           /\ DOMAIN queue = 1 .. Len(queue) /\ Len(queue) \in Nat
           /\ Append(queue, m)[Len(queue) + 1] = m
           /\ \A i \in 1 .. Len(queue) : Append(queue, m)[i] = queue[i]
BY AppendProperties, LenProperties

\* An audit posted changes nothing of the last answer.
LEMMA AuditPosted ==
    ASSUME NEW queue \in Seq(Message), NEW m \in Message, ~Answers(m)
    PROVE  /\ \A i : LastAnswer(Append(queue, m), i) =>
                  LastAnswer(queue, i) /\ Append(queue, m)[i] = queue[i]
           /\ (\A i \in DOMAIN Append(queue, m) : ~Answers(Append(queue, m)[i]))
                => \A i \in DOMAIN queue : ~Answers(queue[i])
<1>1. ASSUME NEW i, LastAnswer(Append(queue, m), i)
      PROVE  LastAnswer(queue, i) /\ Append(queue, m)[i] = queue[i]
  BY <1>1, Posted DEF LastAnswer
<1>2. ASSUME \A i \in DOMAIN Append(queue, m) : ~Answers(Append(queue, m)[i])
      PROVE  \A i \in DOMAIN queue : ~Answers(queue[i])
  BY <1>2, Posted
<1> QED BY <1>1, <1>2

\* An answer posted is the last.
LEMMA AnswerPosted ==
    ASSUME NEW queue \in Seq(Message), NEW m \in Message, Answers(m)
    PROVE  /\ \A i : LastAnswer(Append(queue, m), i) => Append(queue, m)[i] = m
           /\ \E i \in DOMAIN Append(queue, m) : Answers(Append(queue, m)[i])
<1>1. ASSUME NEW i, LastAnswer(Append(queue, m), i) PROVE Append(queue, m)[i] = m
  BY <1>1, Posted DEF LastAnswer
<1>2. Answers(Append(queue, m)[Len(queue) + 1])
  BY Posted
<1>3. Len(queue) + 1 \in DOMAIN Append(queue, m)
  BY Posted
<1> QED BY <1>1, <1>2, <1>3

\* The last answer stays the last when the head of the queue is taken, or was the head.
LEMMA HeadTaken ==
    ASSUME NEW queue \in Seq(Message), queue # <<>>
    PROVE  /\ Head(queue) \in Message /\ Tail(queue) \in Seq(Message)
           /\ \A i : LastAnswer(Tail(queue), i) =>
                  LastAnswer(queue, i + 1) /\ Tail(queue)[i] = queue[i + 1]
           /\ (\A i \in DOMAIN Tail(queue) : ~Answers(Tail(queue)[i])) /\ Answers(Head(queue))
                => LastAnswer(queue, 1) /\ queue[1] = Head(queue)
           /\ (\A i \in DOMAIN Tail(queue) : ~Answers(Tail(queue)[i])) /\ ~Answers(Head(queue))
                => \A i \in DOMAIN queue : ~Answers(queue[i])
<1>1. /\ Head(queue) \in Message /\ Tail(queue) \in Seq(Message)
      /\ Len(Tail(queue)) = Len(queue) - 1
      /\ \A i \in 1 .. Len(Tail(queue)) : Tail(queue)[i] = queue[i + 1]
  BY HeadTailProperties
<1>2. /\ DOMAIN queue = 1 .. Len(queue) /\ Len(queue) \in Nat \ {0}
      /\ DOMAIN Tail(queue) = 1 .. Len(queue) - 1
      /\ Head(queue) = queue[1]
  BY <1>1, LenProperties, EmptySeq
<1>3. ASSUME NEW i, LastAnswer(Tail(queue), i)
      PROVE  LastAnswer(queue, i + 1) /\ Tail(queue)[i] = queue[i + 1]
  <2>1. i \in 1 .. Len(queue) - 1 /\ Answers(queue[i + 1]) /\ i + 1 \in DOMAIN queue
    BY <1>1, <1>2, <1>3 DEF LastAnswer
  <2>2. ASSUME NEW j \in DOMAIN queue, j > i + 1 PROVE ~Answers(queue[j])
    <3>1. j - 1 \in DOMAIN Tail(queue) /\ j - 1 > i /\ Tail(queue)[j - 1] = queue[j]
      BY <1>1, <1>2, <2>1, <2>2
    <3> QED BY <1>3, <3>1 DEF LastAnswer
  <2> QED BY <1>1, <1>2, <2>1, <2>2 DEF LastAnswer
<1>4. ASSUME \A i \in DOMAIN Tail(queue) : ~Answers(Tail(queue)[i])
      PROVE  \A j \in DOMAIN queue : j > 1 => ~Answers(queue[j])
  <2> SUFFICES ASSUME NEW j \in DOMAIN queue, j > 1 PROVE ~Answers(queue[j])
    OBVIOUS
  <2>1. j - 1 \in DOMAIN Tail(queue) /\ Tail(queue)[j - 1] = queue[j]
    BY <1>1, <1>2
  <2> QED BY <1>4, <2>1
<1>5. (\A i \in DOMAIN Tail(queue) : ~Answers(Tail(queue)[i])) /\ Answers(Head(queue))
        => LastAnswer(queue, 1) /\ queue[1] = Head(queue)
  BY <1>2, <1>4 DEF LastAnswer
<1>6. (\A i \in DOMAIN Tail(queue) : ~Answers(Tail(queue)[i])) /\ ~Answers(Head(queue))
        => \A i \in DOMAIN queue : ~Answers(queue[i])
  BY <1>2, <1>4
<1> QED BY <1>1, <1>3, <1>5, <1>6

-----------------------------------------------------------------------------
(* The invariant. *)

\* Nothing is being read in the first state.
LEMMA IInvInit == InspectorInit => IInv
<1> SUFFICES ASSUME InspectorInit PROVE IInv
  OBVIOUS
<1> USE InspectorAssumption
<1>1. <<>> \in Seq(Pid) /\ <<>> \in Seq(Package) /\ <<>> \in Seq(Message)
  BY EmptySeq
<1>2. Typed
  BY <1>1 DEF InspectorInit, Typed, ReadingOK, NotReading, NoPanel
<1>3. NewestIsChosen /\ LastSelectionWins /\ PanelIsInspected
  BY DEF InspectorInit, NewestIsChosen, LastSelectionWins, PanelIsInspected
<1>4. PackageIsRefreshed /\ AuditUnderItsProcess
  BY DEF InspectorInit, PackageIsRefreshed, AuditUnderItsProcess, Refreshed, NoPanel
<1> QED BY <1>2, <1>3, <1>4 DEF IInv

\* Whatever is presented, the buttons are for it and no audit is left.
LEMMA Presented ==
    ASSUME NEW p, Present(p)
    PROVE  panel' = p /\ packages' = packages /\ PackageIsRefreshed' /\ AuditUnderItsProcess'
BY DEF Present, PackageIsRefreshed, AuditUnderItsProcess, Refreshed

\* The steps of the phone and of the table that leave the workers alone.
LEMMA TableStep ==
    ASSUME IInv, Rebuild, UNCHANGED <<chosen, requests, reading, audits, toGui>>,
           running' \in [Pid -> Runs], rows' \subseteq Pid, visible' \subseteq Pid
    PROVE  IInv'
<1> USE DEF panelVars
<1>1. CASE UNCHANGED <<inspected, panelVars>>
  <2>1. Typed'
    BY <1>1 DEF IInv, Typed, ReadingOK
  <2>2. NewestIsChosen' /\ LastSelectionWins' /\ PanelIsInspected'
    BY <1>1 DEF IInv, NewestIsChosen, LastSelectionWins, PanelIsInspected
  <2>3. PackageIsRefreshed' /\ AuditUnderItsProcess'
    BY <1>1 DEF IInv, PackageIsRefreshed, AuditUnderItsProcess
  <2> QED BY <2>1, <2>2, <2>3 DEF IInv
<1>2. CASE inspected # NoPid /\ PresentGone(inspected)
  <2>1. inspected' = NoPid /\ Present(Gone(inspected)) /\ panel.pid = inspected
    BY <1>2 DEF PresentGone, IInv, PanelIsInspected
  <2>2. /\ panel' = Gone(inspected) /\ packages' = packages
        /\ PackageIsRefreshed' /\ AuditUnderItsProcess'
    BY <2>1, Presented
  <2>3. panel'.pid = panel.pid /\ panel'.shown = FALSE
    BY <2>1, <2>2 DEF Gone
  <2>4. Typed'
    BY <2>1, <2>2, <2>3 DEF IInv, Typed, ReadingOK
  <2>5. NewestIsChosen' /\ LastSelectionWins' /\ PanelIsInspected'
    BY <2>1, <2>3 DEF IInv, NewestIsChosen, LastSelectionWins, PanelIsInspected
  <2> QED BY <2>2, <2>4, <2>5 DEF IInv
<1> QED BY <1>1, <1>2 DEF Rebuild

\* Choosing a process keeps the invariant.
LEMMA SelectStep == ASSUME IInv, NEW p \in Pid, Select(p) PROVE IInv'
<1>1. /\ requests' = Append(requests, p) /\ chosen' = p
      /\ UNCHANGED <<running, rows, visible, inspected, reading, audits, toGui,
                     panel, packages, resolved, audit>>
  BY DEF Select, phoneVars, panelVars
<1>2. /\ requests' \in Seq(Pid) /\ requests' # <<>> /\ requests'[Len(requests')] = chosen'
  BY <1>1, AppendProperties DEF IInv, Typed
<1>3. Typed'
  BY <1>1, <1>2 DEF IInv, Typed, ReadingOK
<1>4. NewestIsChosen' /\ LastSelectionWins'
  BY <1>1, <1>2 DEF NewestIsChosen, LastSelectionWins
<1>5. PanelIsInspected' /\ PackageIsRefreshed' /\ AuditUnderItsProcess'
  BY <1>1 DEF IInv, PanelIsInspected, PackageIsRefreshed, AuditUnderItsProcess
<1> QED BY <1>3, <1>4, <1>5 DEF IInv

\* What a worker does changes neither the table nor the panel.
LEMMA WorkerFrame ==
    ASSUME IInv, UNCHANGED <<running, rows, visible, inspected, panel, packages, resolved, audit>>
    PROVE  /\ PanelIsInspected' /\ PackageIsRefreshed' /\ AuditUnderItsProcess'
           /\ running' \in [Pid -> Runs] /\ packages' \subseteq Package
           /\ rows' \subseteq Pid /\ visible' \subseteq Pid /\ inspected' \in Pid \cup {NoPid}
           /\ panel'.shown \in BOOLEAN /\ (panel'.shown => Learnt(panel'))
BY DEF IInv, Typed, PanelIsInspected, PackageIsRefreshed, AuditUnderItsProcess

\* So does taking up a request to read.
LEMMA StartStep == ASSUME IInv, StartReading PROVE IInv'
<1>1. /\ reading = NotReading /\ requests # <<>> /\ requests' = Tail(requests)
      /\ reading' = [pid |-> Head(requests), next |-> "status", name |-> NoPackage,
                     argv0 |-> NoPackage, ran |-> {}]
      /\ UNCHANGED <<running, rows, visible, inspected, chosen, audits, toGui, panel, packages,
                     resolved, audit>>
  BY DEF StartReading, phoneVars, tableVars, panelVars
<1>2. /\ Head(requests) \in Pid /\ requests' \in Seq(Pid)
      /\ Len(requests') = Len(requests) - 1
      /\ \A i \in 1 .. Len(requests') : requests'[i] = requests[i + 1]
  BY <1>1, HeadTailProperties DEF IInv, Typed
<1>3. /\ Len(requests) \in Nat \ {0} /\ Head(requests) = requests[1]
      /\ requests' # <<>> => Len(requests') \in Nat \ {0}
      /\ requests' = <<>> => Len(requests') = 0
  <2>1. requests \in Seq(Pid)
    BY DEF IInv, Typed
  <2>2. Len(requests) \in Nat \ {0}
    BY <1>1, <2>1, EmptySeq
  <2>3. requests' # <<>> => Len(requests') \in Nat \ {0}
    BY <1>2, EmptySeq
  <2>4. Head(requests) = requests[1]
    BY <2>1, <2>2
  <2> QED BY <2>2, <2>3, <2>4, EmptySeq
<1>4. reading'.pid = Head(requests) /\ reading' # NotReading
  <2>1. NotReading.pid = NoPid
    BY DEF NotReading
  <2> QED BY <1>1, <1>2, <2>1, InspectorAssumption
<1>5. ReadingOK'
  BY <1>1, <1>2 DEF ReadingOK, Learnt, Runs
<1>6. Typed'
  BY <1>1, <1>2, <1>5, WorkerFrame DEF IInv, Typed
<1>7. NewestIsChosen'
  <2>1. requests[Len(requests)] = chosen
    BY <1>1 DEF IInv, NewestIsChosen
  <2>2. requests' # <<>> => requests'[Len(requests')] = requests[Len(requests)]
    BY <1>2, <1>3
  <2>3. requests' = <<>> => Len(requests) = 1
    BY <1>2, <1>3
  <2> QED BY <1>1, <1>3, <1>4, <2>1, <2>2, <2>3 DEF NewestIsChosen
<1>8. LastSelectionWins'
  BY <1>4 DEF LastSelectionWins
<1> QED BY <1>1, <1>6, <1>7, <1>8, WorkerFrame DEF IInv

\* So does reading one file of the process.
LEMMA ReadStep == ASSUME IInv, ReadFile PROVE IInv'
<1>1. /\ reading # NotReading /\ reading.next # "io" /\ running[reading.pid] # Dead
      /\ UNCHANGED <<running, rows, visible, inspected, chosen, requests, audits, toGui, panel,
                     packages, resolved, audit>>
  BY DEF ReadFile, phoneVars, tableVars, panelVars
<1>2. PICK readable \in BOOLEAN : reading' = Learned(running[reading.pid], readable)
  BY DEF ReadFile
<1> DEFINE what == running[reading.pid]
<1>3. /\ reading.pid \in Pid /\ Learnt(reading)
      /\ reading \in [pid : Pid, next : {"status", "stat", "cmdline", "io"},
                      name : {Comm[q] : q \in Package} \cup {NoPackage},
                      argv0 : Runs, ran : SUBSET Runs]
  BY <1>1 DEF IInv, Typed, ReadingOK
<1>4. what \in Runs /\ what \in Package \cup {NoPackage}
  BY <1>1, <1>3 DEF IInv, Typed, Runs
<1>5. /\ reading'.pid = reading.pid
      /\ reading' \in [pid : Pid, next : {"status", "stat", "cmdline", "io"},
                       name : {Comm[q] : q \in Package} \cup {NoPackage},
                       argv0 : Runs, ran : SUBSET Runs]
      /\ reading'.ran = reading.ran \cup {what}
      /\ reading'.argv0 \in {reading.argv0, what}
      /\ reading'.name \in {reading.name, NameOf(reading.name, what)}
  <2>1. NameOf(reading.name, what) \in {Comm[q] : q \in Package} \cup {NoPackage}
    BY <1>3, <1>4 DEF NameOf
  <2> HIDE DEF what
  <2>2. reading' = Learned(what, readable)
    BY <1>2 DEF what
  <2>3. CASE reading.next = "status"
    <3>1. reading' = [[reading EXCEPT !.ran = @ \cup {what}] EXCEPT
                         !.next = "stat",
                         !.name = IF readable THEN NameOf(@, what) ELSE @]
      BY <2>2, <2>3 DEF Learned
    <3> QED BY <1>3, <1>4, <2>1, <3>1
  <2>4. CASE reading.next = "stat"
    <3>1. reading' = [[reading EXCEPT !.ran = @ \cup {what}] EXCEPT
                         !.next = "cmdline",
                         !.name = IF readable THEN NameOf(@, what) ELSE @]
      BY <2>2, <2>4 DEF Learned
    <3> QED BY <1>3, <1>4, <2>1, <3>1
  <2>5. CASE reading.next \notin {"status", "stat"}
    <3>1. reading' = [[reading EXCEPT !.ran = @ \cup {what}] EXCEPT
                         !.next = "io",
                         !.argv0 = IF readable THEN what ELSE @]
      BY <2>2, <2>5 DEF Learned
    <3> QED BY <1>3, <1>4, <3>1
  <2> QED BY <2>3, <2>4, <2>5
<1>6. Learnt(reading')
  <2>1. reading'.argv0 = NoPackage \/ reading'.argv0 \in reading'.ran
    BY <1>3, <1>5 DEF Learnt
  <2>2. reading'.name = NoPackage \/ \E q \in reading'.ran \cap Package : reading'.name = Comm[q]
    BY <1>3, <1>4, <1>5 DEF Learnt, NameOf
  <2> QED BY <1>5, <2>1, <2>2 DEF Learnt
<1>7. reading' # NotReading
  <2>1. NotReading.pid = NoPid
    BY DEF NotReading
  <2> QED BY <1>3, <1>5, <2>1, InspectorAssumption
<1>8. Typed'
  <2>1. ReadingOK'
    BY <1>5, <1>6 DEF ReadingOK
  <2> QED BY <1>1, <2>1, WorkerFrame DEF IInv, Typed
<1>9. NewestIsChosen' /\ LastSelectionWins'
  BY <1>1, <1>5, <1>7 DEF IInv, NewestIsChosen, LastSelectionWins
<1> QED BY <1>1, <1>8, <1>9, WorkerFrame DEF IInv

\* The worker gives its answer; it is the last, and for the pid it read.
LEMMA ReadAnswered ==
    ASSUME IInv, reading # NotReading, reading' = NotReading,
           NEW m \in Message, Answers(m), m.pid = reading.pid, Post(m),
           UNCHANGED <<running, rows, visible, inspected, chosen, requests, audits, panel,
                       packages, resolved, audit>>
    PROVE  IInv'
<1>1. toGui' = Append(toGui, m) /\ toGui \in Seq(Message)
  BY DEF Post, IInv, Typed
<1>2. toGui' \in Seq(Message)
  BY <1>1, Posted
<1>3. Typed'
  BY <1>2, WorkerFrame DEF IInv, Typed, ReadingOK
<1>4. NewestIsChosen'
  <2>1. \A i : LastAnswer(toGui', i) => toGui'[i] = m
    BY <1>1, AnswerPosted
  <2> QED BY <2>1 DEF IInv, NewestIsChosen
<1>5. LastSelectionWins'
  <2>1. \E i \in DOMAIN toGui' : Answers(toGui'[i])
    BY <1>1, AnswerPosted
  <2> QED BY <2>1 DEF LastSelectionWins, Answers
<1> QED BY <1>3, <1>4, <1>5, WorkerFrame DEF IInv

\* So does the end of a reading, or its failure.
LEMMA ReadEndStep == ASSUME IInv, ReadFails \/ ReadEnds PROVE IInv'
<1>1. /\ reading # NotReading /\ reading' = NotReading
      /\ UNCHANGED <<running, rows, visible, inspected, chosen, requests, audits, panel,
                     packages, resolved, audit>>
  BY DEF ReadFails, ReadEnds, phoneVars, tableVars, panelVars
<1>2. /\ reading.pid \in Pid /\ Learnt(reading)
      /\ reading \in [pid : Pid, next : {"status", "stat", "cmdline", "io"},
                      name : {Comm[q] : q \in Package} \cup {NoPackage},
                      argv0 : Runs, ran : SUBSET Runs]
  BY <1>1 DEF IInv, Typed, ReadingOK
<1>3. CASE ReadFails
  <2> DEFINE m == [kind |-> "failed", pid |-> reading.pid]
  <2>1. m \in Message /\ Answers(m) /\ m.pid = reading.pid
    BY <1>2 DEF Message, Answers
  <2>2. Post(m)
    BY <1>3 DEF ReadFails
  <2> HIDE DEF m
  <2> QED BY <1>1, <2>1, <2>2, ReadAnswered
<1>4. CASE ReadEnds
  <2> DEFINE m == [kind |-> "ready", pid |-> reading.pid, name |-> reading.name,
                   argv0 |-> reading.argv0, ran |-> reading.ran]
  <2>1. Learnt(m)
    BY <1>2 DEF Learnt
  <2>2. m \in Ready
    BY <1>2, <2>1 DEF Ready
  <2>3. m \in Message /\ Answers(m) /\ m.pid = reading.pid
    BY <2>2 DEF Message, Answers
  <2>4. Post(m)
    BY <1>4 DEF ReadEnds
  <2> HIDE DEF m
  <2> QED BY <1>1, <2>3, <2>4, ReadAnswered
<1> QED BY <1>3, <1>4

\* So do the requests of an audit and the audit.
LEMMA AuditStep ==
    ASSUME IInv, AuditClicked \/ (\E package \in Package : AppsAuditClicked(package)) \/ Audit
    PROVE  IInv'
<1>1. /\ UNCHANGED <<running, rows, visible, inspected, chosen, requests, reading, panel,
                     packages, resolved, audit>>
  BY DEF AuditClicked, AppsAuditClicked, Audit, phoneVars, tableVars, panelVars
<1>2. CASE AuditClicked \/ \E package \in Package : AppsAuditClicked(package)
  <2>1. PICK package \in Package : audits' = Append(audits, package) /\ UNCHANGED toGui
    <3>1. CASE AuditClicked
      <4>1. resolved \in Package
        BY <3>1 DEF AuditClicked, IInv, Typed, PackageIsRefreshed, Refreshed, Resolve
      <4> QED BY <3>1, <4>1 DEF AuditClicked
    <3> QED BY <1>2, <3>1 DEF AppsAuditClicked
  <2>2. audits' \in Seq(Package)
    BY <2>1, AppendProperties DEF IInv, Typed
  <2>3. Typed'
    BY <1>1, <2>1, <2>2, WorkerFrame DEF IInv, Typed, ReadingOK
  <2>4. NewestIsChosen' /\ LastSelectionWins'
    BY <1>1, <2>1 DEF IInv, NewestIsChosen, LastSelectionWins
  <2> QED BY <1>1, <2>3, <2>4, WorkerFrame DEF IInv
<1>3. CASE Audit
  <2>1. audits # <<>> /\ audits' = Tail(audits)
    BY <1>3 DEF Audit
  <2>2. audits' \in Seq(Package) /\ Head(audits) \in Package
    BY <2>1, HeadTailProperties DEF IInv, Typed
  <2>3. PICK kind \in {"audit", "audit_failed"} : Post([kind |-> kind, package |-> Head(audits)])
    BY <1>3 DEF Audit
  <2> DEFINE m == [kind |-> kind, package |-> Head(audits)]
  <2>4. m \in Message /\ ~Answers(m)
    BY <2>2 DEF Message, Answers
  <2> HIDE DEF m
  <2>5. toGui' = Append(toGui, m) /\ toGui \in Seq(Message)
    BY <2>3 DEF Post, m, IInv, Typed
  <2>6. toGui' \in Seq(Message)
    BY <2>4, <2>5, Posted
  <2>7. /\ \A i : LastAnswer(toGui', i) => LastAnswer(toGui, i) /\ toGui'[i] = toGui[i]
        /\ (\A i \in DOMAIN toGui' : ~Answers(toGui'[i]))
              => \A i \in DOMAIN toGui : ~Answers(toGui[i])
    BY <2>4, <2>5, AuditPosted
  <2>8. Typed'
    BY <1>1, <2>2, <2>6, WorkerFrame DEF IInv, Typed, ReadingOK
  <2>9. NewestIsChosen'
    BY <1>1, <2>7 DEF IInv, NewestIsChosen, LastAnswer
  <2>10. LastSelectionWins'
    BY <1>1, <2>7 DEF IInv, LastSelectionWins, Answers
  <2> QED BY <1>1, <2>8, <2>9, <2>10, WorkerFrame DEF IInv
<1> QED BY <1>2, <1>3

-----------------------------------------------------------------------------
(* The answers. *)

\* The head of the queue is taken: what is left of NewestIsChosen.
LEMMA Taken ==
    ASSUME IInv, toGui # <<>>, toGui' = Tail(toGui),
           UNCHANGED <<chosen, requests, reading>>
    PROVE  toGui' \in Seq(Message) /\ Head(toGui) \in Message /\ NewestIsChosen'
<1>1. toGui \in Seq(Message)
  BY DEF IInv, Typed
<1>2. /\ Head(toGui) \in Message /\ toGui' \in Seq(Message)
      /\ \A i : LastAnswer(toGui', i) => LastAnswer(toGui, i + 1) /\ toGui'[i] = toGui[i + 1]
  BY <1>1, HeadTaken
<1>3. NewestIsChosen'
  BY <1>2 DEF IInv, NewestIsChosen, LastAnswer
<1> QED BY <1>2, <1>3

\* An answer is shown: if it was the last, the panel shows the chosen row.
LEMMA AnswerStep ==
    ASSUME IInv, OnInspectionReady \/ OnInspectionFailed
    PROVE  IInv'
<1> DEFINE m == Head(toGui)
<1>1. /\ toGui # <<>> /\ toGui' = Tail(toGui) /\ Answers(m)
      /\ UNCHANGED <<running, rows, visible, chosen, requests, reading, audits>>
  BY DEF OnInspectionReady, OnInspectionFailed, Takes, Answers, phoneVars, workerVars
<1>2. toGui' \in Seq(Message) /\ m \in Message /\ NewestIsChosen'
  BY <1>1, Taken
<1>3. m.pid \in Pid
  BY <1>1, <1>2 DEF Message, Ready, Answers
<1>4. /\ panel'.pid = m.pid /\ panel'.shown \in BOOLEAN /\ (panel'.shown => Learnt(panel'))
      /\ packages' = packages /\ inspected' \in {m.pid, NoPid}
      /\ PackageIsRefreshed' /\ AuditUnderItsProcess'
  <2>1. CASE OnInspectionReady
    <3> DEFINE p == [pid |-> m.pid, shown |-> TRUE, name |-> m.name, argv0 |-> m.argv0,
                     ran |-> m.ran]
    <3>1. Present(p) /\ inspected' = m.pid /\ m.kind = "ready"
      BY <2>1 DEF OnInspectionReady, Takes
    <3>2. Learnt(m)
      BY <1>2, <3>1 DEF Message, Ready
    <3>3. Learnt(p) /\ p.pid = m.pid /\ p.shown = TRUE
      BY <3>2 DEF Learnt
    <3> HIDE DEF p
    <3>4. panel' = p /\ packages' = packages /\ PackageIsRefreshed' /\ AuditUnderItsProcess'
      BY <3>1, Presented
    <3> QED BY <3>1, <3>3, <3>4
  <2>2. CASE OnInspectionFailed
    <3>1. Present(Gone(m.pid)) /\ inspected' = NoPid
      BY <2>2 DEF OnInspectionFailed, PresentGone
    <3>2. /\ panel' = Gone(m.pid) /\ packages' = packages
          /\ PackageIsRefreshed' /\ AuditUnderItsProcess'
      BY <3>1, Presented
    <3> QED BY <3>1, <3>2 DEF Gone
  <2> QED BY <2>1, <2>2
<1>5. Typed'
  BY <1>1, <1>2, <1>3, <1>4 DEF IInv, Typed, ReadingOK
<1>6. PanelIsInspected'
  BY <1>4 DEF PanelIsInspected
<1>7. LastSelectionWins'
  <2> SUFFICES ASSUME requests = <<>>, reading = NotReading,
                      \A i \in DOMAIN toGui' : ~Answers(toGui'[i])
               PROVE  panel'.pid = chosen
    BY <1>1 DEF LastSelectionWins, Answers
  <2>1. LastAnswer(toGui, 1) /\ toGui[1] = m
    BY <1>1, HeadTaken DEF IInv, Typed
  <2>2. m.pid = chosen
    BY <2>1 DEF IInv, NewestIsChosen, LastAnswer
  <2> QED BY <1>4, <2>2
<1> QED BY <1>2, <1>4, <1>5, <1>6, <1>7 DEF IInv

\* So do the handlers of its answers.
LEMMA AuditAnswerStep == ASSUME IInv, OnAudit \/ OnAuditFailed PROVE IInv'
<1>1. /\ toGui # <<>> /\ toGui' = Tail(toGui) /\ ~Answers(Head(toGui))
      /\ UNCHANGED <<running, rows, visible, inspected, chosen, requests, reading, audits, panel,
                     packages, resolved>>
      /\ audit' = audit \/ (audit' = resolved)
  BY DEF OnAudit, OnAuditFailed, ShowAudit, Takes, Answers, phoneVars, tableVars, workerVars
<1>2. toGui' \in Seq(Message) /\ NewestIsChosen'
  BY <1>1, Taken
<1>3. LastSelectionWins'
  <2>1. (\A i \in DOMAIN toGui' : ~Answers(toGui'[i])) => \A i \in DOMAIN toGui : ~Answers(toGui[i])
    BY <1>1, HeadTaken DEF IInv, Typed
  <2> QED BY <1>1, <2>1 DEF IInv, LastSelectionWins, Answers
<1>4. Typed' /\ PanelIsInspected' /\ PackageIsRefreshed'
  BY <1>1, <1>2 DEF IInv, Typed, ReadingOK, PanelIsInspected, PackageIsRefreshed
<1>5. AuditUnderItsProcess'
  BY <1>1 DEF IInv, AuditUnderItsProcess, PackageIsRefreshed, Refreshed, Resolve
<1> QED BY <1>2, <1>3, <1>4, <1>5 DEF IInv

\* So does the handler of the packages.
LEMMA PackagesStep == ASSUME IInv, OnPackages PROVE IInv'
<1>1. /\ packages' \in SUBSET Package /\ resolved' = Refreshed(panel, packages')
      /\ UNCHANGED <<running, rows, visible, inspected, chosen, requests, reading, audits, toGui,
                     panel, audit>>
  BY DEF OnPackages, tableVars, workerVars
<1>2. Typed' /\ PanelIsInspected'
  BY <1>1 DEF IInv, Typed, ReadingOK, PanelIsInspected
<1>3. NewestIsChosen' /\ LastSelectionWins'
  BY <1>1 DEF IInv, NewestIsChosen, LastSelectionWins
<1>4. PackageIsRefreshed' /\ AuditUnderItsProcess'
  BY <1>1 DEF IInv, PackageIsRefreshed, AuditUnderItsProcess
<1> QED BY <1>2, <1>3, <1>4 DEF IInv

\* Every step keeps the invariant.
LEMMA IInvStep == IInv /\ [InspectorNext]_inspectorVars => IInv'
<1> SUFFICES ASSUME IInv, [InspectorNext]_inspectorVars PROVE IInv'
  OBVIOUS
<1>1. CASE Churn \/ Unplugged \/ Replugged
  <2>1. /\ running' \in [Pid -> Runs]
        /\ UNCHANGED <<rows, visible, inspected, chosen, requests, reading, audits, toGui,
                       panel, packages, resolved, audit>>
    BY <1>1 DEF Churn, Unplugged, Replugged, IInv, Typed, tableVars, workerVars, panelVars
  <2>2. Typed'
    BY <2>1 DEF IInv, Typed, ReadingOK
  <2>3. NewestIsChosen' /\ LastSelectionWins' /\ PanelIsInspected'
    BY <2>1 DEF IInv, NewestIsChosen, LastSelectionWins, PanelIsInspected
  <2>4. PackageIsRefreshed' /\ AuditUnderItsProcess'
    BY <2>1 DEF IInv, PackageIsRefreshed, AuditUnderItsProcess
  <2> QED BY <2>2, <2>3, <2>4 DEF IInv
<1>2. CASE OnProcesses \/ OnFilter
  <2>1. /\ Rebuild /\ UNCHANGED <<chosen, requests, reading, audits, toGui, running>>
        /\ rows' \subseteq Pid /\ visible' \subseteq Pid
    BY <1>2 DEF OnProcesses, OnFilter, phoneVars, workerVars, IInv, Typed
  <2>2. running' \in [Pid -> Runs]
    BY <2>1 DEF IInv, Typed
  <2> QED BY <2>1, <2>2, TableStep
<1>3. ASSUME NEW p \in Pid, Select(p) PROVE IInv'
  BY <1>3, SelectStep
<1>4. CASE StartReading \/ ReadFile \/ ReadFails \/ ReadEnds
  BY <1>4, StartStep, ReadStep, ReadEndStep
<1>5. CASE AuditClicked \/ (\E package \in Package : AppsAuditClicked(package)) \/ Audit
  BY <1>5, AuditStep
<1>6. CASE OnInspectionReady \/ OnInspectionFailed \/ OnAudit \/ OnAuditFailed
  BY <1>6, AnswerStep, AuditAnswerStep
<1>7. CASE OnPackages
  BY <1>7, PackagesStep
<1>8. CASE UNCHANGED inspectorVars
  <2>1. UNCHANGED <<running, rows, visible, inspected, chosen, requests, reading, audits, toGui,
                    panel, packages, resolved, audit>>
    BY <1>8 DEF inspectorVars, phoneVars, tableVars, workerVars, panelVars
  <2>2. Typed'
    BY <2>1 DEF IInv, Typed, ReadingOK
  <2>3. NewestIsChosen' /\ LastSelectionWins' /\ PanelIsInspected'
    BY <2>1 DEF IInv, NewestIsChosen, LastSelectionWins, PanelIsInspected
  <2>4. PackageIsRefreshed' /\ AuditUnderItsProcess'
    BY <2>1 DEF IInv, PackageIsRefreshed, AuditUnderItsProcess
  <2> QED BY <2>2, <2>3, <2>4 DEF IInv
<1> QED BY <1>1, <1>2, <1>3, <1>4, <1>5, <1>6, <1>7, <1>8 DEF InspectorNext

\* So it holds in every state.
LEMMA AlwaysIInv == InspectorSpec => []IInv
BY IInvInit, IInvStep, PTL DEF InspectorSpec

-----------------------------------------------------------------------------
\* Once nothing is on its way the panel is about the row that was selected last.
THEOREM LatestSelectionShown == InspectorSpec => []LastSelectionWins
<1>1. IInv => LastSelectionWins
  BY DEF IInv
<1> QED BY <1>1, AlwaysIInv, PTL

\* The buttons act on an installed package that ran under the pid that is shown;
\* only where its command line is of no installed package can it be one that the
\* cut name of what ran is read as.
THEOREM ButtonsFollowThePanel == InspectorSpec => []ActionsFollowPanel
<1>1. IInv => ActionsFollowPanel
  <2> SUFFICES ASSUME IInv, resolved # NoPackage PROVE ActionsFollowPanel
    BY DEF ActionsFollowPanel
  <2>1. /\ panel.shown /\ resolved \in packages /\ Learnt(panel)
        /\ \/ resolved = panel.argv0
           \/ panel.argv0 \notin packages /\ resolved = panel.name
    BY DEF IInv, Typed, PackageIsRefreshed, Refreshed, Resolve
  <2>2. resolved = panel.argv0 => resolved \in panel.ran
    BY <2>1 DEF Learnt
  <2>3. resolved = panel.name => \E q \in panel.ran \cap Package : Comm[q] = resolved
    BY <2>1 DEF Learnt
  <2> QED BY <2>1, <2>2, <2>3 DEF ActionsFollowPanel
<1> QED BY <1>1, AlwaysIInv, PTL

\* An audit is only ever shown under a process of its package.
THEOREM AuditsAreMatched == InspectorSpec => []AuditUnderItsProcess
<1>1. IInv => AuditUnderItsProcess
  BY DEF IInv
<1> QED BY <1>1, AlwaysIInv, PTL

=============================================================================
