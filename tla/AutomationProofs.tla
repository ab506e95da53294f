-------------------------- MODULE AutomationProofs --------------------------
(***************************************************************************)
(* What is proved of AutomationFlow and of BackgroundView, which share no  *)
(* state.  Of AutomationFlow, for every set of actions and targets, every  *)
(* cooldown, budget and bound.  The engine charges an execution when its   *)
(* outcome arrives, long after the gate let it pass; what closes the gap   *)
(* is that the window remembers one pending task only, so nothing is       *)
(* charged between the gate and the outcome it waits for (GateStillHolds). *)
(* A session that begins with a task pending forgets every charge, and the *)
(* first dispatch after it replaces that task.  Of BackgroundView, for any *)
(* set of phones, outputs and order of the alphabet: whatever is on its    *)
(* way to the window was read from a phone as it was (honest signals), so  *)
(* the table keeps to what was proven even when the signals are handled    *)
(* late.                                                                   *)
(***************************************************************************)
EXTENDS AutomationFlow, BackgroundView, SequenceTheorems, WellFoundedInduction, TLAPS

-----------------------------------------------------------------------------
(* AutomationFlow: what is charged, and when. *)

\* The first state is well typed.
LEMMA TypeInit == AutomationInit => AutomationTypeOK
<1> SUFFICES ASSUME AutomationInit PROVE AutomationTypeOK
  OBVIOUS
<1>1. Untouched \in [last : Nat \cup {Never}, runs : Nat]
  BY DEF Untouched
<1>2. charged \in [Key -> [last : Nat \cup {Never}, runs : Nat]]
  BY <1>1 DEF AutomationInit
<1>3. now \in 0 .. MaxTime
  BY AutomationAssumption DEF AutomationInit
<1>4. tasks \in Seq(TaskRecord) /\ requests \in Seq(Key) /\ results \in Seq(Result)
  BY EmptySeq DEF AutomationInit
<1> QED BY <1>2, <1>3, <1>4 DEF AutomationInit, AutomationTypeOK

\* What an engine update keeps in its type.
LEMMA RecordTyped ==
    ASSUME AutomationTypeOK, NEW id \in Nat \ {0}, NEW success \in BOOLEAN, RecordResult(id, success)
    PROVE  /\ tasks' \in Seq(TaskRecord)
           /\ charged' \in [Key -> [last : Nat \cup {Never}, runs : Nat]]
           /\ Len(tasks') = Len(tasks)
           /\ \A i \in DOMAIN tasks : /\ tasks'[i].key = tasks[i].key
                                      /\ tasks'[i].dispatched = tasks[i].dispatched
<1> USE DEF AutomationTypeOK, engineVars
<1>1. CASE id \notin DOMAIN tasks
  BY <1>1 DEF RecordResult
<1>2. CASE id \in DOMAIN tasks
  <2>1. tasks[id].key \in Key /\ now \in Nat
    <3>1. tasks[id] \in TaskRecord
      BY <1>2, ElementOfSeq
    <3>2. now \in Nat
      BY AutomationAssumption
    <3> QED BY <3>1, <3>2 DEF TaskRecord
  <2>2. tasks' = [tasks EXCEPT ![id].status = IF success THEN "succeeded" ELSE "failed"]
    BY <1>2 DEF RecordResult
  <2>3. charged' = IF success
           THEN [charged EXCEPT ![tasks[id].key] = [last |-> now, runs |-> @.runs + 1]]
           ELSE charged
    BY <1>2 DEF RecordResult
  <2>4. charged' \in [Key -> [last : Nat \cup {Never}, runs : Nat]]
    BY <2>1, <2>3
  <2>5. (IF success THEN "succeeded" ELSE "failed") \in TaskStatus
    BY DEF TaskStatus
  <2>6. tasks' \in Seq(TaskRecord)
    <3> DEFINE changed == [tasks[id] EXCEPT !.status = IF success THEN "succeeded" ELSE "failed"]
    <3>1. tasks[id] \in TaskRecord
      BY <1>2, ElementOfSeq
    <3>2. changed \in TaskRecord
      BY <2>5, <3>1 DEF TaskRecord
    <3>3. tasks' = [tasks EXCEPT ![id] = changed]
      BY <2>2
    <3> HIDE DEF changed
    <3> QED BY <1>2, <3>2, <3>3, ExceptSeq
  <2>7. Len(tasks') = Len(tasks)
    BY <2>2
  <2> QED BY <1>2, <2>2, <2>4, <2>6, <2>7
<1> QED BY <1>1, <1>2

\* Every step keeps the types.
LEMMA TypeStep == AutomationTypeOK /\ [AutomationNext]_automationVars => AutomationTypeOK'
<1> SUFFICES ASSUME AutomationTypeOK, [AutomationNext]_automationVars PROVE AutomationTypeOK'
  OBVIOUS
<1> USE AutomationAssumption DEF AutomationTypeOK, engineVars
<1>1. ASSUME NEW key \in Key, ApplyAutomated(key) PROVE AutomationTypeOK'
  <2>1. Task(key, Refusal(key)) \in TaskRecord
        \/ Refusal(key) = "none"
    BY DEF Task, Refusal, TaskStatus, TaskRecord
  <2>2. [Task(key, "waiting") EXCEPT !.dispatched = TRUE]
          \in TaskRecord
    BY DEF Task, TaskStatus, TaskRecord
  <2>3. Len(tasks) + 1 \in Nat \ {0}
    OBVIOUS
  <2>4. tasks' \in Seq(TaskRecord)
    <3>1. \E task \in TaskRecord : tasks' = Append(tasks, task)
      BY <1>1, <2>1, <2>2 DEF ApplyAutomated
    <3> QED BY <3>1, AppendProperties
  <2>5. requests' \in Seq(Key)
    <3>1. requests' = Append(requests, key) \/ requests' = requests
      BY <1>1 DEF ApplyAutomated
    <3>2. Append(requests, key) \in Seq(Key)
      BY AppendProperties
    <3> QED BY <3>1, <3>2
  <2> QED BY <1>1, <2>3, <2>4, <2>5 DEF ApplyAutomated
<1>2. ASSUME NEW key \in Action \X Valid, RequestByHand(key) PROVE AutomationTypeOK'
  <2>1. key \in Key
    BY DEF Key
  <2> QED BY <1>2, <2>1 DEF RequestByHand
<1>3. CASE OnResult
  <2>1. results' = Tail(results) /\ UNCHANGED <<now, requests, carried>> /\ results # <<>>
    BY <1>3 DEF OnResult
  <2>2. results' \in Seq(Result)
    BY <2>1
  <2>3. CASE Matches(Head(results))
    <3>1. pending' = NoTask /\ RecordResult(pending.id, Head(results).success)
      BY <1>3, <2>3 DEF OnResult
    <3>2. pending.id \in Nat \ {0} /\ Head(results).success \in BOOLEAN
      <4>1. Head(results) \in Result
        BY <2>1, HeadTailProperties
      <4>2. pending \in [id : Nat \ {0}, key : Key]
        BY <2>3 DEF Matches
      <4> QED BY <4>1, <4>2 DEF Result
    <3> QED BY <2>1, <2>2, <3>1, <3>2, RecordTyped
  <2>4. CASE ~Matches(Head(results))
    BY <1>3, <2>1, <2>2, <2>4 DEF OnResult
  <2> QED BY <2>3, <2>4
<1>4. CASE SessionBegins
  BY <1>4 DEF SessionBegins, Untouched
<1>5. CASE PhoneLost
  BY <1>5 DEF PhoneLost
<1>6. CASE WorkerRuns
  <2>1. PICK success \in BOOLEAN : results' = Answer(success)
    BY <1>6 DEF WorkerRuns
  <2>2. [key |-> Head(requests), success |-> success] \in Result
    BY <1>6, HeadTailProperties DEF WorkerRuns, Result
  <2>3. results' \in Seq(Result)
    BY <2>1, <2>2 DEF Answer
  <2> QED BY <1>6, <2>3 DEF WorkerRuns
<1>7. CASE TimePasses
  BY <1>7 DEF TimePasses
<1>8. CASE UNCHANGED automationVars
  BY <1>8 DEF automationVars
<1> QED BY <1>1, <1>2, <1>3, <1>4, <1>5, <1>6, <1>7, <1>8 DEF AutomationNext

\* Every state has its type.
THEOREM AutomationTyped == AutomationSpec => []AutomationTypeOK
BY TypeInit, TypeStep, PTL DEF AutomationSpec

-----------------------------------------------------------------------------
(* Loop protection. *)

\* What the gate found still holds of the task the window waits for: either
\* it is a task of this session that may run once more now, or nothing has
\* been charged in this session yet.
GateStillHolds ==
    pending # NoTask =>
        \/ /\ pending.id \in DOMAIN tasks /\ tasks[pending.id].key = pending.key
           /\ charged[pending.key].runs < Budget /\ ~Cooling(pending.key)
        \/ \A k \in Key : charged[k] = Untouched

Protected == GateStillHolds /\ BudgetHolds

\* The charge an outcome makes: of one key, once more, the first or a cooldown
\* after the last.
LEMMA ChargeIsAllowed ==
    ASSUME AutomationTypeOK, Protected, OnResult
    PROVE  \A k \in Key : \/ charged'[k] = charged[k]
                          \/ /\ charged'[k].runs <= Budget
                             /\ charged[k].last # Never => now - charged[k].last >= Cooldown
<1> USE AutomationAssumption DEF AutomationTypeOK, engineVars
<1>1. CASE ~Matches(Head(results))
  BY <1>1 DEF OnResult
<1>2. CASE Matches(Head(results))
  <2> DEFINE id == pending.id
             key == tasks[id].key
  <2>1. pending # NoTask /\ RecordResult(id, Head(results).success)
    BY <1>2 DEF OnResult, Matches
  <2>2. CASE id \notin DOMAIN tasks
    BY <2>1, <2>2 DEF RecordResult
  <2>3. CASE id \in DOMAIN tasks
    <3>1. key \in Key
      <4>1. tasks[id] \in TaskRecord
        BY <2>3, ElementOfSeq
      <4> QED BY <4>1 DEF TaskRecord
    <3>2. /\ charged[key].runs < Budget
          /\ charged[key].last # Never => now - charged[key].last >= Cooldown
      <4>1. CASE \A k \in Key : charged[k] = Untouched
        BY <3>1, <4>1 DEF Untouched
      <4>2. CASE key = pending.key /\ charged[pending.key].runs < Budget /\ ~Cooling(pending.key)
        <5>1. charged[key].last \in Nat \cup {Never} /\ now \in Nat
          BY <3>1
        <5> QED BY <4>2, <5>1 DEF Cooling
      <4> QED BY <2>1, <4>1, <4>2 DEF Protected, GateStillHolds
    <3>3. charged' = IF Head(results).success
             THEN [charged EXCEPT ![key] = [last |-> now, runs |-> @.runs + 1]] ELSE charged
      BY <2>1, <2>3 DEF RecordResult
    <3>4. charged[key].runs + 1 <= Budget
      <4>1. charged[key].runs \in Nat
        BY <3>1
      <4> QED BY <3>2, <4>1
    <3> QED BY <3>1, <3>2, <3>3, <3>4
  <2> QED BY <2>2, <2>3
<1> QED BY <1>1, <1>2

\* Nothing is charged in the first state.
LEMMA ProtectedInit == AutomationInit => Protected
BY AutomationAssumption DEF AutomationInit, Protected, GateStillHolds, BudgetHolds, Untouched

\* Every step keeps to the protection.
LEMMA ProtectedStep ==
    AutomationTypeOK /\ Protected /\ [AutomationNext]_automationVars => Protected'
<1> SUFFICES ASSUME AutomationTypeOK, Protected, [AutomationNext]_automationVars PROVE Protected'
  OBVIOUS
<1> USE AutomationAssumption DEF AutomationTypeOK, Protected, engineVars
<1>1. ASSUME NEW key \in Key, ApplyAutomated(key) PROVE Protected'
  <2>1. UNCHANGED <<now, charged>>
    BY <1>1 DEF ApplyAutomated
  <2>2. CASE Refusal(key) = "none"
    <3>1. charged[key].runs < Budget /\ ~Cooling(key)
      <4>1. charged[key].runs \in Nat
        OBVIOUS
      <4>2. ~(charged[key].runs >= Budget) /\ ~Cooling(key)
        BY <2>2 DEF Refusal
      <4> QED BY <4>1, <4>2
    <3>2. /\ tasks' = Append(tasks, [Task(key, "waiting") EXCEPT !.dispatched = TRUE])
          /\ pending' = [id |-> Len(tasks) + 1, key |-> key]
      BY <1>1, <2>2 DEF ApplyAutomated
    <3>3. /\ Len(tasks) + 1 \in DOMAIN tasks'
          /\ tasks'[Len(tasks) + 1] = [Task(key, "waiting") EXCEPT !.dispatched = TRUE]
      BY <3>2
    <3>4. pending'.id \in DOMAIN tasks' /\ tasks'[pending'.id].key = pending'.key
      BY <3>2, <3>3 DEF Task
    <3> QED BY <2>1, <3>1, <3>2, <3>4 DEF GateStillHolds, BudgetHolds, Cooling
  <2>3. CASE Refusal(key) # "none"
    <3>1. tasks' = Append(tasks, Task(key, Refusal(key))) /\ pending' = pending
      BY <1>1, <2>3 DEF ApplyAutomated
    <3>2. \A i \in DOMAIN tasks : i \in DOMAIN tasks' /\ tasks'[i] = tasks[i]
      BY <3>1
    <3> QED BY <2>1, <3>1, <3>2 DEF GateStillHolds, BudgetHolds, Cooling
  <2> QED BY <2>2, <2>3
<1>2. CASE OnResult
  <2>1. BudgetHolds'
    <3> SUFFICES ASSUME NEW k \in Key PROVE charged'[k].runs <= Budget
      BY DEF BudgetHolds
    <3>1. charged[k].runs <= Budget
      BY DEF BudgetHolds
    <3> QED BY <1>2, <3>1, ChargeIsAllowed
  <2>2. GateStillHolds'
    <3>1. CASE Matches(Head(results))
      BY <1>2, <3>1 DEF OnResult, GateStillHolds
    <3>2. CASE ~Matches(Head(results))
      BY <1>2, <3>2 DEF OnResult, GateStillHolds, Cooling
    <3> QED BY <3>1, <3>2
  <2> QED BY <2>1, <2>2
<1>3. CASE SessionBegins
  BY <1>3 DEF SessionBegins, GateStillHolds, BudgetHolds, Untouched
<1>4. CASE PhoneLost
  BY <1>4 DEF PhoneLost, GateStillHolds, BudgetHolds
<1>5. CASE TimePasses
  <2>1. UNCHANGED <<engineVars, pending>> /\ now' = now + 1 /\ now \in Nat
    BY <1>5 DEF TimePasses
  <2>2. BudgetHolds'
    BY <2>1 DEF BudgetHolds
  <2>3. ASSUME pending # NoTask, ~Cooling(pending.key) PROVE ~Cooling(pending.key)'
    <3>1. charged[pending.key].last \in Nat \cup {Never}
      BY <2>3
    <3> QED BY <2>1, <2>3, <3>1 DEF Cooling
  <2>4. GateStillHolds'
    BY <2>1, <2>3 DEF GateStillHolds
  <2> QED BY <2>2, <2>4
<1>6. CASE UNCHANGED <<now, engineVars, pending>>
  BY <1>6 DEF GateStillHolds, BudgetHolds, Cooling
<1>7. (\E key \in Action \X Valid : RequestByHand(key)) \/ WorkerRuns \/ UNCHANGED automationVars
        => UNCHANGED <<now, engineVars, pending>>
  BY DEF RequestByHand, WorkerRuns, automationVars
<1> QED BY <1>1, <1>2, <1>3, <1>4, <1>5, <1>6, <1>7 DEF AutomationNext

\* In every state the charges keep to the protection.
LEMMA AlwaysProtected == AutomationSpec => [](AutomationTypeOK /\ Protected)
<1>1. AutomationInit => AutomationTypeOK /\ Protected
  BY TypeInit, ProtectedInit
<1>2. AutomationTypeOK /\ Protected /\ [AutomationNext]_automationVars
        => (AutomationTypeOK /\ Protected)'
  BY TypeStep, ProtectedStep
<1> QED BY <1>1, <1>2, PTL DEF AutomationSpec

\* Although the budget is checked at dispatch and charged at the answer, no
\* more executions than it are ever recorded in a session.
THEOREM BudgetIsKept == AutomationSpec => []BudgetHolds
<1>1. AutomationTypeOK /\ Protected => BudgetHolds
  BY DEF Protected
<1> QED BY <1>1, AlwaysProtected, PTL

\* No recorded execution follows another of the same action on the same target
\* within the cooldown.
THEOREM CooldownIsKept == AutomationSpec => RecordedRunsAreApart
<1> DEFINE Apart == \A k \in Key :
              charged'[k].runs > charged[k].runs /\ charged[k].last # Never =>
                  now - charged[k].last >= Cooldown
<1>1. ASSUME AutomationTypeOK, Protected, [AutomationNext]_automationVars PROVE Apart
  <2> SUFFICES ASSUME NEW k \in Key, charged'[k].runs > charged[k].runs, charged[k].last # Never
               PROVE  now - charged[k].last >= Cooldown
    OBVIOUS
  <2>0. charged[k].runs \in Nat
    BY <1>1 DEF AutomationTypeOK
  <2>1. CASE OnResult
    <3>1. charged'[k] # charged[k]
      BY <2>0
    <3> QED BY <1>1, <2>1, <3>1, ChargeIsAllowed
  <2>2. CASE SessionBegins
    BY <2>0, <2>2 DEF SessionBegins, Untouched
  <2>3. CASE UNCHANGED charged
    BY <2>0, <2>3
  <2> QED BY <1>1, <2>1, <2>2, <2>3 DEF AutomationNext, ApplyAutomated, RequestByHand,
             PhoneLost, WorkerRuns, TimePasses, engineVars, automationVars
<1>2. AutomationTypeOK /\ Protected /\ [AutomationNext]_automationVars => [Apart]_automationVars
  BY <1>1
<1> QED BY <1>2, AlwaysProtected, PTL DEF AutomationSpec, RecordedRunsAreApart

-----------------------------------------------------------------------------
(* What is reported. *)

\* A task that is waited for passed the gate in this session.
PendingPassed ==
    ~carried /\ pending # NoTask => pending.id \in DOMAIN tasks /\ tasks[pending.id].dispatched

Reported == PendingPassed /\ ReportedTasksRan

\* Every step reports an outcome once.
LEMMA ReportedStep ==
    AutomationTypeOK /\ Reported /\ [AutomationNext]_automationVars => Reported'
<1> SUFFICES ASSUME AutomationTypeOK, Reported, [AutomationNext]_automationVars PROVE Reported'
  OBVIOUS
<1> USE DEF AutomationTypeOK, Reported, engineVars
<1>1. ASSUME NEW key \in Key, ApplyAutomated(key) PROVE Reported'
  <2> DEFINE sent == [Task(key, "waiting") EXCEPT !.dispatched = TRUE]
             refused == Task(key, Refusal(key))
  <2>1. /\ sent.dispatched = TRUE /\ sent.status = "waiting"
        /\ refused.status = Refusal(key) /\ Refusal(key) \in {"none", "failed", "blocked"}
    BY DEF Task, Refusal
  <2>2. CASE Refusal(key) = "none"
    <3>1. tasks' = Append(tasks, sent) /\ pending' = [id |-> Len(tasks) + 1, key |-> key]
          /\ carried' = carried
      BY <1>1, <2>2 DEF ApplyAutomated
    <3>2. /\ DOMAIN tasks' = 1 .. Len(tasks) + 1 /\ tasks'[Len(tasks) + 1] = sent
          /\ \A i \in DOMAIN tasks : tasks'[i] = tasks[i]
      BY <3>1
    <3>3. PendingPassed'
      BY <2>1, <3>1, <3>2 DEF PendingPassed
    <3>4. ReportedTasksRan'
      BY <2>1, <3>1, <3>2 DEF ReportedTasksRan
    <3> QED BY <3>3, <3>4
  <2>3. CASE Refusal(key) # "none"
    <3>1. tasks' = Append(tasks, refused) /\ pending' = pending /\ carried' = carried
      BY <1>1, <2>3 DEF ApplyAutomated
    <3>2. /\ DOMAIN tasks' = 1 .. Len(tasks) + 1 /\ tasks'[Len(tasks) + 1] = refused
          /\ \A i \in DOMAIN tasks : tasks'[i] = tasks[i]
      BY <3>1
    <3>3. PendingPassed'
      BY <3>1, <3>2 DEF PendingPassed
    <3>4. ReportedTasksRan'
      BY <2>1, <2>3, <3>1, <3>2 DEF ReportedTasksRan
    <3> QED BY <3>3, <3>4
  <2> QED BY <2>2, <2>3
<1>2. CASE OnResult
  <2>1. carried' = carried
    BY <1>2 DEF OnResult
  <2>2. CASE ~Matches(Head(results))
    BY <1>2, <2>1, <2>2 DEF OnResult, PendingPassed, ReportedTasksRan
  <2>3. CASE Matches(Head(results))
    <3>1. /\ pending # NoTask /\ pending' = NoTask
          /\ RecordResult(pending.id, Head(results).success)
      BY <1>2, <2>3 DEF OnResult, Matches
    <3>2. PendingPassed'
      BY <3>1 DEF PendingPassed
    <3>3. ReportedTasksRan'
      <4>1. CASE pending.id \notin DOMAIN tasks
        BY <2>1, <3>1, <4>1 DEF RecordResult, ReportedTasksRan
      <4>2. CASE pending.id \in DOMAIN tasks
        <5>1. tasks' = [tasks EXCEPT ![pending.id].status =
                           IF Head(results).success THEN "succeeded" ELSE "failed"]
          BY <3>1, <4>2 DEF RecordResult
        <5>2. /\ DOMAIN tasks' = DOMAIN tasks
              /\ \A i \in DOMAIN tasks : /\ tasks'[i].dispatched = tasks[i].dispatched
                                         /\ i # pending.id => tasks'[i].status = tasks[i].status
          BY <4>2, <5>1
        <5> QED BY <2>1, <3>1, <5>2 DEF PendingPassed, ReportedTasksRan
      <4> QED BY <4>1, <4>2
    <3> QED BY <3>2, <3>3
  <2> QED BY <2>2, <2>3
<1>3. CASE SessionBegins
  <2>1. tasks' = <<>> /\ pending' = pending /\ carried' = (pending # NoTask)
    BY <1>3 DEF SessionBegins
  <2>2. PendingPassed'
    BY <2>1 DEF PendingPassed
  <2>3. ReportedTasksRan'
    BY <2>1 DEF ReportedTasksRan
  <2> QED BY <2>2, <2>3
<1>4. CASE PhoneLost
  BY <1>4 DEF PhoneLost, PendingPassed, ReportedTasksRan
<1>5. CASE UNCHANGED <<engineVars, pending, carried>>
  BY <1>5 DEF PendingPassed, ReportedTasksRan
<1>6. (\E key \in Action \X Valid : RequestByHand(key)) \/ WorkerRuns \/ TimePasses
        \/ UNCHANGED automationVars => UNCHANGED <<engineVars, pending, carried>>
  BY DEF RequestByHand, WorkerRuns, TimePasses, automationVars
<1> QED BY <1>1, <1>2, <1>3, <1>4, <1>5, <1>6 DEF AutomationNext

\* A task reported as executed passed the gate, unless one was carried over.
THEOREM ReportsAreOfRuns == AutomationSpec => []ReportedTasksRan
<1>1. AutomationInit => AutomationTypeOK /\ Reported
  BY TypeInit DEF AutomationInit, Reported, PendingPassed, ReportedTasksRan
<1>2. AutomationTypeOK /\ Reported /\ [AutomationNext]_automationVars
        => (AutomationTypeOK /\ Reported)'
  BY TypeStep, ReportedStep
<1>3. AutomationTypeOK /\ Reported => ReportedTasksRan
  BY DEF Reported
<1> QED BY <1>1, <1>2, <1>3, PTL DEF AutomationSpec

-----------------------------------------------------------------------------
(* The answer is on its way. *)

\* Every step keeps the answer that a pending task waits for.
LEMMA AnsweredStep ==
    AutomationTypeOK /\ PendingIsAnswered /\ [AutomationNext]_automationVars => PendingIsAnswered'
<1> SUFFICES ASSUME AutomationTypeOK, PendingIsAnswered, [AutomationNext]_automationVars,
                    pending' # NoTask
             PROVE  \/ \E i \in DOMAIN requests' : requests'[i] = pending'.key
                    \/ \E i \in DOMAIN results' : results'[i].key = pending'.key
  BY DEF PendingIsAnswered
<1> USE DEF AutomationTypeOK, engineVars
\* Appending to a queue keeps what is in it.
<1>1. ASSUME NEW key \in Key, requests' = Append(requests, key),
             pending' = pending, results' = results
      PROVE  \/ \E i \in DOMAIN requests' : requests'[i] = pending'.key
             \/ \E i \in DOMAIN results' : results'[i].key = pending'.key
  <2>1. \A i \in DOMAIN requests : i \in DOMAIN requests' /\ requests'[i] = requests[i]
    BY <1>1
  <2> QED BY <1>1, <2>1 DEF PendingIsAnswered
<1>2. ASSUME NEW key \in Key, ApplyAutomated(key)
      PROVE  \/ \E i \in DOMAIN requests' : requests'[i] = pending'.key
             \/ \E i \in DOMAIN results' : results'[i].key = pending'.key
  <2>1. CASE Refusal(key) = "none"
    <3>1. requests' = Append(requests, key) /\ pending'.key = key
      BY <1>2, <2>1 DEF ApplyAutomated
    <3>2. Len(requests) + 1 \in DOMAIN requests' /\ requests'[Len(requests) + 1] = key
      BY <3>1
    <3> QED BY <3>1, <3>2
  <2>2. CASE Refusal(key) # "none"
    BY <1>2, <2>2 DEF ApplyAutomated, PendingIsAnswered
  <2> QED BY <2>1, <2>2
<1>3. ASSUME NEW key \in Action \X Valid, RequestByHand(key)
      PROVE  \/ \E i \in DOMAIN requests' : requests'[i] = pending'.key
             \/ \E i \in DOMAIN results' : results'[i].key = pending'.key
  <2>1. key \in Key
    BY AutomationAssumption DEF Key
  <2> QED BY <1>1, <1>3, <2>1 DEF RequestByHand
<1>4. ASSUME OnResult
      PROVE  \/ \E i \in DOMAIN requests' : requests'[i] = pending'.key
             \/ \E i \in DOMAIN results' : results'[i].key = pending'.key
  <2>1. /\ ~Matches(Head(results)) /\ pending' = pending /\ requests' = requests
        /\ results' = Tail(results) /\ results # <<>>
    BY <1>4 DEF OnResult
  <2>2. Head(results).key # pending.key
    BY <2>1 DEF Matches
  <2>3. ASSUME NEW i \in DOMAIN results, results[i].key = pending.key
        PROVE  i - 1 \in DOMAIN results' /\ results'[i - 1] = results[i]
    <3>1. i # 1
      BY <2>1, <2>2, <2>3
    <3> QED BY <2>1, <3>1
  <2> QED BY <2>1, <2>3 DEF PendingIsAnswered
<1>5. ASSUME WorkerRuns
      PROVE  \/ \E i \in DOMAIN requests' : requests'[i] = pending'.key
             \/ \E i \in DOMAIN results' : results'[i].key = pending'.key
  <2>1. PICK success \in BOOLEAN : results' = Answer(success)
    BY <1>5 DEF WorkerRuns
  <2>2. /\ requests # <<>> /\ requests' = Tail(requests) /\ pending' = pending
        /\ results' = Append(results, [key |-> Head(requests), success |-> success])
    BY <1>5, <2>1 DEF WorkerRuns, Answer
  <2>3. /\ \A i \in DOMAIN results : i \in DOMAIN results' /\ results'[i] = results[i]
        /\ Len(results) + 1 \in DOMAIN results'
        /\ results'[Len(results) + 1].key = Head(requests)
    <3>1. [key |-> Head(requests), success |-> success] \in Result
      BY <2>2, HeadTailProperties DEF Result
    <3> QED BY <2>2, <3>1, AppendProperties
  <2>4. ASSUME NEW i \in DOMAIN requests, requests[i] = pending.key
        PROVE  \/ i - 1 \in DOMAIN requests' /\ requests'[i - 1] = requests[i]
               \/ results'[Len(results) + 1].key = pending.key
    <3>1. CASE i = 1
      BY <2>2, <2>3, <2>4, <3>1
    <3>2. CASE i # 1
      <4>1. requests' = Tail(requests) /\ Len(requests') = Len(requests) - 1
            /\ \A j \in 1 .. Len(requests') : requests'[j] = requests[j + 1]
        BY <2>2, HeadTailProperties
      <4>2. requests' \in Seq(Key)
        BY <2>2, <4>1, HeadTailProperties
      <4>3. Len(requests) \in Nat /\ i \in 1 .. Len(requests)
        BY <2>2, <2>4, LenProperties
      <4>4. Len(requests') = Len(requests) - 1
        BY <4>1
      <4>5. i - 1 \in 1 .. Len(requests') /\ i = (i - 1) + 1
        BY ONLY <3>2, <4>3, <4>4
      <4> QED BY <4>1, <4>2, <4>5
    <3> QED BY <3>1, <3>2
  <2> QED BY <2>2, <2>3, <2>4 DEF PendingIsAnswered
<1>6. CASE UNCHANGED <<pending, requests, results>>
  BY <1>6 DEF PendingIsAnswered
<1>7. SessionBegins \/ TimePasses \/ UNCHANGED automationVars
        => UNCHANGED <<pending, requests, results>>
  BY DEF SessionBegins, TimePasses, automationVars
<1>8. ~PhoneLost
  BY DEF PhoneLost
<1> QED BY <1>2, <1>3, <1>4, <1>5, <1>6, <1>7, <1>8 DEF AutomationNext

\* A pending task never waits for an answer that cannot come.
THEOREM AnswerIsOnItsWay == AutomationSpec => []PendingIsAnswered
<1>1. AutomationInit => AutomationTypeOK /\ PendingIsAnswered
  BY TypeInit DEF AutomationInit, PendingIsAnswered
<1>2. AutomationTypeOK /\ PendingIsAnswered /\ [AutomationNext]_automationVars
        => (AutomationTypeOK /\ PendingIsAnswered)'
  BY TypeStep, AnsweredStep
<1> QED BY <1>1, <1>2, PTL DEF AutomationSpec

-----------------------------------------------------------------------------
(* BackgroundView: what the table of applications is made of. *)

\* A set of natural numbers has a least one.
LEMMA LeastPlace ==
    ASSUME NEW T, T \subseteq Nat, T # {}
    PROVE  \E x \in T : \A y \in T : x <= y
<1>1. PICK R : R = OpToRel(<, Nat)
  OBVIOUS
<1>2. IsWellFoundedOn(R, Nat)
  BY <1>1, NatLessThanWellFounded
<1>3. \A x, y \in Nat : x < y => <<x, y>> \in R
  BY <1>1 DEF OpToRel
<1>4. PICK x \in T : \A y \in T : ~(<<y, x>> \in R)
  BY <1>2, WFMin
<1>5. ASSUME NEW y \in T PROVE x <= y
  <2>1. x \in Nat /\ y \in Nat
    OBVIOUS
  <2>2. ~(y < x)
    BY <1>3, <1>4, <2>1
  <2>3. QED
    BY <2>1, <2>2
<1>6. QED
  BY <1>5

\* The first of some applications in the alphabet is one of them.
LEMMA FirstIsOne ==
    ASSUME NEW apps, apps # {}, \A a \in apps : Place[a.package] \in Nat
    PROVE  FirstPlaced(apps) \in apps
<1> DEFINE T == {Place[a.package] : a \in apps}
<1>1. T \subseteq Nat /\ T # {}
  OBVIOUS
<1>2. PICK least \in T : \A n \in T : least <= n
  BY <1>1, LeastPlace
<1>3. PICK a \in apps : least = Place[a.package]
  BY <1>2
<1>4. \A b \in apps : Place[a.package] <= Place[b.package]
  BY <1>2, <1>3
<1>5. QED
  BY <1>4 DEF FirstPlaced

\* Who owns a process: at most one application, one of the user's, and its
\* uid is the process's (_resolve_owner).
LEMMA OwnerShape ==
    ASSUME NEW process, NEW installed, \A a \in installed : Place[a.package] \in Nat
    PROVE  /\ \A a, b \in Owner(process, installed) : a = b
           /\ \A a \in Owner(process, installed) :
                 a \in UserApps(installed) /\ a.uid # NoUid /\ a.uid = process.uid
<1> DEFINE candidates == {a \in UserApps(installed) : a.uid # NoUid /\ a.uid = process.uid}
           exact == {a \in candidates : a.package = process.name}
           prefixed == {a \in candidates : NameMatches(a.package, process.name)}
<1>1. \A a \in candidates : Place[a.package] \in Nat
  BY DEF UserApps
<1>2. ASSUME NEW some, some \subseteq candidates, some # {}
      PROVE  FirstPlaced(some) \in candidates
  BY <1>1, <1>2, FirstIsOne
<1>3. \/ Owner(process, installed) = {}
      \/ \E a \in candidates : Owner(process, installed) = {a}
  <2>1. Owner(process, installed) =
           CASE candidates = {} -> {}
             [] exact # {} -> {FirstPlaced(exact)}
             [] exact = {} /\ prefixed # {} -> {FirstPlaced(prefixed)}
             [] OTHER -> {FirstPlaced(candidates)}
    BY DEF Owner
  <2> HIDE DEF candidates, exact, prefixed
  <2>2. exact \subseteq candidates /\ prefixed \subseteq candidates
    BY DEF exact, prefixed
  <2>3. QED
    BY <1>2, <2>1, <2>2
<1>4. QED
  BY <1>3

\* The rows of a process table: one per PID, classified by name and uid
\* (_merge, classify_process).
IsTable(rows) ==
    /\ \A p \in rows : /\ p.uid \in Nat \cup {NoUid}
                       /\ p.category = Classify(p.name, p.uid)
    /\ \A p, q \in rows : p.pid = q.pid => p = q

\* The processes that ps lists with an identity have a user id.
LEMMA IdentitiesHaveUids ==
    ASSUME NEW ps, \A i \in DOMAIN ps : Readable(ps[i]) => ps[i].uid \in Nat,
           NEW pid \in DOMAIN ParsePs(ps)
    PROVE  ParsePs(ps)[pid].uid \in Nat
<1> DEFINE rows == FirstOfPid(ps, {i \in DOMAIN ps : Readable(ps[i])})
           place == CHOOSE i \in rows : ps[i].pid = pid
<1>1. \A i \in rows : ps[i].uid \in Nat
  BY DEF FirstOfPid
<1>2. pid \in {ps[i].pid : i \in rows} /\ ParsePs(ps)[pid].uid = ps[place].uid
  BY DEF ParsePs
<1> HIDE DEF rows
<1>3. place \in rows
  BY <1>2
<1>4. QED
  BY <1>1, <1>2, <1>3

\* A sample of ps and top is a table of processes with user ids.
LEMMA SampleIsTable ==
    ASSUME NEW ps, \A i \in DOMAIN ps : Readable(ps[i]) => ps[i].uid \in Nat,
           NEW top, HasHeader(top)
    PROVE  IsTable(SampleProcesses(ps, top))
<1> DEFINE identities == ParsePs(ps)
           metrics == ParseTop(top)
           Name(pid) == IF pid \in DOMAIN identities THEN identities[pid].name
                        ELSE metrics[pid].name
           Uid(pid) == IF pid \in DOMAIN identities THEN identities[pid].uid ELSE NoUid
           Row(pid) == [pid |-> pid, uid |-> Uid(pid), name |-> Name(pid),
                        cpu |-> metrics[pid].cpu, memory |-> metrics[pid].memory,
                        category |-> Classify(Name(pid), Uid(pid))]
<1>1. SampleProcesses(ps, top) = {Row(pid) : pid \in DOMAIN metrics}
  BY DEF SampleProcesses, Merge
<1>2. \A pid : Uid(pid) \in Nat \cup {NoUid}
  BY IdentitiesHaveUids
<1> HIDE DEF identities, metrics, Name, Uid
<1>3. QED
  BY <1>1, <1>2 DEF IsTable

\* What build_background_apps makes of a table and an inventory is proven
\* by them.
Proven(entries, rows, installed, resumed) ==
    \A e \in entries :
        /\ e.package # resumed
        /\ e.pids # {}
        /\ \E a \in installed :
              /\ a.package = e.package /\ a.category = "user" /\ a.uid = e.uid
              /\ e.uid >= AidApp
        /\ \A pid \in e.pids :
              /\ \E p \in rows : p.pid = pid /\ p.uid = e.uid /\ p.category = "user"
              /\ \A f \in entries \ {e} : pid \notin f.pids

\* The entries built of a table are proven by its rows.
LEMMA BuildIsProven ==
    ASSUME NEW rows, IsTable(rows),
           NEW installed, \A a \in installed : Place[a.package] \in Nat,
           NEW resumed, NEW memory, NEW known
    PROVE  Proven(BuildBackground(rows, installed, resumed, memory, known),
                  rows, installed, resumed)
<1> DEFINE running == Running(rows, installed, resumed)
           mine(a) == OwnedBy(a, rows, installed)
           entry(a) == EntryOf(a, rows, installed, resumed, memory, known)
           entries == BuildBackground(rows, installed, resumed, memory, known)
<1>1. entries = {entry(a) : a \in running}
  BY DEF BuildBackground
<1>2. \A a : /\ entry(a).package = a.package /\ entry(a).uid = a.uid
             /\ entry(a).pids = {p.pid : p \in mine(a)}
  BY DEF EntryOf
<1>3. \A a \in running : /\ a \in installed /\ a.category = "user" /\ a.package # resumed
                         /\ mine(a) # {}
  BY DEF Running, UserApps
<1>4. ASSUME NEW a \in running, NEW p \in mine(a)
      PROVE  /\ p \in rows /\ p.uid = a.uid /\ p.category = "user" /\ a.uid >= AidApp
             /\ a \in Owner(p, installed)
  <2>1. p \in rows /\ Eligible(p) /\ a \in Owner(p, installed)
    BY DEF OwnedBy
  <2>2. a.uid # NoUid /\ a.uid = p.uid
    BY <2>1, OwnerShape
  <2>3. p.uid \in Nat /\ p.uid >= AidApp /\ p.category # "kernel_thread"
    BY <2>1, <2>2 DEF Eligible, IsTable
  <2>4. p.category = Classify(p.name, p.uid)
    BY <2>1 DEF IsTable
  <2>5. ~(p.uid < AidApp)
    BY <2>3, TableAssumption
  <2>6. p.category = "user"
    BY <2>2, <2>3, <2>4, <2>5 DEF Classify
  <2>7. QED
    BY <2>1, <2>2, <2>3, <2>6
<1>5. ASSUME NEW a \in running, NEW b \in running, NEW p \in mine(a), NEW q \in mine(b),
             p.pid = q.pid
      PROVE  a = b
  <2>1. p = q
    BY <1>4, <1>5 DEF IsTable
  <2>2. QED
    BY <1>4, <2>1, OwnerShape
<1> HIDE DEF running, mine, entry, entries
<1>6. ASSUME NEW e \in entries
      PROVE  /\ e.package # resumed
             /\ e.pids # {}
             /\ \E a \in installed :
                   /\ a.package = e.package /\ a.category = "user" /\ a.uid = e.uid
                   /\ e.uid >= AidApp
             /\ \A pid \in e.pids :
                   /\ \E p \in rows : p.pid = pid /\ p.uid = e.uid /\ p.category = "user"
                   /\ \A f \in entries \ {e} : pid \notin f.pids
  <2>1. PICK a \in running : e = entry(a)
    BY <1>1
  <2>2. e.package = a.package /\ e.uid = a.uid /\ e.pids = {p.pid : p \in mine(a)}
    BY <1>2, <2>1
  <2>3. PICK p \in mine(a) : TRUE
    BY <1>3
  <2>4. e.uid >= AidApp /\ e.pids # {}
    BY <1>4, <2>2, <2>3
  <2>5. ASSUME NEW pid \in e.pids
        PROVE  \E q \in rows : q.pid = pid /\ q.uid = e.uid /\ q.category = "user"
    BY <1>4, <2>2
  <2>6. ASSUME NEW pid \in e.pids, NEW f \in entries, pid \in f.pids
        PROVE  f = e
    <3>1. PICK b \in running : f = entry(b)
      BY <1>1
    <3>2. PICK q \in mine(b) : q.pid = pid
      BY <1>2, <2>6, <3>1
    <3>3. PICK r \in mine(a) : r.pid = pid
      BY <2>2, <2>6
    <3>4. a = b
      BY <1>5, <3>2, <3>3
    <3>5. QED
      BY <2>1, <3>1, <3>4
  <2>7. QED
    BY <1>3, <2>2, <2>4, <2>5, <2>6
<1>7. QED
  BY <1>6 DEF Proven, entries

\* The inductive invariant.  What the mirrors were made of is what makes
\* the table proven, and it was queued before it was mirrored: so every
\* signal on its way to the window carries a process table with one row
\* per PID, or applications that have a place in the alphabet, and so do
\* the mirrors.
Placed(apps) == \A a \in apps : Place[a.package] \in Nat
Honest(signal) ==
    /\ signal.signal = "snapshots" => IsTable(signal.processes.apps)
    /\ signal.signal = "inventory" => Placed(signal.apps)
Queued(queue) == {queue[i] : i \in DOMAIN queue}
HonestQueue(queue) == queue \in Seq(Queued(queue)) /\ \A signal \in Queued(queue) : Honest(signal)

BackgroundInv ==
    /\ attached \in Phone \cup {NoPhone} /\ bound \in Phone \cup {NoPhone}
    /\ HonestQueue(toGui)
    /\ IsTable(processes.apps)
    /\ Placed(inventory.apps)
    /\ EntriesAreProven
    /\ NothingOfALostPhone

\* A sequence over honest signals is an honest queue, one signal taken
\* from it or batches put behind it or not.
LEMMA HonestOverHonest ==
    ASSUME NEW S, \A signal \in S : Honest(signal), NEW queue \in Seq(S)
    PROVE  HonestQueue(queue)
<1>1. \A i \in DOMAIN queue : queue[i] \in S
  OBVIOUS
<1>2. queue \in Seq(Queued(queue))
  BY DEF Queued
<1>3. QED
  BY <1>1, <1>2 DEF HonestQueue, Queued

\* What is taken from an honest queue is honest, and so is what is left.
LEMMA TakenIsHonest ==
    ASSUME NEW queue, HonestQueue(queue), queue # <<>>
    PROVE  Honest(Head(queue)) /\ HonestQueue(Tail(queue))
<1> DEFINE S == Queued(queue)
<1>1. queue \in Seq(S) /\ \A signal \in S : Honest(signal)
  BY DEF HonestQueue
<1> HIDE DEF S
<1>2. Head(queue) \in S /\ Tail(queue) \in Seq(S)
  BY <1>1
<1>3. QED
  BY <1>1, <1>2, HonestOverHonest

\* An honest queue stays honest with a batch of honest signals.
LEMMA GrownIsHonest ==
    ASSUME NEW queue, HonestQueue(queue), NEW T, \A signal \in T : Honest(signal),
           NEW batch \in Seq(T)
    PROVE  HonestQueue(queue \o batch)
<1> DEFINE S == Queued(queue) \cup T
<1>1. queue \in Seq(S) /\ batch \in Seq(S) /\ \A signal \in S : Honest(signal)
  <2>1. queue \in Seq(Queued(queue)) /\ \A signal \in Queued(queue) : Honest(signal)
    BY DEF HonestQueue
  <2> HIDE DEF Queued
  <2>2. QED
    BY <2>1
<1> HIDE DEF S
<1>2. queue \o batch \in Seq(S)
  BY <1>1
<1>3. QED
  BY <1>1, <1>2, HonestOverHonest

\* And with one more.
LEMMA AppendedIsHonest ==
    ASSUME NEW queue, HonestQueue(queue), NEW signal, Honest(signal)
    PROVE  HonestQueue(Append(queue, signal))
<1> DEFINE S == Queued(queue) \cup {signal}
<1>1. queue \in Seq(S) /\ signal \in S /\ \A other \in S : Honest(other)
  <2>1. queue \in Seq(Queued(queue)) /\ \A other \in Queued(queue) : Honest(other)
    BY DEF HonestQueue
  <2> HIDE DEF Queued
  <2>2. QED
    BY <2>1
<1> HIDE DEF S
<1>2. Append(queue, signal) \in Seq(S)
  BY <1>1
<1>3. QED
  BY <1>1, <1>2, HonestOverHonest

\* Rebuilding the table makes it proven by the mirrors as they are now, or
\* empty, and empties what belongs to a phone when none is connected.
LEMMA BuildKeeps ==
    ASSUME NEW known, Build(known), IsTable(processes'.apps), Placed(inventory'.apps)
    PROVE  EntriesAreProven' /\ NothingOfALostPhone'
<1>1. CASE state' # "connected" \/ ~processes'.loaded \/ ~inventory'.loaded
  <2>1. view' = {} /\ (state' # "connected" => Forget)
    BY <1>1 DEF Build
  <2>2. NothingOfALostPhone'
    BY <2>1 DEF Forget, NoLabels, NothingOfALostPhone
  <2>3. QED
    BY <2>1, <2>2 DEF EntriesAreProven
<1>2. CASE ~(state' # "connected" \/ ~processes'.loaded \/ ~inventory'.loaded)
  <2>1. state' = "connected" /\
        view' = BuildBackground(processes'.apps, inventory'.apps, foreground', Capacity, known)
    BY <1>2 DEF Build
  <2>2. Proven(view', processes'.apps, inventory'.apps, foreground')
    BY <2>1, BuildIsProven DEF Placed
  <2>3. QED
    BY <2>1, <2>2 DEF Proven, EntriesAreProven, NothingOfALostPhone
<1>3. QED
  BY <1>1, <1>2

\* The first state shows nothing and owes nothing.
LEMMA BackgroundStart == BackgroundInit => BackgroundInv
<1> SUFFICES ASSUME BackgroundInit PROVE BackgroundInv
  OBVIOUS
<1>1. HonestQueue(toGui)
  <2>1. toGui \in Seq({}) /\ \A signal \in {} : Honest(signal)
    BY DEF BackgroundInit
  <2>2. QED
    BY <2>1, HonestOverHonest
<1>2. IsTable(processes.apps) /\ Placed(inventory.apps)
  BY DEF BackgroundInit, NotLoaded, IsTable, Placed
<1>3. EntriesAreProven /\ NothingOfALostPhone
  BY DEF BackgroundInit, EntriesAreProven, NothingOfALostPhone
<1>4. QED
  BY <1>1, <1>2, <1>3 DEF BackgroundInit, BackgroundInv

\* The steps of the monitor and of the apps worker leave the window alone,
\* and what they post is honest.
LEMMA WindowLeftAlone ==
    ASSUME BackgroundInv, UNCHANGED windowVars, HonestQueue(toGui'),
           attached' \in Phone \cup {NoPhone}, bound' \in Phone \cup {NoPhone}
    PROVE  BackgroundInv'
BY DEF BackgroundInv, windowVars, mirrors, noteVars, EntriesAreProven, NothingOfALostPhone

\* And with the three signals of a tick.
LEMMA BatchIsHonest ==
    ASSUME BackgroundInv, NEW a, NEW b, NEW c, Honest(a), Honest(b), Honest(c)
    PROVE  HonestQueue(toGui \o <<a, b, c>>)
<1> DEFINE T == {a, b, c}
<1>1. \A signal \in T : Honest(signal)
  OBVIOUS
<1>2. <<a, b, c>> \in Seq(T)
  OBVIOUS
<1>3. HonestQueue(toGui)
  BY DEF BackgroundInv
<1> HIDE DEF T
<1>4. QED
  BY <1>1, <1>2, <1>3, GrownIsHonest

\* The phone, and the monitor that reads it, post honest signals.
LEMMA PhoneStep ==
    ASSUME BackgroundInv, Exchange \/ Connect \/ Tick \/ LoseDevice
    PROVE  BackgroundInv'
<1> USE DEF BackgroundInv
<1>1. CASE Exchange
  BY <1>1, WindowLeftAlone DEF Exchange
<1>2. CASE Connect
  <2>1. Honest(Connection("connected"))
    BY DEF Honest, Connection
  <2>2. HonestQueue(toGui \o <<Connection("connected")>>)
    <3>1. <<Connection("connected")>> \in Seq({Connection("connected")})
      OBVIOUS
    <3>2. QED
      BY <2>1, <3>1, GrownIsHonest
  <2>3. QED
    BY <1>2, <2>2, WindowLeftAlone DEF Connect, Emit
<1>3. CASE Tick
  <2>1. bound \in Phone
    BY <1>3 DEF Tick
  <2>2. PICK outcome \in {"connected", "transient"},
             print \in OutputsOf[bound], dump \in ForegroundsOf[bound] :
           Emit(<<Connection(outcome),
                  [signal |-> "snapshots",
                   processes |-> Loaded(SampleProcesses(print.ps, print.top))],
                  [signal |-> "foreground", package |-> ParseForeground(dump)]>>)
    BY <1>3 DEF Tick
  <2>3. IsTable(SampleProcesses(print.ps, print.top))
    BY <2>1, BackgroundAssumption, SampleIsTable
  <2>4. /\ Honest(Connection(outcome))
        /\ Honest([signal |-> "snapshots",
                   processes |-> Loaded(SampleProcesses(print.ps, print.top))])
        /\ Honest([signal |-> "foreground", package |-> ParseForeground(dump)])
    BY <2>3 DEF Honest, Connection, Loaded
  <2>5. HonestQueue(toGui')
    BY <2>2, <2>4, BatchIsHonest DEF Emit
  <2>6. QED
    BY <1>3, <2>2, <2>5, WindowLeftAlone DEF Tick, Emit
<1>4. CASE LoseDevice
  <2>1. /\ Honest(Connection("lost"))
        /\ Honest([signal |-> "snapshots", processes |-> NotLoaded])
        /\ Honest([signal |-> "foreground", package |-> NoPackage])
    BY DEF Honest, Connection, NotLoaded, IsTable
  <2>2. HonestQueue(toGui')
    BY <1>4, <2>1, BatchIsHonest DEF LoseDevice, Emit
  <2>3. QED
    BY <1>4, <2>2, WindowLeftAlone DEF LoseDevice, Emit
<1>5. QED
  BY <1>1, <1>2, <1>3, <1>4

\* The worker of applications reads what is installed and posts it.
LEMMA AppsWorkerSteps ==
    ASSUME BackgroundInv, AppsWorkerStep
    PROVE  BackgroundInv'
<1> USE DEF BackgroundInv
<1>1. CASE RefreshInventory
  <2>1. CASE Reached = NoPhone
    <3>1. Honest([signal |-> "inventory", apps |-> {}])
      BY DEF Honest, Placed
    <3>2. QED
      BY <1>1, <2>1, <3>1, AppendedIsHonest, WindowLeftAlone DEF RefreshInventory, monitorVars
  <2>2. CASE Reached # NoPhone
    <3>1. Reached \in Phone
      BY <2>2 DEF Reached
    <3>2. Honest([signal |-> "inventory", apps |-> InventoryOf[Reached]])
      BY <3>1, BackgroundAssumption DEF Honest, Placed
    <3>3. QED
      BY <1>1, <2>2, <3>2, AppendedIsHonest, WindowLeftAlone DEF RefreshInventory, monitorVars
  <2>3. QED
    BY <2>1, <2>2
<1>2. CASE StartLabels \/ ResolveLabel
  BY <1>2, WindowLeftAlone DEF StartLabels, ResolveLabel, monitorVars
<1>3. CASE AnswerLabels
  <2>1. Honest([signal |-> "labels", labels |-> resolving.answer])
    BY DEF Honest
  <2>2. QED
    BY <1>3, <2>1, AppendedIsHonest, WindowLeftAlone DEF AnswerLabels, monitorVars
<1>4. QED
  BY <1>1, <1>2, <1>3 DEF AppsWorkerStep

\* The window mirrors what an honest signal carries and rebuilds the table.
LEMMA WindowSteps ==
    ASSUME BackgroundInv, WindowStep
    PROVE  BackgroundInv'
<1>1. PICK signal : Handling(signal)
  BY DEF WindowStep, UpdateConnection, UpdateSnapshots, UpdateForeground, AdoptInventory, AdoptLabels
<1>2. /\ attached' \in Phone \cup {NoPhone} /\ bound' \in Phone \cup {NoPhone}
      /\ HonestQueue(toGui') /\ Honest(Head(toGui))
  BY <1>1, TakenIsHonest DEF Handling, monitorVars, BackgroundInv
<1>3. IsTable(processes'.apps) /\ Placed(inventory'.apps)
  <2>1. CASE UpdateConnection
    BY <2>1 DEF UpdateConnection, BackgroundInv, NotLoaded, IsTable, Placed, mirrors
  <2>2. CASE UpdateSnapshots
    BY <1>2, <2>2 DEF UpdateSnapshots, Handling, Honest, BackgroundInv
  <2>3. CASE UpdateForeground
    BY <2>3 DEF UpdateForeground, BackgroundInv
  <2>4. CASE AdoptInventory
    BY <1>2, <2>4 DEF AdoptInventory, Handling, Honest, Loaded, BackgroundInv
  <2>5. CASE AdoptLabels
    BY <2>5 DEF AdoptLabels, mirrors, BackgroundInv
  <2>6. QED
    BY <2>1, <2>2, <2>3, <2>4, <2>5 DEF WindowStep
<1>4. EntriesAreProven' /\ NothingOfALostPhone'
  <2>1. CASE UpdateConnection
    <3>1. CASE state' = "lost"
      BY <2>1, <3>1 DEF UpdateConnection, Forget, NoLabels, EntriesAreProven, NothingOfALostPhone
    <3>2. CASE state' # "lost"
      BY <2>1, <3>2 DEF UpdateConnection, mirrors, noteVars, BackgroundInv,
                        EntriesAreProven, NothingOfALostPhone
    <3>3. QED
      BY <3>1, <3>2
  <2>2. CASE ~UpdateConnection
    <3>1. PICK known : Build(known)
      BY <2>2 DEF WindowStep, UpdateSnapshots, UpdateForeground, AdoptInventory, AdoptLabels
    <3>2. QED
      BY <1>3, <3>1, BuildKeeps
  <2>3. QED
    BY <2>1, <2>2
<1>5. QED
  BY <1>2, <1>3, <1>4 DEF BackgroundInv

\* Every step keeps the table and the signals honest.
LEMMA BackgroundStepKeeps ==
    ASSUME BackgroundInv, [BackgroundNext]_backgroundVars
    PROVE  BackgroundInv'
<1>1. CASE UNCHANGED backgroundVars
  BY <1>1, WindowLeftAlone DEF backgroundVars, monitorVars, BackgroundInv
<1>2. CASE BackgroundNext
  BY <1>2, PhoneStep, AppsWorkerSteps, WindowSteps DEF BackgroundNext, AppsWorkerStep, WindowStep
<1>3. QED
  BY <1>1, <1>2

\* In every state the table and the signals are honest.
THEOREM BackgroundInvariant == BackgroundSpec => []BackgroundInv
<1>1. BackgroundInv /\ [BackgroundNext]_backgroundVars => BackgroundInv'
  BY BackgroundStepKeeps
<1>2. QED
  BY <1>1, BackgroundStart, PTL DEF BackgroundSpec

\* Every application in the table is proven to run by the mirrors as they
\* are now, on any phones, whatever ps, top and pm say of them.
THEOREM TableIsProven == BackgroundSpec => []EntriesAreProven
<1>1. BackgroundInv => EntriesAreProven
  BY DEF BackgroundInv
<1>2. QED
  BY <1>1, BackgroundInvariant, PTL

\* Once the window knows that the phone is lost nothing of it is left,
\* whatever arrives of it afterwards and in whatever order.
THEOREM LostPhoneLeavesNothing == BackgroundSpec => []NothingOfALostPhone
<1>1. BackgroundInv => NothingOfALostPhone
  BY DEF BackgroundInv
<1>2. QED
  BY <1>1, BackgroundInvariant, PTL

=============================================================================
