--------------------------- MODULE AutomationFlow ---------------------------
(***************************************************************************)
(* Automated recommendations, from the click to the recorded outcome: the  *)
(* automation engine (automation/engine.py) and the window that drives it  *)
(* on the GUI thread, the action worker that runs requests one by one on a *)
(* thread of its own, and the two queues between them.  wire_actions gives *)
(* the engine its executor before the first event, so the refusals for a   *)
(* missing executor or a missing approval cannot happen here; execute() is *)
(* not used by the program.                                                *)
(***************************************************************************)
EXTENDS Integers, Sequences, FiniteSets

CONSTANTS
    Action, Destructive,     \* what can be done; DESTRUCTIVE_ACTIONS among it
    Target, Valid,           \* targets of recommendations; the package names among them
    NoTask, Never,
    Cooldown, Budget,        \* cooldown, max_executions_per_target
    MaxTime, MaxTasks, MaxQueued   \* bounds: clock, tasks of a session, queues

ASSUME AutomationAssumption ==
    /\ Destructive \subseteq Action /\ Valid \subseteq Target
    /\ Cooldown \in Nat /\ Budget \in Nat \ {0}
    /\ MaxTime \in Nat /\ MaxTasks \in Nat /\ MaxQueued \in Nat
    /\ Never \notin Nat

Key == Action \X Target
TaskStatus == {"waiting", "succeeded", "failed", "blocked"}

TaskRecord == [key : Key, status : TaskStatus, dispatched : BOOLEAN]
Result == [key : Key, success : BOOLEAN]

VARIABLES
    now,        \* time.monotonic()
    tasks,      \* AutomationEngine._tasks: A-001, A-002, ... of the session
    charged,    \* AutomationEngine._targets
    pending,    \* MainWindow._pending_automation_task, by its id and key
    requests,   \* action_requested, on its way to the worker
    results,    \* action_completed, on its way to the window
    carried     \* auxiliary: a task was pending when this session began

engineVars == <<tasks, charged>>
automationVars == <<now, engineVars, pending, requests, results, carried>>

Untouched == [last |-> Never, runs |-> 0]
Task(key, status) == [key |-> key, status |-> status, dispatched |-> FALSE]

AutomationInit ==
    /\ now = 0
    /\ tasks = <<>>
    /\ charged = [k \in Key |-> Untouched]
    /\ pending = NoTask
    /\ requests = <<>> /\ results = <<>>
    /\ carried = FALSE

-----------------------------------------------------------------------------
(* The engine. *)

Cooling(key) == charged[key].last # Never /\ now - charged[key].last < Cooldown

\* Mutant: the gate forgets the cooldown.
RefusalWithoutCooldown(key) ==
    IF key[2] \notin Valid THEN "failed"
    ELSE IF key[1] \in Destructive \/ charged[key].runs >= Budget
    THEN "blocked" ELSE "none"

\* Mutant: the budget is one too many.
RefusalOffByOne(key) ==
    IF key[2] \notin Valid THEN "failed"
    ELSE IF key[1] \in Destructive \/ Cooling(key) \/ charged[key].runs > Budget
    THEN "blocked" ELSE "none"

\* submit, approve and gate: what becomes of a recommendation that automation
\* may carry out.
Refusal(key) ==
    IF key[2] \notin Valid THEN "failed"
    ELSE IF key[1] \in Destructive \/ Cooling(key) \/ charged[key].runs >= Budget
    THEN "blocked" ELSE "none"

\* record_result: the task of that id now, and its own action and target.
RecordResult(id, success) ==
    IF id \notin DOMAIN tasks THEN UNCHANGED engineVars
    ELSE LET key == tasks[id].key
         IN  /\ tasks' = [tasks EXCEPT ![id].status =
                             IF success THEN "succeeded" ELSE "failed"]
             /\ charged' = IF success
                THEN [charged EXCEPT ![key] = [last |-> now, runs |-> @.runs + 1]]
                ELSE charged

-----------------------------------------------------------------------------
(* The window. *)

\* Mutant: the task is pending before the gate has decided.
ApplyAutomatedEarly(key) ==
    /\ Len(tasks) < MaxTasks /\ Len(requests) < MaxQueued
    /\ pending' = [id |-> Len(tasks) + 1, key |-> key]
    /\ IF Refusal(key) = "none"
       THEN /\ tasks' = Append(tasks, [Task(key, "waiting") EXCEPT !.dispatched = TRUE])
            /\ requests' = Append(requests, key)
       ELSE /\ tasks' = Append(tasks, Task(key, Refusal(key)))
            /\ UNCHANGED requests
    /\ UNCHANGED <<now, charged, results, carried>>

\* _apply_automated_recommendation.
ApplyAutomated(key) ==
    /\ Len(tasks) < MaxTasks
    /\ IF Refusal(key) = "none"
       THEN /\ Len(requests) < MaxQueued
            /\ tasks' = Append(tasks, [Task(key, "waiting") EXCEPT !.dispatched = TRUE])
            /\ pending' = [id |-> Len(tasks) + 1, key |-> key]
            /\ requests' = Append(requests, key)
       ELSE /\ tasks' = Append(tasks, Task(key, Refusal(key)))
            /\ UNCHANGED <<pending, requests>>
    /\ UNCHANGED <<now, charged, results, carried>>

\* A confirmed action of another page or of a recommendation not for automation;
\* those act on installed packages only.
RequestByHand(key) ==
    /\ Len(requests) < MaxQueued
    /\ requests' = Append(requests, key)
    /\ UNCHANGED <<now, engineVars, pending, results, carried>>

\* The pending task a result is taken to be the outcome of.
Matches(result) == pending # NoTask /\ pending.key = result.key

\* on_action_result, _finalize_automation_task.
OnResult ==
    /\ results # <<>>
    /\ results' = Tail(results)
    /\ IF Matches(Head(results))
       THEN /\ pending' = NoTask
            /\ RecordResult(pending.id, Head(results).success)
       ELSE UNCHANGED <<pending, engineVars>>
    /\ UNCHANGED <<now, requests, carried>>

\* on_serial_ready: begin_session of the engine; the pending task is kept.
SessionBegins ==
    /\ tasks' = <<>>
    /\ charged' = [k \in Key |-> Untouched]
    /\ carried' = (pending # NoTask)
    /\ UNCHANGED <<now, pending, requests, results>>

\* update_connection(a loss state).
PhoneLost ==
    /\ pending # NoTask
    /\ pending' = NoTask
    /\ UNCHANGED <<now, engineVars, requests, results, carried>>

-----------------------------------------------------------------------------
(* The action worker. *)

\* Mutant: the worker is silent when an action fails.
AnswerSuccessOnly(success) ==
    IF success THEN Append(results, [key |-> Head(requests), success |-> TRUE])
    ELSE results

Answer(success) == Append(results, [key |-> Head(requests), success |-> success])

\* request_action: a request is run to its end and always answered; the busy
\* flag is down whenever the worker takes one.
WorkerRuns ==
    /\ requests # <<>> /\ Len(results) < MaxQueued
    /\ \E success \in BOOLEAN : results' = Answer(success)
    /\ requests' = Tail(requests)
    /\ UNCHANGED <<now, engineVars, pending, carried>>

TimePasses ==
    /\ now < MaxTime
    /\ now' = now + 1
    /\ UNCHANGED <<engineVars, pending, requests, results, carried>>

AutomationNext ==
    \/ \E key \in Key : ApplyAutomated(key)
    \/ \E key \in Action \X Valid : RequestByHand(key)
    \/ OnResult
    \/ SessionBegins
    \/ PhoneLost
    \/ WorkerRuns
    \/ TimePasses

AutomationSpec == AutomationInit /\ [][AutomationNext]_automationVars

-----------------------------------------------------------------------------
AutomationTypeOK ==
    /\ now \in 0 .. MaxTime
    /\ tasks \in Seq(TaskRecord)
    /\ charged \in [Key -> [last : Nat \cup {Never}, runs : Nat]]
    /\ pending \in [id : Nat \ {0}, key : Key] \cup {NoTask}
    /\ requests \in Seq(Key)
    /\ results \in Seq(Result)
    /\ carried \in BOOLEAN

\* Loop protection: whatever is clicked while an answer is out, and however
\* sessions follow one another, no more executions than the budget are recorded
\* for an action on a target in one session.
BudgetHolds == \A k \in Key : charged[k].runs <= Budget

\* Two recorded executions of an action on a target in one session are at least
\* the cooldown apart.
RecordedRunsAreApart ==
    [][\A k \in Key :
          charged'[k].runs > charged[k].runs /\ charged[k].last # Never =>
              now - charged[k].last >= Cooldown]_automationVars

\* Unless a task was still pending when the session began, a task is reported
\* as executed only if it passed the gate and was sent to the worker: never one
\* refused for its target, its action, its cooldown or its budget.
ReportedTasksRan ==
    ~carried => \A i \in DOMAIN tasks : tasks[i].status = "succeeded" => tasks[i].dispatched

\* A task that waits for its outcome always has an answer on the way: the
\* request, or its result, is still queued.
PendingIsAnswered ==
    pending # NoTask =>
        \/ \E i \in DOMAIN requests : requests[i] = pending.key
        \/ \E i \in DOMAIN results : results[i].key = pending.key

=============================================================================
