\* One safe and one destructive action on one package and one name that is none.
SPECIFICATION AutomationSpec
CONSTANTS
    launch = launch
    stop = stop
    app = app
    noname = noname
    Action = {launch, stop}
    Destructive = {stop}
    Target = {app, noname}
    Valid = {app}
    NoTask = none
    Never <- NeverRun
    Cooldown = 1
    Budget = 2
    MaxTime = 2
    MaxTasks = 3
    MaxQueued = 2
INVARIANTS
    BudgetHolds
    ReportedTasksRan
    PendingIsAnswered
PROPERTY RecordedRunsAreApart
CHECK_DEADLOCK FALSE
