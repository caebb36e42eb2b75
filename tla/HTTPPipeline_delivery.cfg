SPECIFICATION Spec
CONSTANTS
    app = app
    a = a
    b = b
    default = default
    AnyBundle = AnyBundle
    None = None
    Processes = {app}
    NumTasks = 4
    IssuerOf <- MCIssuerOne
    GroupOf <- MCGroups
    DefaultGroup = default
    NonCritical = {2}
    Broken = {3}
    Background = TRUE
    Scenarios <- MCScenarios
INVARIANTS TypeOK DeliveredOnce OneRunningRowPerGroup ScheduledFairly
PROPERTIES EveryRequestAnswered
CHECK_DEADLOCK FALSE
