\* Three tasks on an established connection.
CONSTANTS
    main = main
    app = app
    app2 = app2
    runner = runner
    NoTask = NoTask
    Tasks = {app, app2, runner}
    TaskOps <- SteadyOps
    CallbackOps <- NoOps
    Messages = FALSE
    LinkFaults = FALSE
    TryLock = TRUE
    AutoReconnect = TRUE
    InitialStates = {"IDLE"}
    MaxDoublings = 1
    MaxNesting = 0
SPECIFICATION Spec
CHECK_DEADLOCK FALSE
INVARIANT ExclusiveExchange
