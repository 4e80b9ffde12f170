\* A yielding task and a task that makes every other call, blocking mutex, no messages.
CONSTANTS
    main = main
    app = app
    app2 = app2
    runner = runner
    NoTask = NoTask
    Tasks = {app, runner}
    TaskOps <- ManagerOps
    CallbackOps <- NoOps
    Messages = FALSE
    LinkFaults = TRUE
    TryLock = FALSE
    AutoReconnect = TRUE
    InitialStates = {"INITIALIZED", "IDLE"}
    MaxDoublings = 1
    MaxNesting = 0
SPECIFICATION FairSpec
PROPERTY ReturnsToRest
