\* loop() calls the client while taskRunner runs a handler.
CONSTANTS
    main = main
    app = app
    app2 = app2
    runner = runner
    NoTask = NoTask
    Tasks = {app, runner}
    TaskOps <- WrapperOps
    CallbackOps <- NoOps
    Messages = TRUE
    LinkFaults = FALSE
    TryLock = FALSE
    AutoReconnect = TRUE
    InitialStates = {"IDLE"}
    MaxDoublings = 1
    MaxNesting = 1
SPECIFICATION Spec
INVARIANT TransientStateOwned
