\* One task makes every call, its handlers too.
CONSTANTS
    main = main
    app = app
    app2 = app2
    runner = runner
    NoTask = NoTask
    Tasks = {main}
    TaskOps <- OneTask
    CallbackOps <- AllOps
    Messages = TRUE
    LinkFaults = TRUE
    TryLock = TRUE
    AutoReconnect = TRUE
    InitialStates = {"INITIALIZED", "IDLE"}
    MaxDoublings = 1
    MaxNesting = 2
SPECIFICATION Spec
INVARIANTS TypeOK TransientStateOwned SessionMatchesState
PROPERTY SessionImplemented
