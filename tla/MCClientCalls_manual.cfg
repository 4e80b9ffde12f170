\* One task whose handlers make requests and yield, and a disconnect handler
\* that reconnects by hand.
CONSTANTS
    main = main
    app = app
    app2 = app2
    runner = runner
    NoTask = NoTask
    Tasks = {main}
    TaskOps <- OneTask
    CallbackOps <- SafeCallbackOps
    Messages = TRUE
    LinkFaults = TRUE
    TryLock = TRUE
    AutoReconnect = FALSE
    InitialStates = {"INITIALIZED", "IDLE"}
    MaxDoublings = 1
    MaxNesting = 2
SPECIFICATION Spec
INVARIANT CallbackExcludesYield
