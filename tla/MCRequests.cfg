CONSTANTS
    t1 = t1
    t2 = t2
    none = none
    Topics <- MCTopics
    NoTopic <- none
    NumHandlers = 2
    MaxDepth = 4
    MaxRequests = 3
    MaxMessages = 2
SPECIFICATION Spec
INVARIANTS TypeOK PromisedHandlersKept
PROPERTIES AckIsOwn DeliveredToAll
