CONSTANTS
    k1 = k1
    k2 = k2
    none = none
    Keys <- MCKeys
    Uses <- MCUses
    NoTopic <- none
    NumAcks = 2
    NumTopics = 4
    MaxCalls = 3
    MaxDepth = 3
    MaxFaults = 1
SPECIFICATION FairSpec
INVARIANTS TypeOK WaitingIsHeard
PROPERTIES ActionsImplemented EveryActionEnds
