CONSTANTS
    t1 = t1
    t2 = t2
    none = none
    Topics <- MCTopics
    NoTopic <- none
    NumHandlers <- MCNumHandlers
    MinWait <- MCMinWait
    MaxWait <- MCMaxWait
    AutoReconnect = TRUE
SPECIFICATION FairSpec
INVARIANTS TypeOK HandlersKept SubscriptionsLive
PROPERTIES RecoveryEnds
