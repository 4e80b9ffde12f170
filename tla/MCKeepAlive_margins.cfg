CONSTANTS
    Interval <- MCInterval
    YieldGap <- MCYieldGap
    Delay <- MCDelay
    MaxBacklog <- MCMaxBacklog
SPECIFICATION Spec
INVARIANTS TypeOK DeadLinkNoticed NoFalseAlarm
