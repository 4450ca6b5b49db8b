CONSTANTS
    Poppers = {t1, t2, t3}
    TimedPoppers = {t3}
    Data = {d1, d2, NULL}
    MaxPushes = 3
SPECIFICATION FairSpec
INVARIANTS
    TypeOK
    Fifo
    NoLostWakeup
PROPERTY ImplementsLine
