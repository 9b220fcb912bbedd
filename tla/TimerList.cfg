\* The program ends with every timer deleted.
CHECK_DEADLOCK FALSE
SPECIFICATION FairSpec
CONSTANTS
    t1 = t1
    t2 = t2
    t3 = t3
    t4 = t4
    Timers <- MCTimers
    TTL = 1
    NULL = NULL
    MaxTime = 2
INVARIANT TypeOK Linked NoDanglingPointer AscendingIfMonotone
PROPERTY LoopsShorten OperationsEnd ImplementsTimerSet
