\* The server stops when main() destroys the pool: workers blocked in sem_wait stay there.
CHECK_DEADLOCK FALSE
SPECIFICATION FairSpec
CONSTANTS
    p1 = p1
    p2 = p2
    w1 = w1
    w2 = w2
    r1 = r1
    r2 = r2
    Producers <- MCProducers
    Workers <- MCWorkers
    Requests <- MCRequests
    MaxRequests = 1
    SemMax = 2
    Idle = Idle
    Nobody = Nobody
INVARIANT TypeOK LockDiscipline TestsStillHold NoLostWakeup
PROPERTY EveryRequestServed ImplementsRequestQueue
