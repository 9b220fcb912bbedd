\* With every descriptor of the instance leaked by a worker that closes late, nothing is left to do.
CHECK_DEADLOCK FALSE
SPECIFICATION FairSpec
CONSTANTS
    f1 = f1
    w1 = w1
    w2 = w2
    Fds <- MCFds
    Workers <- MCWorkers
    Listen = Listen
    Pipe = Pipe
    MaxRequests = 1
    MaxUsers = 1
    MaxEvents = 3
    TTL = 1
    Fits = 1
    Slack = 0
    Idle = Idle
    Freed = Freed
PROPERTY ClosesInactive
