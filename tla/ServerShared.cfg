\* With every descriptor of the instance leaked by a worker that closes late, nothing is left to do.
CHECK_DEADLOCK FALSE
SPECIFICATION Spec
CONSTANTS
    f1 = f1
    f2 = f2
    f3 = f3
    w1 = w1
    w2 = w2
    Fds <- MCFds
    Workers <- MCWorkers
    Listen = Listen
    Pipe = Pipe
    MaxRequests = 1
    MaxUsers = 3
    MaxEvents = 2
    TTL = 1
    Fits = 1
    Slack = 0
    Idle = Idle
    Freed = Freed
SYMMETRY Symmetry
CONSTRAINT Undisturbed
INVARIANT HandOff CountExact
