\* Clients may stop asking, and nobody has to start the program again.
CHECK_DEADLOCK FALSE
SPECIFICATION FairSpec
CONSTANTS
    w1 = w1
    w2 = w2
    n1 = n1
    n2 = n2
    p1 = p1
    p2 = p2
    Workers <- MCWorkers
    Names <- MCNames
    Passwords <- MCPasswords
    MaxRequests = 3
    MaxStarts = 2
    Absent = Absent
    Nobody = Nobody
INVARIANT TypeOK ToldIsStored OneOwner
PROPERTY RequestsAnswered
