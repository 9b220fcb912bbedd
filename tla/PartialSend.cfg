\* No connection is accepted once MaxLost files are lost.
CHECK_DEADLOCK FALSE
SPECIFICATION FairSpec
CONSTANTS
    BufSize = 8
    Sizes <- MCSizes
    MaxLost = 2
INVARIANT WireExact
