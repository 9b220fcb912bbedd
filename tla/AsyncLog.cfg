\* The program ends, and nobody has to log anything.
CHECK_DEADLOCK FALSE
SPECIFICATION FairSpec
CONSTANTS
    w1 = w1
    w2 = w2
    Writers <- MCWriters
    MaxSize = 2
    SplitLines = 2
    Lines <- MCLines
    Crowd = 4
    Early = 2
    LastDay = 1
    NoFile = NoFile
INVARIANT TypeOK NothingVanishes InOrderUnlessFull FileBound
PROPERTY EveryLineWritten ImplementsLogBook
