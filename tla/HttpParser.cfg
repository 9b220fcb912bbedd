\* The client may stop, and read_file() may never return.
CHECK_DEADLOCK FALSE
SPECIFICATION FairSpec
CONSTANTS
    BufSize = 19
    Messages <- MCMessages
    Length <- MCLength
    MaxRequests = 3
    MaxPieces = 2
    NoMsg = NoMsg
    NoFile = NoFile
    NoReply = NoReply
INVARIANT TypeOK ParsedAsSent SpillComplete
PROPERTY TerminatorInside StoredIsUploaded IntactIsAnswered
