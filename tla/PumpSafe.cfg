SPECIFICATION FairSpec
CONSTANTS
    MaxMessageBytes = 2
    MaxQueuedBytes = 3
    Size = {0, 1, 2, 3}
    MaxMessages = 6
    Burst = 3
INVARIANTS
    BytesBounded
PROPERTIES
    ChannelKept
    SourceResumes
CHECK_DEADLOCK FALSE
