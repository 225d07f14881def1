SPECIFICATION FairSpec
CONSTANTS
    Streams = {0}
    MaxBody = 1
PROPERTIES DisconnectEndsAll
CHECK_DEADLOCK FALSE
