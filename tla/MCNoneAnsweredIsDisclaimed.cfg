SPECIFICATION Spec
CONSTANTS
    Streams = {0, 4}
    MaxBody = 1
INVARIANTS NoneAnsweredIsDisclaimed
CHECK_DEADLOCK FALSE
