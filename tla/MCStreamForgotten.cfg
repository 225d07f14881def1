SPECIFICATION Spec
CONSTANTS
    Streams = {0}
    MaxBody = 1
PROPERTIES StreamForgotten
CHECK_DEADLOCK FALSE
