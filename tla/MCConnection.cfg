SPECIFICATION MCFairSpec
CONSTANTS
    Streams = {0, 4}
    MaxBody = 1
INVARIANTS TypeOK OnlyLastIsDisclaimed LostIsNeverWhole NoRequestForgotten
PROPERTIES FulfilsContract RequestSettles
CHECK_DEADLOCK FALSE
