SPECIFICATION FairSpec
CONSTANTS
    Connections = {c1}
    Kinds = {"on"}
PROPERTIES ForceExitStops
CHECK_DEADLOCK FALSE
