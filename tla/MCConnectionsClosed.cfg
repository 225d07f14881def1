SPECIFICATION Spec
CONSTANTS
    Connections = {c1, c2}
    Kinds = {"on"}
INVARIANTS ConnectionsClosed
CHECK_DEADLOCK FALSE
