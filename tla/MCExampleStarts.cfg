SPECIFICATION Spec
CONSTANTS
    Connections = {c1}
    Kinds = {"on"}
INVARIANTS ExampleStarts
CHECK_DEADLOCK FALSE
