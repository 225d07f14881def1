SPECIFICATION MCSpec
CONSTANTS
    Possible <- MCPossible
    Limit = 5
    MaxUnits = 10
    MaxValue = 2
INVARIANTS
    TypeOK CapsulesInOrder BadStopsTheParser NothingWaits
    AcceptsUsable OwnSettingsStand
PROPERTIES FailureIsFinal
CHECK_DEADLOCK FALSE
