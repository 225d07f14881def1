SPECIFICATION FairSpec
CONSTANTS
    Connections = {c1, c2}
    Kinds = {"on", "off"}
INVARIANTS
    TypeOK VerdictsFollow NoEarlyAnswer ServesOnlyWhenUp StopsAfterRequests
    ServesOnlyApplications LifespanIsStopped WaitsOnlyForSilence
PROPERTIES WaitsEnd ShutdownEnds KeepsPromises
CHECK_DEADLOCK FALSE
