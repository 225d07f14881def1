SPECIFICATION FairSpec
CONSTANTS
    Streams = {s1}
    MaxBody = 2
INVARIANTS TypeOK WireDiscipline ExchangeSettled CompleteResponseKept NoTruncatedRequest
PROPERTIES SilentAfterEnd FulfilsContract EveryRequestSettles
CHECK_DEADLOCK FALSE
