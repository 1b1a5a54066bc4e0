CONSTANTS
    Caller = {k1, k2}
    Nobody = Nobody
    NoId = NoId
    Uses <- SomeUses
    Answers = {"value", "error"}
    ChanCap = 1
    BroadcastCap = 1
    MaxId = 3
    MaxBatch = 2
SPECIFICATION Spec
INVARIANTS TypeOK IdsAreUnique PendingIsKnown
PROPERTIES NotSentIsNotWritten NeverResent ImplementsRpc TimedCallsReturn
CHECK_DEADLOCK FALSE
