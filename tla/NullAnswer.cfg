CONSTANTS
    Caller = {k1}
    Nobody = Nobody
    NoId = NoId
    Uses <- SingleCalls
    Answers = {"value", "null"}
    ChanCap = 1
    BroadcastCap = 1
    MaxId = 2
    MaxBatch = 2
SPECIFICATION Spec
PROPERTIES WaitingCallsGetTheirAnswers
CHECK_DEADLOCK FALSE
