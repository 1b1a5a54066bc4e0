CONSTANTS
    User = {u1}
    Script = {s1, s2}
    Headers = Headers
    Uses <- OwnScripts
    ChanCap = 2
    MaxBatch = 2
SPECIFICATION Spec
INVARIANTS TypeOK NothingMissed NothingResurrected
PROPERTIES SubscriptionsArrive
CHECK_DEADLOCK FALSE
