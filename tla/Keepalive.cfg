CONSTANTS
    User = {u1}
    Loop = {l1, l2}
    Conn = {c1, c2}
    NoOne = NoOne
    ChanCap = 5
    Load = 2
    MaxCalls = 2
    Ops = {"connect", "start", "msg"}
    Faults = {}
SPECIFICATION Spec
INVARIANTS ConnectedIsServed OneLoop OneServing LoopManagesConnection
PROPERTIES Recovers ImplementsKeepAlive
CHECK_DEADLOCK FALSE
