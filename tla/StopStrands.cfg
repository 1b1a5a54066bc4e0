CONSTANTS
    User = {u1}
    Loop = {l1}
    Conn = {c1, c2}
    NoOne = NoOne
    ChanCap = 4
    Load = 0
    MaxCalls = 2
    Ops = {"connect", "stop"}
    Faults = {}
SPECIFICATION Spec
INVARIANTS LoopManagesConnection
CHECK_DEADLOCK FALSE
