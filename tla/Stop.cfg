CONSTANTS
    User = {u1}
    Loop = {l1, l2}
    Conn = {c1}
    NoOne = NoOne
    ChanCap = 3
    Load = 0
    MaxCalls = 2
    Ops = {"connect", "start", "stop", "change"}
    Faults = {"write", "panic", "lagStop"}
SPECIFICATION Spec
PROPERTIES StopEndsLoops
CHECK_DEADLOCK FALSE
