CONSTANTS
    User = {u1}
    Loop = {l1}
    Conn = {c1, c2}
    NoOne = NoOne
    ChanCap = 4
    Load = 1
    MaxCalls = 1
    Ops = {"connect"}
    Faults = {"write"}
SPECIFICATION Spec
PROPERTIES Recovers
CHECK_DEADLOCK FALSE
