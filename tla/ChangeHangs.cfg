CONSTANTS
    User = {u1}
    Loop = {l1, l2}
    Conn = {c1, c2}
    NoOne = NoOne
    ChanCap = 4
    Load = 0
    MaxCalls = 2
    Ops = {"connect", "change"}
    Faults = {}
SPECIFICATION Spec
PROPERTIES ChangeReturns
CHECK_DEADLOCK FALSE
