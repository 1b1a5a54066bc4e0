CONSTANTS
    User = {u1}
    Loop = {l1, l2}
    Conn = {c1, c2}
    NoOne = NoOne
    ChanCap = 2
    Load = 1
    MaxCalls = 2
    Ops = {"connect", "change", "headers", "msg"}
    Faults = {"write", "panic", "lagAnswer"}
SPECIFICATION Spec
INVARIANTS TypeOK ServesCurrentAddress
PROPERTIES AddressChangesWhileStopped
SYMMETRY Pools
CHECK_DEADLOCK FALSE
