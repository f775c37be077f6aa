SPECIFICATION FairSpec
CONSTANTS
    p1 = p1
    p2 = p2
    d1 = d1
    d2 = d2
    Pid = {p1, p2}
    Dir = {d1, d2}
    None = None
    NoFile = NoFile
    Empty = Empty
    MayFail <- AnyCall
INVARIANTS
    OneServer
PROPERTIES
    RefusedByLiving
    PortPassesOn
    ExitCompletes
