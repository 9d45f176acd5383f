CONSTANTS
    Threads = {t1, t2, t3}
    Sockets = {s1, s2}
    Ops = {"create", "conn", "io", "disconnect", "destroy", "cleanup"}
    None = None
    MaxCalls = 2
SPECIFICATION Spec
SYMMETRY Symmetry
INVARIANTS
    TypeOK
    NoLockCycle
    CallsEnd
PROPERTIES
    ImplementsTable
