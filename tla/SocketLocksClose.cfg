CONSTANTS
    Threads = {t1, t2}
    Sockets = {s1}
    Ops = {"create", "conn", "io", "destroy"}
    None = None
    MaxCalls = 3
SPECIFICATION Spec
PROPERTIES
    NoCloseDuringIO
