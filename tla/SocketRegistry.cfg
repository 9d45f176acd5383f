CONSTANTS
    Threads = {t1, t2}
    Sockets = {s1, s2, s3}
    Devices = {d1, d2}
    Configs = {c1, c2}
    Ports = {p1, p2}
    Ops = {"create", "conn", "disconnect", "destroy"}
    None = None
SPECIFICATION Spec
SYMMETRY Symmetry
INVARIANTS
    TypeOK
    ConfigsLive
    PortsExclusive
