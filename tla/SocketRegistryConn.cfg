CONSTANTS
    Threads = {t1, t2}
    Sockets = {s1, s2}
    Devices = {d1, d2}
    Configs = {c1, c2}
    Ports = {p1, p2, p3}
    Ops = {"create", "conn"}
    None = None
SPECIFICATION Spec
SYMMETRY Symmetry
INVARIANTS
    ConnMeansConnected
