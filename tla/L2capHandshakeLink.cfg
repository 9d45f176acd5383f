CONSTANTS
    Clients = {c1, c2}
    Conns = {k1, k2}
    None = None
    Backlog = 2
SPECIFICATION Spec

INVARIANTS
    PublishedIsEstablished
CHECK_DEADLOCK FALSE
