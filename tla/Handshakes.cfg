CONSTANTS
    Clients = {c1, c2}
    Conns = {k1, k2, k3}
    None = None
    Backlog = 2
    WifiPeers = {w1}
    Ports = {p1, p2, p3}
    NoPort = NoPort
SPECIFICATION HandshakesSpec
INVARIANTS
    HandshakesTypeOK
    PublishedWasHeard
    PublishedWasAnswered
    ServerEnds
PROPERTIES
    AttemptEnds
    EventuallyPublished
    ServerReturns
    ServersStop
CHECK_DEADLOCK FALSE
