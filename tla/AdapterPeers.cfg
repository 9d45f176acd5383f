CONSTANTS
    Conns <- MCConns
    Fds <- MCFds
    Hash <- MCHash
    LinkPort = 42000
    NoPort = 65535
SPECIFICATION Spec
INVARIANTS
    PeersTypeOK
    ConnectedIsMade
    DescriptorsDistinct
    LeakBounded
    DestroyedHoldsNothing
PROPERTIES
    CallsReturn
CHECK_DEADLOCK FALSE
