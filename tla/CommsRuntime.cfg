CONSTANTS
    b1 = b1
    w1 = w1
    w2 = w2
    kb = kb
    kw = kw
    Keys = {kb, kw}
    BtCandidates = {b1}
    WifiCandidates = {w1}
    KeyOf <- MCKeyOf
    Disc = disc
    Callers = {c1}
    Fds = {f1, f2, f3}
    Handlers = {h}
    AppSlots = {"wifi_device", "link_discovered", "link_dropped"}
    NoHandler = NoHandler
    NoFd = NoFd
    NoCandidate = NoCandidate
    MaxLinks = 1
    CallersReturnFirst = TRUE
SPECIFICATION Spec
SYMMETRY Symmetry
INVARIANTS
    TypeOK
    LinkTable
    SocketOwnership
    LivePointers
    NothingAfterDrain
    ThreadsJoined
PROPERTIES
    ImplementsDirectory
