CONSTANTS
    b1 = b1
    w1 = w1
    w2 = w2
    kb = kb
    kw = kw
    Keys = {kb, kw}
    BtCandidates = {}
    WifiCandidates = {w1, w2}
    KeyOf <- MCKeyOf
    Disc = disc
    Callers = {c1}
    Fds = {f1, f2}
    Handlers = {h}
    AppSlots = {"link_dropped"}
    NoHandler = NoHandler
    NoFd = NoFd
    NoCandidate = NoCandidate
    MaxLinks = 1
    CallersReturnFirst = FALSE
SPECIFICATION Spec
PROPERTIES
    StopCompletes
    DropsDelivered
