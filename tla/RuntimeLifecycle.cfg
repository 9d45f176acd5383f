CONSTANTS
    Apps = {a1, a2}
    Instances = {r1, r2, r3}
    None = None
    MaxHandles = 2
    CallbacksCall = TRUE
SPECIFICATION Spec
INVARIANTS
    TypeOK
    RefcountCounts
    HolderServed
    NoUseAfterDelete
PROPERTIES
    ImplementsSharing
    DestroyReturns
CHECK_DEADLOCK FALSE
