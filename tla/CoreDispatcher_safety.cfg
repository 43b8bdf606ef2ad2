SPECIFICATION Spec
CONSTANTS
    Clients = {c1, c2}
    Owner = owner
    Actions = {a1, a2, a3}
    Kept = {a1}
    Priorities = {0, 1}
    NoAction = none
    PostMayFail = TRUE
    MayExit = TRUE
SYMMETRY Interchangeable
INVARIANTS TypeOK WakeProtocol ReleaseProtocol FifoWithinPriority
PROPERTIES CompletionProtocol KeepsPromise
CHECK_DEADLOCK FALSE
