SPECIFICATION MCSpec
CONSTANTS
    Targets = {t1, t2}
    Roots = {r1, r2}
    None = None
    MaxDepth = 3
    MaxHandlers = 2
    Parts = {"focus", "pointer"}
SYMMETRY Interchangeable
INVARIANTS OneTransition WillingIsHosted PointerProtocol
CHECK_DEADLOCK FALSE
