SPECIFICATION MCSpec
CONSTANTS
    Targets = {t1, t2}
    Roots = {r1, r2}
    None = None
    MaxDepth = 3
    MaxHandlers = 2
    Parts = {"focus"}
SYMMETRY Interchangeable
INVARIANT RouteIsSnapshot
CHECK_DEADLOCK FALSE
