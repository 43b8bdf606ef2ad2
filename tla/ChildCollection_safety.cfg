SPECIFICATION Spec
CONSTANTS
    Elements = {r, p, q, x}
    Panels = {r, p, q}
    Hosted = {r}
    None = None
    MaxDepth = 2
SYMMETRY Interchangeable
INVARIANTS ListsAreTheTree RemovalProtocol
CHECK_DEADLOCK FALSE
