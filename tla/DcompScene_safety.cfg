SPECIFICATION Spec
CONSTANTS
    Panels = {"source"}
    Threads = {t1, t2}
    Resources = {r1, r2, r3}
    None = None
    MaxGeneration = 2
    MaxCalls = 2
    Nodes <- Tree2
    Root = "root"
    Addresses = {a1, a2, a3}
    Forms <- NodeForms
    MaxChanges = 4
SYMMETRY Symmetry
INVARIANTS RetainedAlive
PROPERTIES FrameProtocol
CHECK_DEADLOCK FALSE
