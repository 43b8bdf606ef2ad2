SPECIFICATION Spec
CONSTANTS
    Roots = {a, b}
    None = None
    Renderers = {r}
    Sizes = {small, large}
    Modes = {"Dcomp", "Cpu"}
    Faults = {"post", "layout", "build", "memory"}
    MaxDepth = 3
    MaxCalls = 5
SYMMETRY Interchangeable
INVARIANTS PostProtocol FreshWhenQuiet CpuFrame RootProtocol
PROPERTIES NeverStalePublished
CHECK_DEADLOCK FALSE
