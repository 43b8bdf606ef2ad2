SPECIFICATION Spec
CONSTANTS
    Sinks = {s1, s2}
    Nodes = {n1, n2}
    None = None
    MaxDepth = 3
    IdRange = 4
SYMMETRY Interchangeable
INVARIANTS FocusBalanced FocusProtocol
PROPERTIES CaptureProtocol FrameIdNeverZero
