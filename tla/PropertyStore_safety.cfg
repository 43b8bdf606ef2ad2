SPECIFICATION Spec
CONSTANTS
    NObjects = 3
    Props = {"font", "width"}
    Inherits = {"font"}
    Slots <- ThreeSlots
    Cells <- TreeCells
    Values = {0, 1}
    Default = 0
    Unset = Unset
    Handlers <- Observers
    Whole = "whole"
    Internal = {}
    MaxDepth = 2
INVARIANTS MarkedWhenMoved
PROPERTIES ObserversTold
