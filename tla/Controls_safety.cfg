SPECIFICATION MCSpec
CONSTANTS
    NObjects = 2
    Props = {"text", "fill", "edge", "glow"}
    Inherits = {}
    Slots <- ThreeSlots
    Cells <- ClientCells
    Values = {0, 1}
    Default = 0
    Unset = Unset
    Handlers <- Observers
    Whole = "whole"
    Internal <- Expressions
    Target <- Text
    TargetHandler <- OnText
    Groups = {"common", "focus"}
    States <- TemplateStates
    NoState = NoState
    MaxDepth = 4
    MaxOwned = 2
    MaxTicks = 3
    ItemLists <- TwoLists
    NoItem = NoItem
    MaxShows = 3
    Numbers = {0, 1, 2, 3}
    MaxPuts = 3
    Pages = {"first", "second"}
    Nowhere = "nowhere"
    MaxEntries = 4
    MaxPages = 3
INVARIANTS TransferProtocol StateApplied TimerProtocol PopupFlags SelectionSettled RangeKept
PROPERTIES KeepsHistory
CHECK_DEADLOCK FALSE
