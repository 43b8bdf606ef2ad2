SPECIFICATION MCSpec
CONSTANTS
    Px = 6
    Inf = 6000
    NaN = NaN
    PanelKinds <- Kinds
    ChildLists <- Lists
    Constraints <- Given
    Finals <- Places
    Offsets <- ScrolledBy
    MaxLoops = 5
    Blocks <- Paragraphs
    LineHeight = 10
    TextOffers <- TextGiven
    TextSlots <- TextPlaces
    Counts = {0, 3, 6}
    ItemExtents = {2, 3}
    ViewOffsets = {0, 3, 7, 20}
    ViewExtents = {0, 3, 6}
    CacheLengths = {0, 1, 2}
    MaxMaking = 2
INVARIANTS ContentsKept OffsetInRange GridKept TextKept ItemsRealized
