CONSTANTS
    PageSize = 4
    Alignment = 2
    HeaderSize = 2
    MaxAddr = 76
    Caps = {0, 3}
    Lens = {0, 3, 12}
    MaxRegions = 2
    MaxBlocks = 3
SPECIFICATION Spec
INVARIANTS
    BlocksApart
    LinksMapped
    NothingLeaks
PROPERTIES
    DestroyEnds
    ImplementsArena
