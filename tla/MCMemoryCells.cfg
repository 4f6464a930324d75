CONSTANTS
    c1 = c1
    c2 = c2
    d1 = d1
    d2 = d2
    none = none
    Cells <- TwoCells
    Docs <- TwoDocs
    Pictured <- MCPictured
    NoDoc = none
    MaxAsks = 3
SPECIFICATION FairSpec
INVARIANTS
    TypeOK
    CellShowsItsRow
    PictureOfTheMemory
    DetailsOfTheRow
PROPERTY RowFills
CHECK_DEADLOCK FALSE
