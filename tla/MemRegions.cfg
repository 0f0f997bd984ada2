CONSTANTS
    Procs = {a}
    NumFrames = 8
    PAGESZ = 2
    MAX_PGN = 8
    PT_ENTRIES = 2
    InitEnd = 4
    DefaultSize = 3
    Wrap = 64
    Regions = {0, 1}
    Sizes = {0, 1, 3, 58, 61}
    Offsets = {0, 2}
    Vals = {0, 1}
    MapArgs <- MCMapArgs
    IncAreas <- MCIncAreas
    IoAddrs = {1, 15, 16}
    Pattern = 28
    FpnRange = 16
    MaxInstr = 4
SPECIFICATION Spec
INVARIANTS
    RegionsDisjoint
    ReadBack
    FrameAccounting
    PagesHaveTables
    TypeOK
