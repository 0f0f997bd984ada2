CONSTANTS
    Procs = {a, b}
    NumFrames = 10
    PAGESZ = 2
    MAX_PGN = 4
    PT_ENTRIES = 2
    InitEnd = 4
    DefaultSize = 3
    Wrap = 16
    Regions = {0}
    Sizes = {}
    Offsets = {0, 2}
    Vals = {1}
    MapArgs = {}
    IncAreas = {}
    IoAddrs = {}
    Pattern = 12
    FpnRange = 16
    MaxInstr = 2
SPECIFICATION Spec
SYMMETRY MCSymmetry
CONSTRAINT RaceFree
INVARIANTS
    FrameAccounting
    ReadBack
    PagesHaveTables
