CONSTANTS
    p1 = p1
    p2 = p2
    p3 = p3
    p4 = p4
    CPUs = {c1, c2}
    Loader = ld
    Procs = {p1, p2, p3, p4}
    NULL = NULL
    MAX_QUEUE_SIZE = 4
    MAX_PRIO = 2
    Prio <- MCPrio
    TimeSlots = {0, 2}
    Workload <- MCWorkload
    start_time <- MCStart
    CodeSize <- MCCode
SPECIFICATION FairSpec
INVARIANTS
    TypeOK
    NothingLeftBehind
    WholeSlice
PROPERTIES
    OneInstructionPerSlot
    EveryProcessEnds
    SlotsGoOn
