CONSTANTS
    p1 = p1
    p2 = p2
    p3 = p3
    CPUs = {c1, c2}
    Loader = ld
    Procs = {p1, p2, p3}
    NULL = NULL
    MAX_QUEUE_SIZE = 3
    MAX_PRIO = 2
    Prio <- MCPrio
SPECIFICATION Spec
SYMMETRY MCSymmetry
INVARIANTS
    QueueIsSequence
    ReadySlotsFilled
    OnePlace
    HeldIsListed
PROPERTIES
    ImplementsMlq
