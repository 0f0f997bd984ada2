CONSTANTS
    p1 = p1
    p2 = p2
    p3 = p3
    p4 = p4
    CPUs = {c1, c2}
    Loader = ld
    Procs = {p1, p2, p3, p4}
    NULL = NULL
    MAX_QUEUE_SIZE = 2
    MAX_PRIO = 1
    Prio <- MCPrio
SPECIFICATION Spec
SYMMETRY MCSymmetry
INVARIANTS
    TypeOK
    OnePlace
