CONSTANTS
    p1 = p1
    p2 = p2
    Procs = {p1, p2}
    Held <- OneAndTwo
    Bufs = {b1, b2, b3}
    Blocks = {k1, k2, k3, k4}
    Data = {d1, d2}
    MaxPins = 1
    None = None
SPECIFICATION Spec
SYMMETRY Symmetry
INVARIANTS RefsCounted HolderSeesLatest EnoughBuffers
CHECK_DEADLOCK FALSE
