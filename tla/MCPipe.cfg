CONSTANTS
    Procs = {p1, p2, p3}
    Bytes = {b1, b2}
    PIPESIZE = 2
    Wrap = 4
    MaxN = 2
    Readers = {p1, p2}
    Writers = {p3}
    Killable = {p1, p3}
    None = None
SPECIFICATION Spec
INVARIANTS NoSleepWhenReady FreedOnce
PROPERTIES InOrder EofMeansClosed
CHECK_DEADLOCK FALSE
