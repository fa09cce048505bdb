SPECIFICATION Spec
CONSTANTS
    Procs = {p1, p2}
    InitProc = p1
    Blocks = {b1, b2, b3}
    Data = {d1, d2}
    ZeroData = d1
    LOGSIZE = 4
    MAXOPBLOCKS = 2
    NLOG = 4
    OpBlocks = 1
    NoData = NoData
    NoBlock = NoBlock
SYMMETRY Interchangeable
INVARIANTS
    NoPanic
    CommitAlone
    PinnedUntilInstalled
    SleepersCalled
PROPERTIES
    WriteAhead
    CallsAtomic
