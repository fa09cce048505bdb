CONSTANTS
    p1 = p1
    p2 = p2
    Procs = {p1, p2}
    W = 2
    NDIRECT = 2
    FSSIZE = 16
    NINODES = 5
    IPB = 2
    NLOG = 1
    MAXOPBLOCKS = 6
    ImageFiles <- OneFile
    Names = {"f", "a", "b"}
    Lengths = {3, 8}
    MaxCalls = 4
SPECIFICATION Spec
INVARIANTS BlocksAccounted ReadsBack UnloggedIsData FitsLog
SYMMETRY Symmetry
CHECK_DEADLOCK FALSE
