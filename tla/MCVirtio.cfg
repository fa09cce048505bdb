CONSTANTS
    Procs = {p1, p2, p3}
    NUM = 7
    IdxMod = 7
    None = None
SPECIFICATION FairSpec
INVARIANTS DescsAccounted Transferred NoSleepOnDone
PROPERTY RequestEnds
