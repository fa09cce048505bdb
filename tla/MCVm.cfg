CONSTANTS
    First = p1
    Procs = {p1, p2}
    Cpus = {c1, c2}
    NPages = 12
    PG_SIZE = 2
    TabSize = 3
    MaxSize = 5
    Segs <- Program
    Argcs = {1}
    Steps = {3}
    Hot = {1}
    None = None
SPECIFICATION Spec
INVARIANTS PagesAccounted NoPanic TlbFollows
VIEW Live
SYMMETRY Symmetry
