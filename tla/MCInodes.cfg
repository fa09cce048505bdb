CONSTANTS
    p1 = p1
    p2 = p2
    Procs = {p1, p2}
    First = {p1, p2}
    Inums = {1, 2, 3, 4}
    Slots = {1, 2, 3}
    Files = {1}
    Fds = {0, 1}
    Names = {"a", "b", "c"}
    Made <- Programs
    Calls <- TreeCalls
    None = None
SPECIFICATION Spec
INVARIANTS NamesHaveInodes RefsAccounted TableCoherent NoPanic
VIEW Live
