CONSTANTS
    First = p1
    Procs = {p1, p2}
    Cpus = {0, 1}
    TickMod = 4
    Sleeps <- SleepArgs
    IRQ_MAX_COUNT = 64
    None = None
SPECIFICATION Spec
INVARIANT NewReturns
VIEW Live
