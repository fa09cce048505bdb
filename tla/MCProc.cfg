CONSTANTS
    NPROC = 3
    CPUs = {c1, c2}
    KillArgs = {3}
    MaxPid = 4
    None = None
SPECIFICATION FairSpec
INVARIANTS StackOwned NoLostWakeup ParentCanWait
PROPERTY KilledAwakeExits
