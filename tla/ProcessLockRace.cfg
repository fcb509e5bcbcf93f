SPECIFICATION Spec
CONSTANTS
    p1 = p1
    p2 = p2
    p3 = p3
    p4 = p4
    Procs = {p1, p2, p3, p4}
    HostOf <- MCHostOf
    Attempts = 3
    Concurrent = TRUE
PROPERTY LiveLockKept
CHECK_DEADLOCK FALSE
