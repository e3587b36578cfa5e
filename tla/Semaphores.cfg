\* Three processes and one semaphore of at most two.
CONSTANTS
    Proc = {p1, p2, p3}
    Addr = {a1}
    MaxValue = 2
    Nobody = Nobody
SPECIFICATION SemFairSpec
INVARIANT WakeupsSuffice
PROPERTY ImplementsSemaphore
