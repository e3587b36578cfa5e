\* Four processes, so that two can wait while a third is handed the lock and a
\* fourth arrives.
CONSTANTS
    Locker = {p1, p2, p3, p4}
    NoLocker = NoLocker
SPECIFICATION QLockFairSpec
INVARIANT OneOwner
PROPERTY EveryWaiterServed
PROPERTY ImplementsFifoMutex
