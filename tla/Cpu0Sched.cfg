\* Three user processes, two threads that ready them.
CONSTANTS
    User = {u1, u2, u3}
    Thread = {t1, t2}
    NoUser = NoUser
SPECIFICATION Cpu0FairSpec
INVARIANT NoSleepOverWork
INVARIANT ReadyIsQueued
PROPERTY WorkGetsDone
