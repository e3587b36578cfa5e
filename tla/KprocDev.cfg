\* Two processes, two servers, as many threads.
CONSTANTS
    Caller = {c1, c2}
    Server = {s1, s2}
    Thread = {t1, t2}
    None = None
SPECIFICATION FairSpec
CHECK_DEADLOCK FALSE
INVARIANT OneCallPerServer
PROPERTY NoStrayInterrupt
PROPERTY CallsReturn
