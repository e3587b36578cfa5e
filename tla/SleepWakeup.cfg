\* Two sleepers on two Rendezes, two threads that wake and note them.
CONSTANTS
    Sleeper = {p1, p2}
    Thread = {t1, t2}
    Rendez = {r1, r2}
    None = None
SPECIFICATION FairSpec
INVARIANT LinksAgree
INVARIANT NoPanic
INVARIANT NoLostWakeup
PROPERTY WakersReturn
PROPERTY SleepersReturn
