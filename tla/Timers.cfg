\* Two processes, each with two Rendezes, and a kproc that may change threads.
CONSTANTS
    Proc = {p1, p2}
    Rendez = {r1, r2}
    HostThread = {h1, h2}
    MaxDelay = 2
    alarmtimer = alarmtimer
    Nobody = Nobody
SPECIFICATION TimersFairSpec
INVARIANT HeadWatched
INVARIANT ListSound
PROPERTY TsleepReturns
