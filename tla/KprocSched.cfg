CONSTANTS
    Kproc = {k1, k2, k3}
    Mach = {c1, c2, c3}
    None = None
    PromptReuse = FALSE
SPECIFICATION FairSpec
INVARIANT NoTwoStacks
INVARIANT MachZeroOnlyWhenSaved
INVARIANT EnoughAwake
PROPERTY EveryReadyRuns
