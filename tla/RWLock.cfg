\* Four processes, so that a reader and a writer can queue behind a batch of
\* two readers.
CONSTANTS
    Proc = {p1, p2, p3, p4}
    NoProc = NoProc
SPECIFICATION FairSpec
INVARIANT Exclusive
INVARIANT CountsOwners
INVARIANT HeadIsWriterUnderReaders
PROPERTY EveryoneGetsIn
PROPERTY ImplementsFairRW
