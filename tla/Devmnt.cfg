\* Two processes and three Mntrpcs: one of them is interrupted while the other
\* reads or sleeps, or twice in one call.
CONSTANTS
    Proc = {p1, p2}
    Rpc = {r1, r2, r3}
    None = None
SPECIFICATION FairSpec
INVARIANT QueueOK
INVARIANT RightReply
PROPERTY CallsReturn
