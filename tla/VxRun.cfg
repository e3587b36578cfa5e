SPECIFICATION FairSpec
CONSTANTS
    Prog <- MCProg
    Entry = 0
    NoteEip = 40
    DstOfsMax = 36
    Room = 3
    Window <- MCSafe
INVARIANTS
    PreciseTrap
    RegistersAtHome
    NoDeadCode
PROPERTY
    TickDelivered
