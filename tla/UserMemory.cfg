SPECIFICATION Spec
CONSTANTS
    Proc = {p1, p2, p3}
    Seg = {s1, s2}
    Page = {g1, g2}
    Space = {u1, u2}
    NPages = 1
    HighWater = 0
    None = None
SYMMETRY Symmetry
CONSTRAINT NoRace
INVARIANTS
    PagesCounted
    Coherent
    CacheClean
PROPERTIES
    SpaceKept
    ImplementsMemory
