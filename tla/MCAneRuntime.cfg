CONSTANTS
    t1 = t1
    t2 = t2
    p1 = p1
    p2 = p2
    Thread = {t1, t2}
    Program = {p1, p2}
    HasStringId = TRUE
SPECIFICATION Spec
INVARIANTS
    InitAgrees
    RefsOwned
    MappingKnown
    ModelsOwned
PROPERTIES
    InitializeEnds
