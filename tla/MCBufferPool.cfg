CONSTANTS
    b1 = b1
    b2 = b2
    b3 = b3
    b4 = b4
    small = small
    big = big
    d1 = d1
    d2 = d2
    r1 = r1
    r2 = r2
    t1 = t1
    t2 = t2
    Thread = {t1, t2}
    Buffer = {b1, b2, b3, b4}
    NoBuffer = NoBuffer
    Size = {1, 2}
    Layout = {small, big}
    NoLayout = NoLayout
    LayoutBytes <- MCLayoutBytes
    Data = {d1, d2}
    Junk = Junk
    Value = {d1, d2, r1, r2, Junk}
    F <- MCF
    Requests <- MCRequests
    MaxIdle = 1
SYMMETRY Symmetry
SPECIFICATION Spec
INVARIANTS
    Exclusive
    IdleBounded
    SizesMatch
    MetadataFresh
    NoLeak
PROPERTIES
    OwnResult
