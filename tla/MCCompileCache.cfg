CONSTANTS
    k1 = k1
    k2 = k2
    k3 = k3
    e1 = e1
    e2 = e2
    e3 = e3
    e4 = e4
    t1 = t1
    t2 = t2
    Key = {k1, k2, k3}
    Thread = {t1, t2}
    Entry = {e1, e2, e3, e4}
    NoEntry = NoEntry
    NoThread = NoThread
    EntryKey <- MCEntryKey
    EntrySize <- MCEntrySize
    MaxBytes = 3
    MaxGets = 3
SPECIFICATION FairSpec
INVARIANTS
    TypeOK
    MapMatchesLru
    BytesExact
    WithinBudget
PROPERTIES
    ImplementsLru
    PutReturns
