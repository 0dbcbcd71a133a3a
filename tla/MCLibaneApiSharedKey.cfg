CONSTANTS
    kc = kc
    km = km
    kx = kx
    e1 = e1
    e2 = e2
    e3 = e3
    e4 = e4
    NoEntry = NoEntry
    NoKey = NoKey
    t1 = t1
    t2 = t2
    Key = {kc, km, kx}
    Thread = {t1}
    Entry = {e1, e2}
    EntryKey <- MCEntryKey
    EntrySize <- MCEntrySize
    MaxBytes = 1
    Requests <- OneRequest
    MatmulKeys = {kc}
    Buildable = {kc, km}
SPECIFICATION Spec
INVARIANTS
    ResultsRight
