CONSTANTS
    NULL = NULL
    e1 = e1
    e2 = e2
    e3 = e3
    e4 = e4
    v1 = v1
    v2 = v2
    Keys <- MCKeys
    Values <- MCValues
    Buckets <- MCBuckets
    Hash <- ThreeOne
    Entries <- MCEntries
SPECIFICATION Spec
SYMMETRY Symmetry
INVARIANTS
    DeletesOneEntry
