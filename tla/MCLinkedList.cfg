CONSTANTS
    NULL = NULL
    l1 = l1
    l2 = l2
    n1 = n1
    n2 = n2
    n3 = n3
    n4 = n4
    d1 = d1
    d2 = d2
    Lists <- MCLists
    Nodes <- MCNodes
    Data <- MCData
SPECIFICATION Spec
SYMMETRY Symmetry
INVARIANTS
    TypeOK
    WellLinked
    NoSharing
PROPERTIES
    KeepsSequences
    OperationsAsPromised
