CONSTANTS
    Shapes <- MCShapes
    Values = {7, 8}
    MaxArrays = 2
    MaxStores = 2
SPECIFICATION Spec
INVARIANTS
    RegistersKept
PROPERTIES
    BehavesAsArrays
CHECK_DEADLOCK FALSE
