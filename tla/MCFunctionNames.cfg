SPECIFICATION Spec
CONSTANTS
    first = first
    second = second
    third = third
    Names <- MCNames
    Main <- MCMain
    ParameterLists <- MCParameterLists
    MaxFunctions = 4
    MaxDeclared = 2
INVARIANTS
    CallsReach
    BodiesPlaced
