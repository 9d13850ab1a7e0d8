CONSTANTS
    MAX_REG = 2
    MaxNodes = 5
    Frames = 2
    Programs <- SmallPrograms
SPECIFICATION Spec
INVARIANTS
    TypeOK
    ProperColouring
    SpillJustified
    AllColoured
PROPERTIES
    ParametersStay
    KeepsPromise
