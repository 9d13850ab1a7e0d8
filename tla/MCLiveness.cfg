CONSTANTS
    Functions <- Analysed
    MaxWork = 12
SPECIFICATION Spec
INVARIANTS
    TypeOK
    LivenessExact
    LabelsAgree
    NoCrash
PROPERTIES
    SetsGrow
    Terminates
