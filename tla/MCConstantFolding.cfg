CONSTANTS
    LongBits = 4
    ShortBits = 2
    MAX_PARAMETERS = 1
    Programs <- MCPrograms
    Environments <- MCEnvironments
SPECIFICATION Spec
INVARIANTS
    TypesSound
    FoldingKeepsMeaning
    OnePassFoldsAll
CHECK_DEADLOCK FALSE
