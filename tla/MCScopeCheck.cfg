CONSTANTS
    Names <- MCNames
    Main = "main"
    Functions <- MCFunctions
    MaxFunctions = 1
    MaxArguments = 1
    MaxScopes = 8
    MaxErrors = 0
    MaxSteps = 6
SPECIFICATION Spec
INVARIANTS
    TypeOK
    StaticDepths
    ResolvesLexically
    EscapesMarked
PROPERTIES
    LookupsStay
    MissingReturnReported
