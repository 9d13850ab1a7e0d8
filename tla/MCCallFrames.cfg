CONSTANTS
    Functions <- Names
    Module = "module"
    Outer <- MCOuter
    Depth <- MCDepth
    Enclosing <- MCEnclosing
    MAX_REG = 2
    Segments <- MCSegments
    Body <- MCBody
    Params <- MCParams
    Calls <- MCCalls
    Live <- MCLive
    Captures <- MCCaptures
    Divides = {"g"}
    Arrays = {"main", "five"}
    Strings <- MCStrings
    Orderly = TRUE
    NestedArguments = FALSE
    LazyArguments = FALSE
    Reprints = FALSE
    MaxActive = 5
SPECIFICATION Spec
INVARIANTS
    TypeOK
    FrameBalanced
    TempsKept
    ParametersKept
    CapturedFound
PROPERTIES
    FollowsLinks
