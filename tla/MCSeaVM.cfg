\* Every short program: what holds whatever the code.
SPECIFICATION Spec
CONSTANTS
    Images <- MCImages
    hello = hello
    Text = {hello}
    Opaque = Opaque
    Null = Null
    MaxNumber = 4
    FrameLimit = 3
    CellLimit = 2
INVARIANTS
    TypeOK
    ReturnsAfterCall
PROPERTIES
    CallerFramesKept
    CallsNest
CHECK_DEADLOCK FALSE
