\* Verified programs: control, operands and termination.
SPECIFICATION FairSpec
CONSTANTS
    Images <- MCImages
    DepthAt <- MCDepthAt
    LevelAt <- MCLevelAt
    hello = hello
    Text = {hello}
    Opaque = Opaque
    Null = Null
    MaxNumber = 4
    FrameLimit = 3
    CellLimit = 2
INVARIANTS
    ControlInv
    DepthInv
    NoFault
    FramesSuffice
PROPERTIES
    ControlAdvances
    Termination
CHECK_DEADLOCK FALSE
