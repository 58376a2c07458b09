\* A disagreement: TLC finds BranchTaken violated.
SPECIFICATION ShellSpec
CONSTANTS
    Images = {}
    Inputs <- MCInputs
    InputOf <- MCInputOf
    MaxInputs = 2
    LabelLimit = 1
    Text = {}
    Opaque = Opaque
    Null = Null
    MaxNumber = 9
    FrameLimit = 4
    CellLimit = 4
INVARIANT
    BranchTaken
CHECK_DEADLOCK FALSE
