\* Shell sessions: what one input leaves to the next.
SPECIFICATION ShellSpec
CONSTANTS
    Images = {}
    Inputs <- MCInputs
    InputOf <- MCInputOf
    MaxInputs = 4
    LabelLimit = 1
    hello = hello
    Text = {hello}
    Opaque = Opaque
    Null = Null
    MaxNumber = 9
    FrameLimit = 4
    CellLimit = 4
INVARIANTS
    SessionMatches
    PromptAtTop
    SessionCodeVerifies
PROPERTY
    InputEnds
CHECK_DEADLOCK FALSE
