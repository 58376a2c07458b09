\* A disagreement: TLC finds ReturnedValueStored violated.
SPECIFICATION RunFileSpec
CONSTANTS
    Images <- MCImages
    Files <- MCFiles
    SourceOf <- MCSourceOf
    Text = {}
    Opaque = Opaque
    Null = Null
    MaxNumber = 9
    FrameLimit = 4
    CellLimit = 4
INVARIANT
    ReturnedValueStored
CHECK_DEADLOCK FALSE
