\* Files that are compiled and executed: the output is what the source means.
SPECIFICATION RunFileSpec
CONSTANTS
    Images <- MCImages
    Files <- MCFiles
    SourceOf <- MCSourceOf
    hello = hello
    Text = {hello}
    Opaque = Opaque
    Null = Null
    MaxNumber = 9
    FrameLimit = 4
    CellLimit = 4
INVARIANTS
    OutputMatches
    CompiledCodeVerifies
PROPERTY
    RunEnds
CHECK_DEADLOCK FALSE
