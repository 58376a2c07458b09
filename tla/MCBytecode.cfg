\* Saved files, loaded and executed: what is kept whatever memory holds.
SPECIFICATION BytecodeSpec
CONSTANTS
    Images <- MCImages
    Files <- MCFiles
    SourceOf <- MCSourceOf
    Bytes <- MCBytes
    Leftovers = {0, 104}
    StringSize = 4
    Readers = {"1.0.0", "0.0.0"}
    hello = hello
    none = none
    exact = exact
    Text <- MCText
    Opaque = Opaque
    Null = Null
    MaxNumber = 600
    FrameLimit = 5
    CellLimit = 4
INVARIANTS
    InstructionsKept
    PoolKept
    BufferHolds
    LoadedMatches
    LoadedIsSafe
PROPERTIES
    LoadedRunsAsSaved
    LoadedRunEnds
CHECK_DEADLOCK FALSE
