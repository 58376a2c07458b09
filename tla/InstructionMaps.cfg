\* Small buffers, so that each of them is filled and grown.
SPECIFICATION Spec
CONSTANTS
    MapSize = 2
    ReferenceSize = 2
    FunctionsSize = 1
    MaxLength = 4
    MaxFunctions = 3
    MaxInputs = 2
INVARIANTS
    RoomKept
    OverrunOnlyAtLabel
CHECK_DEADLOCK FALSE
