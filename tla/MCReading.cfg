\* Sources and texts read: lexed, then parsed.
SPECIFICATION ReadingSpec
CONSTANTS
    Files <- MCFiles
    SourceOf <- MCSourceOf
    Layouts <- MCLayouts
    Texts <- MCTexts
    IdentifierChars <- MCIdentifierChars
    Digits <- MCDigits
    StringSize = 2
    TokenSize = 3
INVARIANTS
    BuffersHaveRoom
    OutsideOnlyOpenString
    TokensAsWritten
    LinesReadAsWritten
    OpenReadBeyond
    OneLineReadAsWritten
PROPERTIES
    LexingAdvances
    LexingEnds
CHECK_DEADLOCK FALSE
