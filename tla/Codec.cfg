\* Every text of up to five chunks for each pack, and every command into buffers
\* that are too small, filled to the last character, and large enough.
SPECIFICATION Spec
CONSTANTS
    IntMax = 999
    LineSize = 2
    FieldSize = 4
    Rooms = {0, 3, 8, 11, 12, 13, 14, 20}
    Texts <- MCTexts
    Numbers <- MCNumbers
    MaxPieces = 2
    Chunks <- MCChunks
    MaxChunks = 5
INVARIANTS OutputFits WritesWhole CursorInUnlessIllQuoted FirstMatch SplitKeepsVerdict RoundTrip
CHECK_DEADLOCK FALSE
