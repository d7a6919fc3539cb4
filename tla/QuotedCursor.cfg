\* As Codec.cfg, against the cursor without the exemption of ill-quoted texts.
SPECIFICATION Spec
CONSTANTS
    IntMax = 999
    LineSize = 2
    FieldSize = 4
    Rooms = {0}
    Texts <- MCTexts
    Numbers <- MCNumbers
    MaxPieces = 2
    Chunks <- MCChunks
    MaxChunks = 3
INVARIANT CursorInInput
CHECK_DEADLOCK FALSE
