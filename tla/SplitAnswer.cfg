SPECIFICATION FairSpec
CONSTANTS
    c1 = c1
    Clients = {c1}
    Loop = Loop
    Nobody = Nobody
    NoMsg = NoMsg
    Wants = {TRUE}
    Replies = {"full"}
    Dispatcher = "known"
    RxCapacity = 4
    Chunked = TRUE
    MayFail = FALSE
    MayStop = FALSE
    MaxCalls = 1
    MaxUrcs = 0
    MaxEvents = 1
PROPERTY WaitingEnds
CHECK_DEADLOCK FALSE
