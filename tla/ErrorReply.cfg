SPECIFICATION FairSpec
CONSTANTS
    c1 = c1
    Clients = {c1}
    Loop = Loop
    Nobody = Nobody
    NoMsg = NoMsg
    Wants = {TRUE}
    Replies = {"error"}
    Dispatcher = "known"
    RxCapacity = 4
    Chunked = FALSE
    MayFail = FALSE
    MayStop = FALSE
    MaxCalls = 1
    MaxUrcs = 0
    MaxEvents = 1
PROPERTY ResultEndsCall
CHECK_DEADLOCK FALSE
