SPECIFICATION FairSpec
CONSTANTS
    c1 = c1
    Clients = {c1}
    Loop = Loop
    Nobody = Nobody
    NoMsg = NoMsg
    Wants = {FALSE}
    Replies = {"full"}
    Dispatcher = "known"
    RxCapacity = 4
    Chunked = FALSE
    MayFail = TRUE
    MayStop = FALSE
    MaxCalls = 1
    MaxUrcs = 0
    MaxEvents = 1
PROPERTY SendFailureReturns
CHECK_DEADLOCK FALSE
