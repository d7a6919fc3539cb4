\* Two callers, with and without a response, answers in pieces.  The receive buffer
\* takes a whole answer with its response (four parts), but not an answer and a
\* URC: a call with a response returns when its answer is read at once, and the
\* buffer also cuts answers in two.
SPECIFICATION FairSpec
CONSTANTS
    c1 = c1
    c2 = c2
    Clients = {c1, c2}
    Loop = Loop
    Nobody = Nobody
    NoMsg = NoMsg
    Wants = {TRUE, FALSE}
    Replies = {"full"}
    Dispatcher = "known"
    RxCapacity = 4
    Chunked = TRUE
    MayFail = TRUE
    MayStop = TRUE
    MaxCalls = 1
    MaxUrcs = 1
    MaxEvents = 1
PROPERTIES CallReturns InputDrained
CHECK_DEADLOCK FALSE
