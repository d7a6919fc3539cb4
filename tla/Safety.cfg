SPECIFICATION Spec
CONSTANTS
    c1 = c1
    c2 = c2
    c3 = c3
    Clients = {c1, c2, c3}
    Loop = Loop
    Nobody = Nobody
    NoMsg = NoMsg
    Wants = {TRUE, FALSE}
    Replies = {"full", "error"}
    Dispatcher = "any"
    RxCapacity = 3
    Chunked = TRUE
    MayFail = TRUE
    MayStop = TRUE
    MaxCalls = 1
    MaxUrcs = 1
    MaxEvents = 1
SYMMETRY ClientSymmetry
INVARIANTS TypeOK NoOrphan LiveFrame GateHolds OwnAnswer NoLostWakeup ResultKept
PROPERTIES ServedUntilAnswered ServiceSpec
CHECK_DEADLOCK FALSE
