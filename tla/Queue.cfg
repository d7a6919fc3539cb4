\* Two producers and two consumers: puts, gets, late and spurious wake-ups.
SPECIFICATION FairSpec
CONSTANTS
    p1 = p1
    p2 = p2
    c1 = c1
    c2 = c2
    Producers = {p1, p2}
    Consumers = {c1, c2}
    MaxPuts = 2
INVARIANTS NoLostWakeup HandedOutOnce InOrder
PROPERTIES Drained
