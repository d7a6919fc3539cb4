\* As in Cpin.h: strings of the table may be prefixes of others.
SPECIFICATION Spec
CONSTANTS
    Letters = {1, 2}
    MaxKey = 2
    MaxInput = 2
    TableSize = 2
    Shadowing = TRUE
INVARIANT RoundTrip
CHECK_DEADLOCK FALSE
