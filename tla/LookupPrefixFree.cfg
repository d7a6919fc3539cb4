\* Every sorted table of up to three strings of up to two letters, none a prefix
\* of another, against every input of up to three letters.
SPECIFICATION Spec
CONSTANTS
    Letters = {1, 2, 3}
    MaxKey = 2
    MaxInput = 3
    TableSize = 3
    Shadowing = FALSE
INVARIANTS Partitioned FindsPrefix RoundTrip
CHECK_DEADLOCK FALSE
