SPECIFICATION Spec
CONSTANTS
    x = x
    y = y
    Garbage = Garbage
    Byte <- MCBytes
    WordSize = 4
    MaxPayload = 5
INVARIANTS
    AcceptedIsSent
    RoundTrip
CHECK_DEADLOCK FALSE
