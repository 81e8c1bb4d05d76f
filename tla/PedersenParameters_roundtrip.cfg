\* One write/read of the parameters ends the behaviour: no deadlock check.
CONSTANTS
    NumWindows = 2
    WindowSize = 2
    Order = 2
    U32Bits = 2
    MaxToken = 3
    MaxCorruptions = 2
    MaxForeignLen = 3
SPECIFICATION Spec
INVARIANT TypeOK
INVARIANT RoundTrip
INVARIANT AcceptedStreamIsCanonical
CHECK_DEADLOCK FALSE
