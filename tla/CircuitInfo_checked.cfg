CONSTANTS
    UsizeBits = 8
    TwoAdicity = 4
    Counts <- MCCounts
    OverflowChecks = TRUE
SPECIFICATION Spec
INVARIANT TypeOK
INVARIANT EncodingRoundTrips
CHECK_DEADLOCK FALSE
