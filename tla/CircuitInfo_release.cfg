CONSTANTS
    UsizeBits = 8
    TwoAdicity = 4
    Counts <- MCCounts
    OverflowChecks = FALSE
SPECIFICATION Spec
INVARIANT DegreeBoundsTotal
CHECK_DEADLOCK FALSE
