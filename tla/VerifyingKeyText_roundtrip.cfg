\* One string is decoded and the behaviour ends: no deadlock check.
CONSTANTS
    Symbols = {"q", "p"}
    KeyLen = 1
    Hrps = {"verifier", "prover"}
    MaxEdits = 2
SPECIFICATION Spec
INVARIANT TypeOK
INVARIANT TextRoundTrip
CHECK_DEADLOCK FALSE
