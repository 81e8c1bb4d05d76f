\* One leaf is written and the behaviour ends: no deadlock check.
CONSTANTS
    VariantBits = 2
    IndexBits = 2
    FieldBits = 3
    FieldModulus = 7
SPECIFICATION Spec
INVARIANT TypeOK
INVARIANT LeafEncodingInjective
CHECK_DEADLOCK FALSE
