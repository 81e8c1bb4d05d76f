CONSTANTS
    Functions <- MCFunctions
    Main <- MCMain
    Calls <- FlatCalls
    NumInputs <- MCNumInputs
    NumOutputs <- MCNumOutputs
    Finalizes <- MCFinalizes
    FinalizeArity <- MCFinalizeArity
    MaxInputs = 2
    MaxMutations = 2
SPECIFICATION Spec
INVARIANT TypeOK
PROPERTY ImplementsVerifier
