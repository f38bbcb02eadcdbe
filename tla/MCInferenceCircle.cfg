SPECIFICATION InferenceSpec
CONSTANTS
    Inputs <- CircleInputs
    UINT_MAX = 1000
INVARIANT
    CallsMatch
