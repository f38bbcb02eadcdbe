SPECIFICATION InferenceSpec
CONSTANTS
    Inputs <- Examples
    UINT_MAX = 1000
INVARIANTS
    SearchSound
    PartitionIntoSccs
    AsDocumented
    AllSolved
    CallsMatch
PROPERTY
    RecursionsEnd
