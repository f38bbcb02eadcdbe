SPECIFICATION Spec
CONSTANTS
    Files    <- MCFiles
    Sections <- MCSections
    Bases    <- MCBases
    Updates  <- MCUpdates
    Modulus  <- MCModulus
INVARIANT FieldsAsMeant
\* An object that store_addends refuses is not used any further.
CHECK_DEADLOCK FALSE
