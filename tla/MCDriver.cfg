CONSTANTS
    Commands <- MCCommands
    Contents <- MCContents
SPECIFICATION Spec
INVARIANTS
    LinkedAlone
    ReferencesPlaced
    StorageAsClassified
\* a run of the compiler ends
CHECK_DEADLOCK FALSE
