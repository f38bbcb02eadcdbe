SPECIFICATION FilesSpec
CONSTANTS
    Data = {p, q}
    Holders <- MCHolders
    MaxCells = 24
    file_exprss <- MCFiles
    Objects = 1
    MaxExprs = 2
    MaxSyms = 1
    MaxRounds = 2
PROPERTY
    ImplementsValues
\* The compiler ends.
CHECK_DEADLOCK FALSE
