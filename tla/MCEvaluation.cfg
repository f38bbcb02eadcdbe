SPECIFICATION Spec
CONSTANTS
    Names    <- MCNames
    Interface <- MCInterface
    Programs <- MCPrograms
    Exprs    <- MCExprs
    Height   <- MCHeight
INVARIANTS NoWildCall OneMeaning WritesExpansion OneRoundSuffices
PROPERTY Terminates
\* The compiler ends.
CHECK_DEADLOCK FALSE
