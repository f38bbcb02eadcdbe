SPECIFICATION Spec
CONSTANTS
    Problems <- MCProblems
    Meanings <- MCMeanings
    Depth <- MCDepth
INVARIANTS
    Acyclic
    MakesEqual
PROPERTIES
    MostGeneral
    Terminates
