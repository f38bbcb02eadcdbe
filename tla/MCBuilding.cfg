SPECIFICATION BuildingSpec
CONSTANTS
    Programs <- MCPrograms
    Bases    <- MCBases
    Updates  <- MCUpdates
    Modulus  <- MCModulus
INVARIANTS DecodesBack FitsReserved SectionsFound StaticsApart CodeRefersRight ExportsRight
