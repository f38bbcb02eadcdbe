SPECIFICATION Spec
CONSTANTS
    Programs <- ReferencePrograms
    StackSize = 200
    Fuel = 400
INVARIANT
    BehavesAsMeant
