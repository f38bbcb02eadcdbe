SPECIFICATION Spec
CONSTANTS
    Programs <- AllPrograms
    StackSize = 200
    Fuel = 400
INVARIANTS
    BehavesAsMeant
    NoFault
    RegistersKept
    StackBelowFrame
PROPERTY
    Halts
