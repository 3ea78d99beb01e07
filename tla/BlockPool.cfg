SPECIFICATION Spec
CONSTANTS
    Blocks = {b1, b2}
    Devices = {d1, d2}
    NoBlock = NoBlock
    Free = Free
    Prep = Prep
    Stop = Stop
    Spare = 0
SYMMETRY Symmetry
INVARIANTS
    TypeOK
    OneHolder
    IInv
PROPERTIES
    OpensReservedOnly
    OneOwner
