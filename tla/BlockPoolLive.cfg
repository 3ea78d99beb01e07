SPECIFICATION FairSpec
CONSTANTS
    Blocks = {b1}
    Devices = {d1, d2}
    NoBlock = NoBlock
    Free = Free
    Prep = Prep
    Stop = Stop
    Spare = 0
PROPERTIES
    WriterServed
