SPECIFICATION Spec
CONSTANTS
    SPACE = 1024
    SEGMENT = 512
    UNCACHED = 512
    RAM_END = 448
    LINES = 2
    INT_MAX = 4095
    Vectors = {160, 176, 192}
    START = 256
    JUNK = 222
    HANDLER = 128
    BEV_HANDLER = 640
    ISTAT = 448
    IMASK = 452
    GTE_CYCLES = 5
    MUL_CYCLES = 7
    RegSet = {0, 1, 2, 4, 26, 27, 31}
    UserRegs = {0, 1, 2, 4, 31}
    HandlerCode <- HandlerCode_MC
    ISA <- Words
    Images <- Images_MC
INVARIANTS CacheFresh ResultsWaited
PROPERTIES JumpsKept ImplementsProgram IrqServed
