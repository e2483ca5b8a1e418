CONSTANTS
    Packets <- MCPackets
    Words <- MCWords
    Colours = {0}
    VRAM_W = 2
    VRAM_H = 2
SPECIFICATION DriverSpec
INVARIANTS BufferFits InStep LoadArrives StoreDelivers
PROPERTY IdleAgain
