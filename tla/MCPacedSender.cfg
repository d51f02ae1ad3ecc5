CONSTANTS
    InitialBitrate = 1
    PaceNum = 5
    PaceDen = 2
    ClockSteps = {10, 31}
    Packets <- PacketsOneStream
    Bitrates = {0, 1}
    PadUpToBitrates = {0}
    MaxHandovers = 2
    MaxStalls = 1

SPECIFICATION Spec

INVARIANT TypeOK
INVARIANT PacketListConsistent
INVARIANT AtMostOnce
INVARIANT NoIdleCredit
PROPERTY ImplementsAbstract
