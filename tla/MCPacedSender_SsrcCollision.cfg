CONSTANTS
    InitialBitrate = 1
    PaceNum = 5
    PaceDen = 2
    ClockSteps = {10, 31}
    Packets <- PacketsTwoStreams
    Bitrates = {1}
    PadUpToBitrates = {0}
    MaxHandovers = 2
    MaxStalls = 0

SPECIFICATION Spec

PROPERTY DropOnlyDuplicates
