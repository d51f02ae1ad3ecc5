CONSTANTS
    InitialBitrate = 1
    PaceNum = 5
    PaceDen = 2
    ClockSteps = {1}
    Packets <- PacketsOneStream
    Bitrates = {1}
    PadUpToBitrates = {0}
    MaxHandovers = 2
    MaxStalls = 0

SPECIFICATION FairSpec

PROPERTY LowDelivered
