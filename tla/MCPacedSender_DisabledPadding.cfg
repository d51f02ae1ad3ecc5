CONSTANTS
    InitialBitrate = 1
    PaceNum = 5
    PaceDen = 2
    ClockSteps = {10, 31}
    Packets <- PacketsOneStream
    Bitrates = {1}
    PadUpToBitrates = {0, 2}
    MaxHandovers = 1
    MaxStalls = 0

SPECIFICATION Spec

PROPERTY DisabledProcessSilent
