CONSTANTS
    W = 4
    H = 2
    Starts <- MCStarts
    Counts <- MCCounts
    MaxLength = 3
    Slots = 3
    Modulus = 5
    FpuLength = 6
    Size = 4
    Bytes = {1, 2}
    Base = 8
    MaxCalls = 2
    FrameLength = 5
    ByteBits = 2
    Values <- MCValues
    WideLength = 3
    Vectors <- MCVectors
    LanesLength = 2
    RegisterValues <- MCRegisters
    Memories <- MCMemories
SPECIFICATION BenchSpec
INVARIANTS
    RegistersAgree
    FlagsAgree
    ConditionsAgree
    FpuAgrees
    StringsAgree
    StackAgrees
    WideAgrees
    LanesAgree
    MovesAgree
CHECK_DEADLOCK FALSE
