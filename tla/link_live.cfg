CONSTANTS
    Channels = {2}
    GroupSizes = {1, 2}
    Paced = TRUE
    MaxSeqs = 3
    NetCap = 3
    AckNetCap = 1
    MaxCleanups = 1
    Window = 3
    Lifetime = 2
    HalfSeq = 4
    AckBits = 2
    QueueCap = 2
    DeliveredCap = 2
    SeenCap = 1
    CompletedCap = 1
    MaxFragments = 2
    U8Mod = 3
SPECIFICATION FairSpec
PROPERTY Ch2Delivered
PROPERTY QueueDrains
