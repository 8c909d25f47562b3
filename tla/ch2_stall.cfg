CONSTANTS
    Channels = {1, 2}
    GroupSizes = {1}
    Paced = TRUE
    MaxSeqs = 2
    NetCap = 2
    AckNetCap = 3
    MaxCleanups = 0
    Window = 2
    Lifetime = 2
    HalfSeq = 4
    AckBits = 2
    QueueCap = 2
    DeliveredCap = 3
    SeenCap = 1
    CompletedCap = 1
    MaxFragments = 2
    U8Mod = 4
SPECIFICATION FairSpec
PROPERTY Ch2Delivered
