CONSTANTS
    Channels = {2}
    GroupSizes = {1, 2}
    Paced = FALSE
    MaxSeqs = 5
    NetCap = 2
    AckNetCap = 1
    MaxCleanups = 1
    Window = 5
    Lifetime = 5
    HalfSeq = 8
    AckBits = 2
    QueueCap = 3
    DeliveredCap = 3
    SeenCap = 2
    CompletedCap = 2
    MaxFragments = 2
    U8Mod = 4
SPECIFICATION Spec
INVARIANT TypeOK
INVARIANT InOrder
INVARIANT ReorderIsFuture
INVARIANT ForgottenOnlyIfArrived
PROPERTY AckNeverRetracts
PROPERTY ImplementsChannel
