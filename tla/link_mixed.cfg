CONSTANTS
    Channels = {1, 3}
    GroupSizes = {1}
    Paced = FALSE
    MaxSeqs = 5
    NetCap = 2
    AckNetCap = 1
    MaxCleanups = 0
    Window = 5
    Lifetime = 2
    HalfSeq = 8
    AckBits = 3
    QueueCap = 2
    DeliveredCap = 2
    SeenCap = 3
    CompletedCap = 1
    MaxFragments = 2
    U8Mod = 4
SPECIFICATION Spec
 
INVARIANT ForgottenOnlyIfArrived
INVARIANT Ch3AtMostOnce
INVARIANT Ch1NewestWins
PROPERTY AckNeverRetracts
