CONSTANTS
    Clients = {1, 2}
    Kinds = {"ws"}
    PortMod = 2
    ChanCap = 1
    QueueCap = 1
    Second = 1
    BytesPerKbps = 3
    Threshold = 1
    MaxPayload = 1
    Overhead = 1
    HeaderLen = 1
    IdLen = 0
    TagLen = 0
    HelloLen = 0
    MaxBody = 4
    ChunkLen = 4
    Script <- Mixed
    MaxFrames = 2
    MaxBreaks = 1
    MaxConns = 2
    MaxTime = 1
SPECIFICATION Spec
CHECK_DEADLOCK FALSE
INVARIANT TypeOK
INVARIANT FramesWhole
 
 
INVARIANT BudgetKept
