CONSTANTS
    Players <- OnePlayer
    Rtts = {0, 60}
    TickHz = 2
    SnapshotHz = 2
    KeyInterval = 4
    RingSize = 2
    TickMod = 3
    FirstInput = 6
    Skew <- Ahead
    SeqHalf = 4
    JitterTicks = 2
    JitterCap = 2
    None = None
    MaxTick = 6
    MaxInputs = 3
    MaxEvents = 4
SPECIFICATION Spec
CHECK_DEADLOCK FALSE
INVARIANT TypeOK
 
INVARIANT BufferOrdered
INVARIANT BaselineHeld
INVARIANT KeyframeInTime
