CONSTANTS
    Players <- TwoPlayers
    Rtts = {0}
    TickHz = 2
    SnapshotHz = 2
    KeyInterval = 4
    RingSize = 2
    TickMod = 3
    FirstInput = 6
    Skew <- Apart
    SeqHalf = 4
    JitterTicks = 2
    JitterCap = 2
    None = None
    MaxTick = 4
    MaxEvents = 2
    MaxInputs = 1
SPECIFICATION Spec
CHECK_DEADLOCK FALSE
INVARIANT NoPanic
