CONSTANTS
    Peers = {p1}
    Workers = {w1}
    WorkerOf <- OneWorker
    ShortRequest = {}
    Bursts = {0, 1}
    MaxSessions = 2
    MaxChallenges = 2
    MaxData = 1
    MaxGaps = 1
    UpQueueCap = 20
    CanDrain = FALSE
    MaxConnects = 2
    MaxTicks = 0
    MaxKicks = 1
SPECIFICATION Spec
CHECK_DEADLOCK FALSE
INVARIANT EverySessionAnnounced
INVARIANT NoGhosts
INVARIANT KnownBeforeData
INVARIANT ClosedIsFinal
INVARIANT ChallengeUsedOnce
