CONSTANTS
    Peers = {p1, p2}
    Workers = {w1}
    WorkerOf <- OneWorker
    ShortRequest = {p2}
    Bursts = {0, 1, 2}
    MaxSessions = 1
    MaxChallenges = 1
    MaxData = 2
    MaxGaps = 1
    UpQueueCap = 2
    CanDrain = TRUE
    MaxConnects = 2
    MaxTicks = 1
    MaxKicks = 1
SPECIFICATION FairSpec
CHECK_DEADLOCK FALSE
PROPERTY VanishedIsClosed
INVARIANT TypeOK
 
