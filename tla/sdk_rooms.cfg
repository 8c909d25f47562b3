CONSTANTS
    Players <- TwoPlayers
    RoomIds <- OneRoom
    Routes <- HostAndGuest
    MaxRooms = 1
    InboxCap = 2
    OutboxCap = 2
    None = None
    MaxId = 2
    MaxInstances = 2
    MaxConns = 1
    MaxOther = 1
    WireCap = 1
SPECIFICATION FairSpec
CHECK_DEADLOCK FALSE
INVARIANT TypeOK
INVARIANT SessionRoomLives
INVARIANT RoomHasReason
 
INVARIANT MembersAgree
 
