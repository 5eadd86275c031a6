CONSTANTS
    States <- Versions
    Initial = 0
    Moves <- AnyMove
    Closed = {2}
    Alert = Alert
    MayHide = TRUE
    PollSlots = {p1, p2}
    EventSlots = {e1}
    MaxMoves = 2
SPECIFICATION FairSpec
INVARIANTS
    TypeOK
    LoopAlive
    StampIsShown
    OneAtATime
PROPERTIES
    KeepsPolling
    WatchedConverges
